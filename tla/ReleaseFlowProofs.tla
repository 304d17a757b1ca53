------------------------- MODULE ReleaseFlowProofs -------------------------
(***************************************************************************)
(* Theorems about ReleaseFlow: what the mirror holds, what main holds,     *)
(* what moves main, and what is at the upload destination, for any number  *)
(* of tasks, versions, owner's commits, presses and disturbances.          *)
(***************************************************************************)
EXTENDS ReleaseFlow, FiniteSetTheorems, WellFoundedInduction, TLAPS

(***************************************************************************)
(* The invariant.                                                          *)
(***************************************************************************)
Request == [commit : Commit, status : {"open", "passed", "failed"}]

\* Records of which only the fields are fixed.
IsRelease(r) == r \in [head : {r.head}, base : {r.base}, status : {r.status}]
IsDecision(d) == d \in [decision : {d.decision}, merge : {d.merge}, at : {d.at},
                        head : {d.head}, upload : {d.upload}]
IsPress(r) == r \in [task : Tasks \cup {None}, stale : SUBSET Tasks,
                     step : {"idle", "accept", "merging", "finish", "fail", "void"}]
IsTx(r) ==
    r \in [kind : {"none", "mirror", "accept", "recover"}, task : Tasks \cup {None},
           press : Presses \cup {None}, commit : Commit, base : {r.base}, entry : {r.entry},
           draft : {r.draft},
           step : {"none", "intent", "ref", "moved", "recorded", "done", "entries"}]

Types ==
    /\ main \in Seq(Commit) \ {<<>>}
    /\ branch \in [Tasks -> Seq(Commit) \ {<<>>}]
    /\ mirror \in [Tasks -> Seq(Commit)]
    /\ requests \in [Tasks -> Seq(Request)]
    /\ DOMAIN releases = Tasks /\ \A t \in Tasks : IsRelease(releases[t])
    /\ DOMAIN decisions = Tasks /\ \A t \in Tasks : decisions[t] # None => IsDecision(decisions[t])
    /\ DOMAIN acceptances = Tasks
    /\ DOMAIN press = Presses
    /\ \A p \in Presses : IsPress(press[p]) /\ (press[p].step = "accept" => press[p].task \in Tasks)
    /\ IsTx(tx)

\* A reviewed commit is on its task's branch.
OnBranch(t, c) == \E j \in DOMAIN branch[t] : branch[t][j] = c
Reviews ==
    /\ \A t \in Tasks : \A i \in DOMAIN requests[t] : OnBranch(t, requests[t][i].commit)
    /\ tx.kind = "mirror" => tx.task \in Tasks /\ OnBranch(tx.task, tx.commit)

\* The mirror holds every review under its number, and the one being sealed
\* under the next.
Seals ==
    /\ \A t \in Tasks : /\ Len(requests[t]) <= Len(mirror[t])
                        /\ \A i \in 1..Len(requests[t]) : mirror[t][i] = requests[t][i].commit
    /\ tx.kind = "mirror" /\ tx.step \in {"ref", "done"} =>
        /\ Len(requests[tx.task]) + 1 <= Len(mirror[tx.task])
        /\ mirror[tx.task][Len(requests[tx.task]) + 1] = tx.commit

\* An answer is about the release there is.
Heads == \A t \in Tasks : decisions[t] # None => decisions[t].head = releases[t].head

\* What may become main: a reviewed, accepted descendant of the base.
Mergeable(t, c, base) ==
    /\ base \subseteq c /\ OnBranch(t, c)
    /\ Accepted(t) /\ decisions[t].head = c
    /\ \E i \in DOMAIN requests[t] : requests[t][i] = [commit |-> c, status |-> "passed"]

Merging ==
    tx.kind = "accept" =>
        /\ tx.task \in Tasks
        /\ tx.step = "intent" => Mergeable(tx.task, tx.commit, tx.base)
        /\ tx.step \in {"moved", "recorded", "done"} => tx.commit \subseteq Main

\* Only recovery works before the application is up, and its draft of the board
\* names what is in main.
Recovering ==
    /\ app = "recovering" => tx.kind = "recover"
    /\ tx.kind = "recover" =>
        /\ app = "recovering"
        /\ DOMAIN tx.draft = Tasks
        /\ \A t \in Tasks : tx.draft[t] # None => tx.draft[t] \subseteq Main

BrokerInvariant ==
    Types /\ Reviews /\ Seals /\ Heads /\ Merging /\ Recovering /\ AcceptedInMain

(***************************************************************************)
(* Lemmas.                                                                 *)
(***************************************************************************)
LEMMA Lasts ==
    ASSUME NEW S, NEW s \in Seq(S) \ {<<>>}
    PROVE  /\ Last(s) \in S /\ Len(s) \in DOMAIN s /\ Last(s) = s[Len(s)]
           /\ \A e \in S : /\ Append(s, e) \in Seq(S) \ {<<>>} /\ Last(Append(s, e)) = e
                           /\ \A j \in DOMAIN s : j \in DOMAIN Append(s, e) /\ Append(s, e)[j] = s[j]
BY DEF Last

\* The line of a branch up to a commit that is on it ends in that commit.
LEMMA LineToEnds ==
    ASSUME BrokerInvariant, NEW t \in Tasks, NEW c, OnBranch(t, c)
    PROVE  LineTo(t, c) \in Seq(Commit) \ {<<>>} /\ Last(LineTo(t, c)) = c
<1> DEFINE n == CHOOSE n \in DOMAIN branch[t] : branch[t][n] = c
<1>1. n \in DOMAIN branch[t] /\ branch[t][n] = c
  BY DEF OnBranch
<1>2. branch[t] \in Seq(Commit)
  BY DEF BrokerInvariant, Types
<1>3. LineTo(t, c) = SubSeq(branch[t], 1, n)
  BY DEF LineTo
<1> HIDE DEF n
<1> QED BY <1>1, <1>2, <1>3 DEF Last

LEMMA NoTxFacts == NoTx.kind = "none" /\ NoTx.step = "none" /\ IsTx(NoTx)
BY DEF NoTx, IsTx, Commit

\* A step of anything but the broker, the reviews and the board's answers.
LEMMA OthersKept ==
    ASSUME BrokerInvariant,
           UNCHANGED <<main, branch, mirror, requests, releases, decisions, acceptances, tx, press,
                       app>>
    PROVE  BrokerInvariant'
<1>1. Types' /\ Reviews' /\ Seals'
  BY DEF BrokerInvariant, Types, Reviews, Seals, OnBranch
<1>2. Heads' /\ Merging' /\ Recovering' /\ AcceptedInMain'
  BY DEF BrokerInvariant, Heads, Merging, Mergeable, OnBranch, Accepted, Recovering, Main,
         AcceptedInMain
<1> QED BY <1>1, <1>2 DEF BrokerInvariant

\* A step that changes what the board says of releases and answers while the
\* broker is idle.
LEMMA AnswersKept ==
    ASSUME BrokerInvariant, tx = NoTx,
           UNCHANGED <<main, branch, mirror, requests, acceptances, tx, app>>,
           Types', Heads'
    PROVE  BrokerInvariant'
<1>1. tx.kind = "none" /\ tx'.kind = "none"
  BY NoTxFacts
<1>2. Reviews' /\ Seals' /\ Merging' /\ Recovering' /\ AcceptedInMain'
  BY <1>1 DEF BrokerInvariant, Reviews, Seals, OnBranch, Merging, Recovering, AcceptedInMain, Main
<1> QED BY <1>2 DEF BrokerInvariant

\* One record of the board changes and keeps its fields.
LEMMA DecisionKept ==
    ASSUME Types, Heads, NEW t, NEW d,
           d # None => IsDecision(d),
           t \in Tasks /\ d # None => d.head = releases[t].head,
           decisions' = [decisions EXCEPT ![t] = d],
           DOMAIN releases' = Tasks,
           \A u \in Tasks : IsRelease(releases'[u]) /\ releases'[u].head = releases[u].head
    PROVE  /\ DOMAIN decisions' = Tasks
           /\ \A u \in Tasks : decisions'[u] # None => IsDecision(decisions'[u])
           /\ Heads'
BY DEF Types, Heads

LEMMA PressKept ==
    ASSUME Types, NEW p, NEW r, IsPress(r), r.step = "accept" => r.task \in Tasks,
           press' = [press EXCEPT ![p] = r]
    PROVE  /\ DOMAIN press' = Presses
           /\ \A q \in Presses : IsPress(press'[q])
                                 /\ (press'[q].step = "accept" => press'[q].task \in Tasks)
BY DEF Types

LEMMA IdleIsPress == IsPress(IdlePress) /\ IdlePress.step = "idle"
BY DEF IdlePress, IsPress

LEMMA NoAnswer ==
    ASSUME Types, Heads, UNCHANGED <<releases, decisions>>
    PROVE  /\ DOMAIN releases' = Tasks /\ \A u \in Tasks : IsRelease(releases'[u])
           /\ DOMAIN decisions' = Tasks
           /\ \A u \in Tasks : decisions'[u] # None => IsDecision(decisions'[u])
           /\ Heads'
BY DEF Types, Heads

LEMMA AcceptKept ==
    ASSUME BrokerInvariant, NEW p \in Presses, NEW t \in Tasks, Accept(p, t)
    PROVE  BrokerInvariant'
<1> DEFINE d == [decision |-> "accepted", merge |-> "none", at |-> NextAccept,
                 head |-> releases[t].head, upload |-> "pending"]
           r == [task |-> t, step |-> "accept", stale |-> {}]
<1>1. IsDecision(d) /\ d.head = releases[t].head
  BY DEF IsDecision
<1>2. decisions' = decisions \/ decisions' = [decisions EXCEPT ![t] = d]
  BY DEF Accept
<1>3. press' = [press EXCEPT ![p] = r] /\ IsPress(r) /\ r.task \in Tasks
  BY DEF Accept, IsPress
<1> HIDE DEF d, r
<1>4. /\ tx = NoTx
      /\ UNCHANGED <<main, branch, mirror, requests, acceptances, tx, app, releases>>
  BY DEF Accept, Free, git
<1>5. Types /\ Heads
  BY DEF BrokerInvariant
<1>6. /\ DOMAIN decisions' = Tasks
      /\ \A u \in Tasks : decisions'[u] # None => IsDecision(decisions'[u])
      /\ Heads'
  <2>1. CASE decisions' = decisions
    BY <1>4, <1>5, <2>1, NoAnswer
  <2>2. CASE decisions' = [decisions EXCEPT ![t] = d]
    BY <1>1, <1>4, <1>5, <2>2, DecisionKept DEF Types
  <2> QED BY <1>2, <2>1, <2>2
<1>7. Types'
  BY <1>3, <1>4, <1>5, <1>6, PressKept DEF Types
<1> QED BY <1>4, <1>6, <1>7, AnswersKept

LEMMA RejectKept ==
    ASSUME BrokerInvariant, NEW t \in Tasks, Reject(t)
    PROVE  BrokerInvariant'
<1> DEFINE d == [decision |-> "not_accepted", merge |-> "none", at |-> 0,
                 head |-> releases[t].head, upload |-> "none"]
<1>1. IsDecision(d) /\ d.head = releases[t].head
  BY DEF IsDecision
<1>2. decisions' = [decisions EXCEPT ![t] = d]
  BY DEF Reject
<1> HIDE DEF d
<1>3. /\ tx = NoTx
      /\ UNCHANGED <<main, branch, mirror, requests, acceptances, tx, app, releases, press>>
  BY DEF Reject, Free, git
<1>4. Types /\ Heads
  BY DEF BrokerInvariant
<1>5. /\ DOMAIN decisions' = Tasks
      /\ \A u \in Tasks : decisions'[u] # None => IsDecision(decisions'[u])
      /\ Heads'
  BY <1>1, <1>2, <1>3, <1>4, DecisionKept DEF Types
<1>6. Types'
  BY <1>3, <1>4, <1>5 DEF Types
<1> QED BY <1>3, <1>5, <1>6, AnswersKept

\* The last steps of a press: only its merge mark is written, or nothing.
LEMMA PressOver ==
    ASSUME BrokerInvariant, NEW p \in Presses, NEW t, NEW merge,
           tx = NoTx,
           UNCHANGED <<main, branch, mirror, requests, acceptances, tx, app, releases>>,
           press' = [press EXCEPT ![p] = IdlePress],
           decisions[t] # None \/ UNCHANGED decisions,
           decisions' = decisions \/ decisions' = [decisions EXCEPT ![t].merge = merge]
    PROVE  BrokerInvariant'
<1> DEFINE d == [decisions[t] EXCEPT !.merge = merge]
<1>1. Types /\ Heads
  BY DEF BrokerInvariant
<1>2. t \in Tasks /\ decisions[t] # None => IsDecision(d) /\ d.head = releases[t].head
  BY <1>1 DEF Types, Heads, IsDecision
<1> HIDE DEF d
<1>3. /\ DOMAIN decisions' = Tasks
      /\ \A u \in Tasks : decisions'[u] # None => IsDecision(decisions'[u])
      /\ Heads'
  <2>1. CASE decisions' = decisions
    BY <1>1, <2>1, NoAnswer
  <2>2. CASE decisions' # decisions
    <3>1. decisions' = [decisions EXCEPT ![t] = d] /\ decisions[t] # None
      BY <2>2 DEF d
    <3>2. \A u \in Tasks : decisions'[u] = IF u = t THEN d ELSE decisions[u]
      BY <1>1, <3>1 DEF Types
    <3> QED BY <1>1, <1>2, <3>1, <3>2 DEF Types, Heads
  <2> QED BY <2>1, <2>2
<1>4. Types'
  BY <1>1, <1>3, PressKept, IdleIsPress DEF Types
<1> QED BY <1>3, <1>4, AnswersKept

LEMMA FinishPressKept ==
    ASSUME BrokerInvariant, NEW p \in Presses, FinishPress(p)
    PROVE  BrokerInvariant'
<1> QED BY PressOver DEF FinishPress, Free, git, Accepted

LEMMA FailMergeKept ==
    ASSUME BrokerInvariant, NEW p \in Presses, FailMerge(p)
    PROVE  BrokerInvariant'
<1> QED BY PressOver DEF FailMerge, Free, git

LEMMA VoidKept ==
    ASSUME BrokerInvariant, NEW t \in Tasks \cup {None}, Void(t), tx = NoTx,
           \/ UNCHANGED press
           \/ \E p \in Presses : press' = [press EXCEPT ![p] = IdlePress],
           UNCHANGED <<main, branch, mirror, requests, acceptances, tx, app>>
    PROVE  BrokerInvariant'
<1>1. Types /\ Heads
  BY DEF BrokerInvariant
<1>2. /\ DOMAIN releases' = Tasks
      /\ \A u \in Tasks : IsRelease(releases'[u]) /\ releases'[u].head = releases[u].head
  BY <1>1 DEF Types, Void, IsRelease
<1>3. decisions' = [decisions EXCEPT ![t] = None]
  BY DEF Void
<1>4. /\ DOMAIN decisions' = Tasks
      /\ \A u \in Tasks : decisions'[u] # None => IsDecision(decisions'[u])
      /\ Heads'
  BY <1>1, <1>2, <1>3 DEF Types, Heads
<1>5. /\ DOMAIN press' = Presses
      /\ \A q \in Presses : IsPress(press'[q])
                            /\ (press'[q].step = "accept" => press'[q].task \in Tasks)
  <2>2. CASE UNCHANGED press
    BY <1>1, <2>2 DEF Types
  <2>3. ASSUME NEW p \in Presses, press' = [press EXCEPT ![p] = IdlePress]
        PROVE  /\ DOMAIN press' = Presses
               /\ \A q \in Presses : IsPress(press'[q])
                                     /\ (press'[q].step = "accept" => press'[q].task \in Tasks)
    BY <1>1, <2>3, PressKept, IdleIsPress
  <2> QED BY <2>2, <2>3
<1>6. Types'
  BY <1>1, <1>2, <1>4, <1>5 DEF Types
<1> QED BY <1>4, <1>6, AnswersKept

LEMMA VoidAcceptKept ==
    ASSUME BrokerInvariant, NEW p \in Presses, VoidAccept(p)
    PROVE  BrokerInvariant'
<1>1. press[p].task \in Tasks \cup {None}
  BY DEF BrokerInvariant, Types, IsPress
<1> QED BY <1>1, VoidKept DEF VoidAccept, Free, git

LEMMA ReconcileKept ==
    ASSUME BrokerInvariant, NEW t \in Tasks, Reconcile(t)
    PROVE  BrokerInvariant'
BY VoidKept DEF Reconcile, Free, git

\* The upload queue writes what became of an upload, nothing else.
LEMMA UploadWrites ==
    ASSUME BrokerInvariant, NEW t, NEW outcome, tx = NoTx,
           UNCHANGED <<main, branch, mirror, requests, acceptances, tx, app, releases, press>>,
           \/ UNCHANGED decisions
           \/ decisions[t] # None /\ decisions' = [decisions EXCEPT ![t].upload = outcome]
    PROVE  BrokerInvariant'
<1> DEFINE d == [decisions[t] EXCEPT !.upload = outcome]
<1>1. Types /\ Heads
  BY DEF BrokerInvariant
<1>2. t \in Tasks /\ decisions[t] # None => IsDecision(d) /\ d.head = releases[t].head
  BY <1>1 DEF Types, Heads, IsDecision
<1> HIDE DEF d
<1>3. /\ DOMAIN decisions' = Tasks
      /\ \A u \in Tasks : decisions'[u] # None => IsDecision(decisions'[u])
      /\ Heads'
  <2>1. CASE decisions' = decisions
    BY <1>1, <2>1, NoAnswer
  <2>2. CASE decisions' # decisions
    <3>1. decisions' = [decisions EXCEPT ![t] = d] /\ decisions[t] # None
      BY <2>2 DEF d
    <3>2. \A u \in Tasks : decisions'[u] = IF u = t THEN d ELSE decisions[u]
      BY <1>1, <3>1 DEF Types
    <3> QED BY <1>1, <1>2, <3>1, <3>2 DEF Types, Heads
  <2> QED BY <2>1, <2>2
<1>4. Types'
  BY <1>1, <1>3 DEF Types
<1> QED BY <1>3, <1>4, AnswersKept

LEMMA UploadingKept ==
    ASSUME BrokerInvariant,
           Uploading \/ (\E t \in Tasks : UploadRetry(t))
    PROVE  BrokerInvariant'
<1>1. CASE UploadTake \/ UploadNext \/ UploadPush \/ UploadEnd
  BY <1>1, OthersKept DEF UploadTake, UploadNext, UploadPush, UploadEnd, git, board
<1>2. CASE UploadMark
  BY <1>2, UploadWrites DEF UploadMark, Free, git
<1>3. CASE UploadSave
  BY <1>3, UploadWrites DEF UploadSave, Free, git
<1>4. CASE \E t \in Tasks : UploadRetry(t)
  BY <1>4, UploadWrites DEF UploadRetry, Accepted, Free, git
<1> QED BY <1>1, <1>2, <1>3, <1>4 DEF Uploading

LEMMA RecordReleaseKept ==
    ASSUME BrokerInvariant, RecordRelease
    PROVE  BrokerInvariant'
<1> DEFINE t == check.task
           r == [head |-> check.commit, base |-> check.base, status |-> Awaiting]
<1>1. Types /\ Heads
  BY DEF BrokerInvariant
<1>2. IsRelease(r)
  BY DEF IsRelease
<1>3. \/ releases' = releases /\ decisions' = decisions
      \/ releases' = [releases EXCEPT ![t] = r] /\ decisions' = [decisions EXCEPT ![t] = None]
  BY DEF RecordRelease
<1>4. /\ tx = NoTx
      /\ UNCHANGED <<main, branch, mirror, requests, acceptances, tx, app, press>>
  BY DEF RecordRelease, Free, git
<1> HIDE DEF r, t
<1>5. /\ DOMAIN releases' = Tasks /\ \A u \in Tasks : IsRelease(releases'[u])
      /\ DOMAIN decisions' = Tasks
      /\ \A u \in Tasks : decisions'[u] # None => IsDecision(decisions'[u])
      /\ Heads'
  BY <1>1, <1>2, <1>3 DEF Types, Heads
<1>6. Types'
  BY <1>1, <1>4, <1>5 DEF Types
<1> QED BY <1>4, <1>5, <1>6, AnswersKept

\* The versions of a task are counted by numbers.
LEMMA NextVersion ==
    ASSUME NEW t \in Tasks
    PROVE  Cardinality(Versions(t)) + 1 \in Nat \ {0}
<1>0. MaxVersions \in Int
  BY ReleaseAssumption
<1>1. IsFiniteSet(1..MaxVersions) /\ Versions(t) \subseteq 1..MaxVersions
  BY <1>0, FS_Interval DEF Versions
<1>2. Cardinality(Versions(t)) \in Nat
  BY <1>1, FS_Subset, FS_CardinalityType
<1> QED BY <1>2

\* A branch that grows still holds what was on it.
LEMMA BranchKept ==
    ASSUME BrokerInvariant, NEW t \in Tasks, NEW c \in Commit, tx = NoTx,
           branch' = branch \/ branch' = [branch EXCEPT ![t] = Append(branch[t], c)],
           UNCHANGED <<main, mirror, requests, releases, decisions, acceptances, tx, press, app>>
    PROVE  BrokerInvariant'
<1>1. Types /\ branch[t] \in Seq(Commit) \ {<<>>}
  BY DEF BrokerInvariant, Types
<1>2. /\ Append(branch[t], c) \in Seq(Commit) \ {<<>>}
      /\ \A j \in DOMAIN branch[t] : /\ j \in DOMAIN Append(branch[t], c)
                                     /\ Append(branch[t], c)[j] = branch[t][j]
  BY <1>1, Lasts
<1>3. branch' \in [Tasks -> Seq(Commit) \ {<<>>}]
  BY <1>1, <1>2 DEF Types
<1>4. \A u \in Tasks : \A j \in DOMAIN branch[u] :
          j \in DOMAIN branch'[u] /\ branch'[u][j] = branch[u][j]
  BY <1>1, <1>2 DEF Types
<1>5. Types'
  BY <1>1, <1>3 DEF Types
<1>6. tx.kind = "none"
  BY NoTxFacts
<1>7. Reviews'
  BY <1>4, <1>6 DEF BrokerInvariant, Reviews, OnBranch
<1>8. Seals' /\ Heads' /\ Merging' /\ Recovering' /\ AcceptedInMain'
  BY <1>6 DEF BrokerInvariant, Seals, Heads, Merging, Recovering, AcceptedInMain, Main
<1> QED BY <1>5, <1>7, <1>8 DEF BrokerInvariant

LEMMA TipType == ASSUME BrokerInvariant, NEW t \in Tasks PROVE Tip(t) \in Commit /\ OnBranch(t, Tip(t))
<1>1. branch[t] \in Seq(Commit) \ {<<>>}
  BY DEF BrokerInvariant, Types
<1> QED BY <1>1, Lasts DEF Tip, OnBranch

LEMMA MainType == ASSUME BrokerInvariant PROVE Main \in Commit
BY Lasts DEF BrokerInvariant, Types, Main

LEMMA WorkKept ==
    ASSUME BrokerInvariant, NEW t \in Tasks, Work(t)
    PROVE  BrokerInvariant'
<1> DEFINE n == Cardinality(Versions(t)) + 1
           c == Tip(t) \cup {<<t, n>>}
<1>1. n \in 1..MaxVersions
  BY NextVersion, ReleaseAssumption DEF Work
<1>2. c \in Commit
  BY <1>1, TipType DEF Commit, Change
<1>3. branch' = [branch EXCEPT ![t] = Append(branch[t], c)]
  BY DEF Work
<1> HIDE DEF c
<1> QED BY <1>2, <1>3, BranchKept DEF Work, Free, board

LEMMA ReintegrateKept ==
    ASSUME BrokerInvariant, NEW t \in Tasks, Reintegrate(t)
    PROVE  BrokerInvariant'
<1> DEFINE n == Cardinality(Versions(t)) + 1
           c == Tip(t) \cup Main \cup {<<t, n>>}
<1>1. CASE Main \subseteq Tip(t)
  BY <1>1, BranchKept, TipType DEF Reintegrate, Free
<1>2. CASE ~(Main \subseteq Tip(t))
  <2>1. n \in 1..MaxVersions
    BY <1>2, NextVersion, ReleaseAssumption DEF Reintegrate
  <2>2. c \in Commit
    BY <2>1, TipType, MainType DEF Commit, Change
  <2>3. branch' = [branch EXCEPT ![t] = Append(branch[t], c)]
    BY <1>2 DEF Reintegrate
  <2> HIDE DEF c
  <2> QED BY <2>2, <2>3, BranchKept DEF Reintegrate, Free
<1> QED BY <1>1, <1>2

LEMMA VerdictKept ==
    ASSUME BrokerInvariant, NEW t \in Tasks, Verdict(t)
    PROVE  BrokerInvariant'
<1> DEFINE s == requests[t]
           n == Len(s)
<1>1. PICK status \in {"passed", "failed"} : requests' = [requests EXCEPT ![t][n].status = status]
  BY DEF Verdict
<1>2. s \in Seq(Request) \ {<<>>} /\ n \in DOMAIN s /\ s[n] \in Request
  BY DEF BrokerInvariant, Types, Verdict, Reviewed
<1> DEFINE r == [s[n] EXCEPT !.status = status]
           new == [s EXCEPT ![n] = r]
<1>3. r \in Request /\ r.commit = s[n].commit
  BY <1>2 DEF Request
<1>4. requests' = [requests EXCEPT ![t] = new]
  BY <1>1
<1> HIDE DEF r
<1>5. /\ new \in Seq(Request) /\ Len(new) = Len(s) /\ DOMAIN new = DOMAIN s
      /\ \A i \in DOMAIN s : new[i].commit = s[i].commit
  BY <1>2, <1>3
<1> HIDE DEF new
<1>6. /\ requests' \in [Tasks -> Seq(Request)]
      /\ \A u \in Tasks : /\ Len(requests'[u]) = Len(requests[u])
                          /\ DOMAIN requests'[u] = DOMAIN requests[u]
                          /\ \A i \in DOMAIN requests[u] :
                                 requests'[u][i].commit = requests[u][i].commit
  BY <1>4, <1>5 DEF BrokerInvariant, Types
<1>7. /\ tx.kind = "none"
      /\ UNCHANGED <<main, branch, mirror, releases, decisions, acceptances, tx, press, app>>
  BY NoTxFacts DEF Verdict, Free, git
<1>8. Types'
  BY <1>6, <1>7 DEF BrokerInvariant, Types
<1>9. Reviews'
  BY <1>6, <1>7 DEF BrokerInvariant, Reviews, OnBranch
<1>10. Seals'
  <2>1. \A u \in Tasks : requests[u] \in Seq(Request)
    BY DEF BrokerInvariant, Types
  <2>2. \A u \in Tasks : 1..Len(requests[u]) = DOMAIN requests[u]
    BY <2>1
  <2> QED BY <1>6, <1>7, <2>2 DEF BrokerInvariant, Seals
<1>11. Heads' /\ Merging' /\ Recovering' /\ AcceptedInMain'
  BY <1>7 DEF BrokerInvariant, Heads, Merging, Recovering, AcceptedInMain, Main
<1> QED BY <1>8, <1>9, <1>10, <1>11 DEF BrokerInvariant

(***************************************************************************)
(* The steps of the broker's transactions.                                 *)
(***************************************************************************)

\* A step of the broker that leaves the repository and the board alone.
LEMMA TxKept ==
    ASSUME BrokerInvariant, IsTx(tx'),
           UNCHANGED <<main, branch, mirror, requests, releases, decisions, acceptances, app>>,
           DOMAIN press' = Presses,
           \A p \in Presses : IsPress(press'[p])
                              /\ (press'[p].step = "accept" => press'[p].task \in Tasks),
           tx'.kind = "mirror" => tx'.task \in Tasks /\ OnBranch(tx'.task, tx'.commit),
           tx'.kind = "mirror" /\ tx'.step \in {"ref", "done"} =>
               /\ Len(requests[tx'.task]) + 1 <= Len(mirror[tx'.task])
               /\ mirror[tx'.task][Len(requests[tx'.task]) + 1] = tx'.commit,
           Merging', Recovering'
    PROVE  BrokerInvariant'
<1>1. Types'
  BY DEF BrokerInvariant, Types
<1>2. Reviews' /\ Seals'
  BY DEF BrokerInvariant, Reviews, Seals, OnBranch
<1>3. Heads' /\ AcceptedInMain'
  BY DEF BrokerInvariant, Heads, AcceptedInMain, Main
<1> QED BY <1>1, <1>2, <1>3 DEF BrokerInvariant

\* A transaction that moves on to its next step.
LEMMA TxStep ==
    ASSUME IsTx(tx), NEW label \in {"ref", "moved", "recorded", "done"},
           tx' = [tx EXCEPT !.step = label]
    PROVE  /\ IsTx(tx') /\ tx'.step = label
           /\ tx'.kind = tx.kind /\ tx'.task = tx.task /\ tx'.commit = tx.commit
           /\ tx'.base = tx.base /\ tx'.press = tx.press
BY DEF IsTx

LEMMA PressSame ==
    ASSUME BrokerInvariant, UNCHANGED press
    PROVE  /\ DOMAIN press' = Presses
           /\ \A p \in Presses : IsPress(press'[p])
                                 /\ (press'[p].step = "accept" => press'[p].task \in Tasks)
BY DEF BrokerInvariant, Types

\* A press that moves on to its next step.
LEMMA PressStep ==
    ASSUME BrokerInvariant, NEW p, NEW label \in {"merging", "fail", "void"}, Step(p, label)
    PROVE  /\ DOMAIN press' = Presses
           /\ \A q \in Presses : IsPress(press'[q])
                                 /\ (press'[q].step = "accept" => press'[q].task \in Tasks)
<1> DEFINE r == [press[p] EXCEPT !.step = label]
<1>1. press' = [press EXCEPT ![p] = r]
  BY DEF Step
<1>2. p \in Presses => IsPress(r) /\ r.step # "accept"
  BY DEF BrokerInvariant, Types, IsPress
<1> HIDE DEF r
<1> QED BY <1>1, <1>2 DEF BrokerInvariant, Types

LEMMA RequestReviewKept ==
    ASSUME BrokerInvariant, NEW t \in Tasks, RequestReview(t)
    PROVE  BrokerInvariant'
<1> DEFINE c == Tip(t)
<1>1. tx' = [NoTx EXCEPT !.kind = "mirror", !.task = t, !.commit = c, !.step = "intent"]
  BY DEF RequestReview
<1>2. c \in Commit /\ OnBranch(t, c)
  BY TipType
<1> HIDE DEF c
<1>3. IsTx(tx') /\ tx'.kind = "mirror" /\ tx'.task = t /\ tx'.commit = c /\ tx'.step = "intent"
  BY <1>1, <1>2 DEF NoTx, IsTx
<1>4. /\ tx = NoTx /\ app = "up"
      /\ UNCHANGED <<main, branch, mirror, requests, releases, decisions, acceptances, app, press>>
  BY DEF RequestReview, Free, board
<1>5. Merging' /\ Recovering'
  BY <1>3, <1>4 DEF Merging, Recovering
<1> QED BY <1>2, <1>3, <1>4, <1>5, TxKept, PressSame

LEMMA SealStepKept ==
    ASSUME BrokerInvariant, SealStep
    PROVE  BrokerInvariant'
<1> DEFINE t == tx.task
           n == Len(requests[t]) + 1
<1>1. /\ IsTx(tx) /\ tx.kind = "mirror" /\ tx.step = "intent" /\ t \in Tasks
      /\ mirror[t] \in Seq(Commit) /\ mirror \in [Tasks -> Seq(Commit)] /\ tx.commit \in Commit
      /\ requests[t] \in Seq(Request) /\ Len(requests[t]) <= Len(mirror[t])
      /\ tx.commit # None /\ \A c \in Commit : c # None
  BY ReleaseAssumption DEF SealStep, BrokerInvariant, Types, Reviews, Seals, IsTx
<1>2. UNCHANGED <<main, branch, requests, releases, decisions, acceptances, app, press>>
  BY DEF SealStep, board
<1>3. CASE Sealed(t, n) = None
  <2>1. n = Len(mirror[t]) + 1
    BY <1>1, <1>3 DEF Sealed
  <2>2. mirror' = [mirror EXCEPT ![t] = Append(mirror[t], tx.commit)]
        /\ tx' = [tx EXCEPT !.step = "ref"]
    BY <1>3 DEF SealStep, CreateRef, ReviewNumber
  <2>3. /\ Append(mirror[t], tx.commit) \in Seq(Commit)
        /\ Len(Append(mirror[t], tx.commit)) = n
        /\ Append(mirror[t], tx.commit)[n] = tx.commit
        /\ \A i \in 1..Len(requests[t]) : Append(mirror[t], tx.commit)[i] = mirror[t][i]
    BY <1>1, <2>1
  <2>4. /\ mirror' \in [Tasks -> Seq(Commit)]
        /\ mirror'[t] = Append(mirror[t], tx.commit)
        /\ \A u \in Tasks \ {t} : mirror'[u] = mirror[u]
    BY <1>1, <2>2, <2>3
  <2>5. IsTx(tx') /\ tx'.kind = "mirror" /\ tx'.step = "ref" /\ tx'.task = t
        /\ tx'.commit = tx.commit
    BY <1>1, <2>2, TxStep
  <2>6. Types' /\ Reviews'
    <3>1. Types'
      BY <1>2, <2>4, <2>5 DEF BrokerInvariant, Types
    <3>2. Reviews'
      BY <1>1, <1>2, <2>5 DEF BrokerInvariant, Reviews, OnBranch
    <3> QED BY <3>1, <3>2
  <2>7. Seals'
    <3>1. \A u \in Tasks : /\ Len(requests[u]) <= Len(mirror[u])
                           /\ \A i \in 1..Len(requests[u]) : mirror[u][i] = requests[u][i].commit
      BY DEF BrokerInvariant, Seals
    <3>2. requests' = requests
      BY <1>2
    <3>3. \A u \in Tasks : /\ Len(requests[u]) <= Len(mirror'[u])
                           /\ \A i \in 1..Len(requests[u]) : mirror'[u][i] = requests[u][i].commit
      <4>1. ASSUME NEW u \in Tasks \ {t}
            PROVE  /\ Len(requests[u]) <= Len(mirror'[u])
                   /\ \A i \in 1..Len(requests[u]) : mirror'[u][i] = requests[u][i].commit
        BY <2>4, <3>1
      <4>2. /\ Len(requests[t]) <= Len(mirror'[t])
            /\ \A i \in 1..Len(requests[t]) : mirror'[t][i] = requests[t][i].commit
        BY <1>1, <2>1, <2>3, <2>4, <3>1
      <4> QED BY <4>1, <4>2
    <3>4. n <= Len(mirror'[t]) /\ mirror'[t][n] = tx.commit
      BY <2>1, <2>3, <2>4, <1>1
    <3> QED BY <2>5, <3>2, <3>3, <3>4 DEF Seals
  <2>8. Heads' /\ AcceptedInMain'
    BY <1>2 DEF BrokerInvariant, Heads, AcceptedInMain, Main
  <2>9. Merging' /\ Recovering'
    BY <1>1, <1>2, <2>5 DEF BrokerInvariant, Merging, Recovering
  <2> QED BY <2>6, <2>7, <2>8, <2>9 DEF BrokerInvariant
<1>4. CASE Sealed(t, n) # None
  <2>1. UNCHANGED mirror
    BY <1>4 DEF SealStep, CreateRef, ReviewNumber
  <2>2. CASE tx' = NoTx
    <3>1. tx'.kind = "none" /\ IsTx(tx')
      BY <2>2, NoTxFacts
    <3>2. Merging' /\ Recovering'
      BY <1>1, <1>2, <3>1 DEF BrokerInvariant, Merging, Recovering
    <3> QED BY <1>2, <2>1, <3>1, <3>2, TxKept, PressSame
  <2>3. CASE tx' # NoTx
    <3>1. tx' = [tx EXCEPT !.step = "ref"] /\ Sealed(t, n) = tx.commit
      BY <1>4, <2>3 DEF SealStep, CreateRef, ReviewNumber
    <3>2. n <= Len(mirror[t]) /\ mirror[t][n] = tx.commit
      BY <1>1, <3>1 DEF Sealed
    <3>3. IsTx(tx') /\ tx'.kind = "mirror" /\ tx'.step = "ref" /\ tx'.task = t
          /\ tx'.commit = tx.commit
      BY <1>1, <3>1, TxStep
    <3>4. Merging' /\ Recovering'
      BY <1>1, <1>2, <3>3 DEF BrokerInvariant, Merging, Recovering
    <3>5. OnBranch(t, tx.commit)
      BY <1>1 DEF BrokerInvariant, Reviews
    <3> QED BY <1>1, <1>2, <2>1, <3>2, <3>3, <3>4, <3>5, TxKept, PressSame
  <2> QED BY <2>2, <2>3
<1> QED BY <1>3, <1>4

LEMMA SealDoneKept ==
    ASSUME BrokerInvariant, SealDone
    PROVE  BrokerInvariant'
<1>1. IsTx(tx) /\ tx.kind = "mirror" /\ tx.step = "ref" /\ tx' = [tx EXCEPT !.step = "done"]
  BY DEF SealDone, BrokerInvariant, Types
<1>2. UNCHANGED <<main, branch, mirror, requests, releases, decisions, acceptances, app, press>>
  BY DEF SealDone, board
<1>3. IsTx(tx') /\ tx'.kind = "mirror" /\ tx'.task = tx.task /\ tx'.commit = tx.commit
  BY <1>1, TxStep
<1>4. /\ tx.task \in Tasks /\ OnBranch(tx.task, tx.commit)
      /\ Len(requests[tx.task]) + 1 <= Len(mirror[tx.task])
      /\ mirror[tx.task][Len(requests[tx.task]) + 1] = tx.commit
  BY <1>1 DEF BrokerInvariant, Reviews, Seals
<1>5. Merging' /\ Recovering'
  BY <1>1, <1>2, <1>3 DEF BrokerInvariant, Merging, Recovering
<1> QED BY <1>2, <1>3, <1>4, <1>5, TxKept, PressSame

LEMMA SealCommitKept ==
    ASSUME BrokerInvariant, SealCommit
    PROVE  BrokerInvariant'
<1> DEFINE t == tx.task
           r == [commit |-> tx.commit, status |-> "open"]
           n == Len(requests[t])
<1>1. /\ tx.kind = "mirror" /\ tx.step = "done" /\ t \in Tasks /\ OnBranch(t, tx.commit)
      /\ n + 1 <= Len(mirror[t]) /\ mirror[t][n + 1] = tx.commit
      /\ requests \in [Tasks -> Seq(Request)] /\ requests[t] \in Seq(Request)
  BY DEF SealCommit, BrokerInvariant, Types, Reviews, Seals
<1>2. r \in Request /\ r.commit = tx.commit
  BY DEF BrokerInvariant, Types, IsTx, Request
<1>3. /\ requests' = [requests EXCEPT ![t] = Append(requests[t], r)] /\ tx' = NoTx
      /\ UNCHANGED <<main, branch, mirror, releases, decisions, acceptances, app, press>>
  BY DEF SealCommit, git
<1> HIDE DEF r
<1>4. /\ Append(requests[t], r) \in Seq(Request) /\ Len(Append(requests[t], r)) = n + 1
      /\ Append(requests[t], r)[n + 1] = r
      /\ DOMAIN Append(requests[t], r) = 1..(n + 1) /\ DOMAIN requests[t] = 1..n /\ n \in Nat
      /\ \A i \in 1..n : Append(requests[t], r)[i] = requests[t][i]
  BY <1>1, <1>2
<1>5. /\ requests' \in [Tasks -> Seq(Request)] /\ requests'[t] = Append(requests[t], r)
      /\ \A u \in Tasks \ {t} : requests'[u] = requests[u]
  BY <1>1, <1>3, <1>4
<1>6. tx'.kind = "none" /\ IsTx(tx')
  BY <1>3, NoTxFacts
<1>7. Types'
  BY <1>3, <1>5, <1>6 DEF BrokerInvariant, Types
<1>8. Reviews'
  BY <1>1, <1>2, <1>3, <1>4, <1>5, <1>6 DEF BrokerInvariant, Reviews, OnBranch
<1>9. Seals'
  <2>1. \A i \in 1..(n + 1) : mirror[t][i] = requests'[t][i].commit
    BY <1>1, <1>2, <1>4, <1>5 DEF BrokerInvariant, Seals
  <2> QED BY <1>1, <1>3, <1>4, <1>5, <1>6, <2>1 DEF BrokerInvariant, Seals
<1>10. Heads' /\ Merging' /\ Recovering' /\ AcceptedInMain'
  BY <1>1, <1>3, <1>6 DEF BrokerInvariant, Heads, Merging, Recovering, AcceptedInMain, Main
<1> QED BY <1>7, <1>8, <1>9, <1>10 DEF BrokerInvariant

LEMMA BeginMergeKept ==
    ASSUME BrokerInvariant, NEW p \in Presses, BeginMerge(p)
    PROVE  BrokerInvariant'
<1> DEFINE t == press[p].task
           c == Newest(t).commit
           base == releases[t].base
<1>1. /\ tx = NoTx /\ app = "up" /\ t \in Tasks
      /\ UNCHANGED <<main, branch, mirror, requests, releases, decisions, acceptances, app>>
  BY DEF BeginMerge, Free, board, BrokerInvariant, Types
<1>2. CASE UNCHANGED tx
  <2>1. Step(p, "fail") \/ Step(p, "void") \/ Step(p, "merging")
    BY <1>2 DEF BeginMerge
  <2>2. tx.kind = "none" /\ IsTx(tx') /\ tx'.kind = "none"
    BY <1>1, <1>2, NoTxFacts
  <2>3. Merging' /\ Recovering'
    BY <1>1, <2>2 DEF Merging, Recovering
  <2>4. /\ DOMAIN press' = Presses
        /\ \A q \in Presses : IsPress(press'[q])
                              /\ (press'[q].step = "accept" => press'[q].task \in Tasks)
    BY <1>1, <2>1, PressStep
  <2> QED BY <1>1, <2>2, <2>3, <2>4, TxKept
<1>3. CASE tx' # tx
  <2>1. /\ Accepted(t) /\ FinalPass(t, releases[t].head)
        /\ Main = base /\ base \subseteq c
        /\ Step(p, "merging")
        /\ tx' = [NoTx EXCEPT !.kind = "accept", !.task = t, !.press = p, !.commit = c,
                              !.base = base, !.step = "intent"]
    BY <1>3 DEF BeginMerge
  <2>2. /\ requests[t] \in Seq(Request) \ {<<>>} /\ Newest(t) = requests[t][Len(requests[t])]
        /\ Len(requests[t]) \in DOMAIN requests[t]
        /\ Newest(t).status = "passed" /\ c = releases[t].head /\ Newest(t) \in Request
    BY <1>1, <2>1, Lasts DEF FinalPass, Reviewed, Newest, BrokerInvariant, Types
  <2>3. c \in Commit /\ Newest(t) = [commit |-> c, status |-> "passed"]
    BY <2>2 DEF Request
  <2>4. OnBranch(t, c)
    BY <1>1, <2>2 DEF BrokerInvariant, Reviews
  <2>5. decisions[t].head = c
    BY <1>1, <2>1, <2>2 DEF BrokerInvariant, Heads, Accepted
  <2> HIDE DEF c, base, t
  <2>6. /\ IsTx(tx') /\ tx'.kind = "accept" /\ tx'.task = t /\ tx'.commit = c /\ tx'.base = base
        /\ tx'.step = "intent"
    BY <1>1, <2>1, <2>3 DEF NoTx, IsTx
  <2>7. Mergeable(t, c, base)
    BY <2>1, <2>2, <2>3, <2>4, <2>5 DEF Mergeable
  <2>9. Merging' /\ Recovering'
    BY <1>1, <2>6, <2>7 DEF Merging, Recovering, Mergeable, OnBranch, Accepted
  <2>10. /\ DOMAIN press' = Presses
         /\ \A q \in Presses : IsPress(press'[q])
                               /\ (press'[q].step = "accept" => press'[q].task \in Tasks)
    BY <1>1, <2>1, PressStep DEF t
  <2> QED BY <1>1, <2>6, <2>9, <2>10, TxKept
<1> QED BY <1>2, <1>3

\* main becomes the reviewed commit the owner accepted, and grows by it.
LEMMA MoveMainMoves ==
    ASSUME BrokerInvariant, MoveMain, MayMove
    PROVE  /\ main' \in Seq(Commit) \ {<<>>} /\ Main' = tx.commit /\ Main \subseteq Main'
           /\ tx.task \in Tasks /\ Mergeable(tx.task, tx.commit, tx.base)
<1>1. tx.kind = "accept" /\ tx.step = "intent" /\ main' = LineTo(tx.task, tx.commit)
  BY DEF MoveMain
<1>2. tx.task \in Tasks /\ Mergeable(tx.task, tx.commit, tx.base)
  BY <1>1 DEF BrokerInvariant, Merging
<1>3. Main = tx.base
  BY DEF MayMove
<1>4. main' \in Seq(Commit) \ {<<>>} /\ Last(main') = tx.commit
  BY <1>1, <1>2, LineToEnds DEF Mergeable
<1>5. Main' = tx.commit
  BY <1>4 DEF Main
<1> QED BY <1>2, <1>3, <1>4, <1>5 DEF Mergeable

\* A step that makes main larger: what was in it still is.
LEMMA MainGrows ==
    ASSUME BrokerInvariant, main' \in Seq(Commit) \ {<<>>}, Main \subseteq Main',
           UNCHANGED <<branch, mirror, requests, releases, decisions, acceptances, app>>,
           IsTx(tx'),
           DOMAIN press' = Presses,
           \A p \in Presses : IsPress(press'[p])
                              /\ (press'[p].step = "accept" => press'[p].task \in Tasks),
           \/ tx' = tx
           \/ tx.kind = "accept" /\ tx'.kind = "accept" /\ tx'.task = tx.task
              /\ tx'.step = "moved" /\ tx'.commit \subseteq Main'
    PROVE  BrokerInvariant'
<1>1. Types' /\ Heads'
  BY DEF BrokerInvariant, Types, Heads
<1>2. Reviews' /\ Seals'
  BY DEF BrokerInvariant, Reviews, Seals, OnBranch
<1>3. AcceptedInMain'
  BY DEF BrokerInvariant, AcceptedInMain
<1>4. Merging'
  BY DEF BrokerInvariant, Merging, Mergeable, OnBranch, Accepted
<1>5. Recovering'
  BY DEF BrokerInvariant, Recovering
<1> QED BY <1>1, <1>2, <1>3, <1>4, <1>5 DEF BrokerInvariant

LEMMA MoveMainKept ==
    ASSUME BrokerInvariant, MoveMain
    PROVE  BrokerInvariant'
<1>1. /\ tx.kind = "accept" /\ tx.step = "intent" /\ IsTx(tx)
      /\ UNCHANGED <<branch, mirror, requests, releases, decisions, acceptances, app>>
  BY DEF MoveMain, board, BrokerInvariant, Types
<1>2. CASE MayMove
  <2>1. tx' = [tx EXCEPT !.step = "moved"] /\ UNCHANGED press
    BY <1>2 DEF MoveMain
  <2>2. IsTx(tx') /\ tx'.kind = "accept" /\ tx'.task = tx.task /\ tx'.step = "moved"
        /\ tx'.commit = tx.commit
    BY <1>1, <2>1, TxStep
  <2> QED BY <1>1, <1>2, <2>1, <2>2, MoveMainMoves, MainGrows, PressSame
<1>3. CASE ~MayMove
  <2>1. tx' = NoTx /\ Step(tx.press, "fail") /\ UNCHANGED main
    BY <1>3 DEF MoveMain
  <2>2. tx'.kind = "none" /\ IsTx(tx')
    BY <2>1, NoTxFacts
  <2>3. Merging' /\ Recovering'
    BY <1>1, <2>2 DEF BrokerInvariant, Merging, Recovering
  <2> QED BY <1>1, <2>1, <2>2, <2>3, TxKept, PressStep
<1> QED BY <1>2, <1>3

LEMMA MaterializeKept ==
    ASSUME BrokerInvariant, Materialize
    PROVE  BrokerInvariant'
<1>1. /\ tx.kind = "accept" /\ tx.step = "moved" /\ IsTx(tx)
      /\ UNCHANGED <<main, branch, mirror, requests, releases, decisions, acceptances, app>>
  BY DEF Materialize, board, BrokerInvariant, Types
<1>2. CASE tx' = NoTx
  <2>1. Step(tx.press, "fail") \/ UNCHANGED press
    BY <1>2 DEF Materialize
  <2>2. tx'.kind = "none" /\ IsTx(tx')
    BY <1>2, NoTxFacts
  <2>3. Merging' /\ Recovering'
    BY <1>1, <2>2 DEF BrokerInvariant, Merging, Recovering
  <2> QED BY <1>1, <2>1, <2>2, <2>3, TxKept, PressStep, PressSame
<1>3. CASE tx' # NoTx
  <2>1. tx' = [tx EXCEPT !.step = "recorded"] /\ UNCHANGED press
    BY <1>3 DEF Materialize
  <2>2. IsTx(tx') /\ tx'.kind = "accept" /\ tx'.task = tx.task /\ tx'.step = "recorded"
        /\ tx'.commit = tx.commit
    BY <1>1, <2>1, TxStep
  <2>3. Merging' /\ Recovering'
    BY <1>1, <2>2 DEF BrokerInvariant, Merging, Recovering, Main
  <2> QED BY <1>1, <2>1, <2>2, <2>3, TxKept, PressSame
<1> QED BY <1>2, <1>3

LEMMA MergeDoneKept ==
    ASSUME BrokerInvariant, MergeDone
    PROVE  BrokerInvariant'
<1>1. /\ tx.kind = "accept" /\ tx.step = "recorded" /\ IsTx(tx)
      /\ tx' = [tx EXCEPT !.step = "done"]
      /\ UNCHANGED <<main, branch, mirror, requests, releases, decisions, acceptances, app, press>>
  BY DEF MergeDone, board, BrokerInvariant, Types
<1>2. IsTx(tx') /\ tx'.kind = "accept" /\ tx'.task = tx.task /\ tx'.step = "done"
      /\ tx'.commit = tx.commit
  BY <1>1, TxStep
<1>3. Merging' /\ Recovering'
  BY <1>1, <1>2 DEF BrokerInvariant, Merging, Recovering, Main
<1> QED BY <1>1, <1>2, <1>3, TxKept, PressSame

\* A release keeps what it is about when its status changes.
LEMMA StatusKept ==
    ASSUME Types, Heads, NEW t, NEW status,
           releases' = releases \/ releases' = [releases EXCEPT ![t].status = status],
           UNCHANGED decisions
    PROVE  /\ DOMAIN releases' = Tasks /\ \A u \in Tasks : IsRelease(releases'[u])
           /\ Heads'
<1> DEFINE r == [releases[t] EXCEPT !.status = status]
<1>1. t \in Tasks => IsRelease(r) /\ r.head = releases[t].head
  BY DEF Types, IsRelease
<1>2. releases' = releases \/ releases' = [releases EXCEPT ![t] = r]
  OBVIOUS
<1> HIDE DEF r
<1> QED BY <1>1, <1>2 DEF Types, Heads

LEMMA MergeCommitKept ==
    ASSUME BrokerInvariant, MergeCommit
    PROVE  BrokerInvariant'
<1>1. /\ tx.kind = "accept" /\ tx.step = "done" /\ tx.task \in Tasks /\ tx.commit \subseteq Main
      /\ Types /\ Heads
  BY DEF MergeCommit, BrokerInvariant, Merging
<1>2. /\ acceptances' = [acceptances EXCEPT ![tx.task] = tx.commit]
      /\ releases' = [releases EXCEPT ![tx.task].status = "ACCEPTED"]
      /\ tx' = NoTx
      /\ UNCHANGED <<main, branch, mirror, requests, decisions, app>>
  BY DEF MergeCommit, git
<1>3. tx'.kind = "none" /\ IsTx(tx')
  BY <1>2, NoTxFacts
<1>4. /\ DOMAIN releases' = Tasks /\ \A u \in Tasks : IsRelease(releases'[u])
      /\ Heads'
  BY <1>1, <1>2, StatusKept
<1>5. /\ DOMAIN press' = Presses
      /\ \A q \in Presses : IsPress(press'[q])
                            /\ (press'[q].step = "accept" => press'[q].task \in Tasks)
  <2> DEFINE told == IF tx.commit # tx.base THEN Stale(tx.task) ELSE {}
             r == [press[tx.press] EXCEPT !.step = "finish", !.stale = told]
  <2>1. told \in SUBSET Tasks
    BY DEF Stale
  <2>2. DOMAIN press = Presses
    BY <1>1 DEF Types
  <2>3. press' = [press EXCEPT ![tx.press] = r]
    BY <2>2 DEF MergeCommit
  <2> HIDE DEF told
  <2>4. tx.press \in Presses => IsPress(r) /\ r.step = "finish"
    BY <1>1, <2>1 DEF Types, IsPress
  <2> HIDE DEF r
  <2> QED BY <1>1, <2>2, <2>3, <2>4 DEF Types
<1>6. Types'
  BY <1>1, <1>2, <1>3, <1>4, <1>5 DEF Types
<1>7. Reviews' /\ Seals' /\ Merging' /\ Recovering'
  BY <1>1, <1>2, <1>3 DEF BrokerInvariant, Reviews, OnBranch, Seals, Merging, Recovering
<1>8. AcceptedInMain'
  BY <1>1, <1>2 DEF BrokerInvariant, AcceptedInMain, Types, Main
<1> QED BY <1>4, <1>6, <1>7, <1>8 DEF BrokerInvariant

LEMMA StartKept ==
    ASSUME BrokerInvariant, Start
    PROVE  BrokerInvariant'
<1>1. /\ tx' = [NoTx EXCEPT !.kind = "recover", !.entry = 1, !.step = "entries",
                            !.draft = acceptances]
      /\ app' = "recovering"
      /\ UNCHANGED <<main, branch, mirror, requests, releases, decisions, acceptances, press>>
  BY DEF Start, git, board
<1>2. IsTx(tx') /\ tx'.kind = "recover" /\ tx'.draft = acceptances
  BY <1>1 DEF NoTx, IsTx, Commit
<1>3. Types' /\ Heads'
  BY <1>1, <1>2 DEF BrokerInvariant, Types, Heads
<1>4. Reviews' /\ Seals' /\ Merging'
  BY <1>1, <1>2 DEF BrokerInvariant, Reviews, OnBranch, Seals, Merging
<1>5. Recovering' /\ AcceptedInMain'
  BY <1>1, <1>2 DEF BrokerInvariant, Types, Recovering, AcceptedInMain, Main
<1> QED BY <1>3, <1>4, <1>5 DEF BrokerInvariant

LEMMA DieKept ==
    ASSUME BrokerInvariant, Die
    PROVE  BrokerInvariant'
<1>1. /\ tx' = NoTx /\ app' = "down" /\ press' = [p \in Presses |-> IdlePress]
      /\ UNCHANGED <<main, branch, mirror, requests, releases, decisions, acceptances>>
  BY DEF Die, git, board
<1>2. IsTx(tx') /\ tx'.kind = "none"
  BY <1>1, NoTxFacts
<1>3. Types' /\ Heads'
  BY <1>1, <1>2, IdleIsPress DEF BrokerInvariant, Types, Heads
<1>4. Reviews' /\ Seals' /\ Merging' /\ Recovering' /\ AcceptedInMain'
  BY <1>1, <1>2 DEF BrokerInvariant, Reviews, OnBranch, Seals, Merging, Recovering,
                    AcceptedInMain, Main
<1> QED BY <1>3, <1>4 DEF BrokerInvariant

\* Recovery only writes into its draft what main is.
LEMMA RecoverEntryKept ==
    ASSUME BrokerInvariant, RecoverEntry
    PROVE  BrokerInvariant'
<1>1. /\ tx.kind = "recover" /\ IsTx(tx) /\ app = "recovering" /\ DOMAIN tx.draft = Tasks
      /\ UNCHANGED <<main, branch, mirror, requests, releases, decisions, acceptances, app, press>>
  BY DEF RecoverEntry, board, BrokerInvariant, Types, Recovering
<1>2. /\ IsTx(tx') /\ tx'.kind = "recover" /\ DOMAIN tx'.draft = Tasks
      /\ \A t \in Tasks : tx'.draft[t] = tx.draft[t] \/ tx'.draft[t] = Main
  <2>1. \/ tx' = tx
        \/ tx' = [tx EXCEPT !.entry = @ + 1]
        \/ tx' = [tx EXCEPT !.draft[Recorded] = Main]
    BY DEF RecoverEntry, RecoverSeal, RecoverMerge, Unresolved
  <2>2. CASE tx' = tx
    BY <1>1, <2>2
  <2>3. CASE tx' = [tx EXCEPT !.entry = @ + 1]
    BY <1>1, <2>3 DEF IsTx
  <2>4. CASE tx' = [tx EXCEPT !.draft[Recorded] = Main]
    <3> DEFINE draft == [tx.draft EXCEPT ![Recorded] = Main]
    <3>1. tx' = [tx EXCEPT !.draft = draft]
      BY <2>4
    <3>2. DOMAIN draft = Tasks /\ \A t \in Tasks : draft[t] = tx.draft[t] \/ draft[t] = Main
      BY <1>1
    <3> HIDE DEF draft
    <3> QED BY <1>1, <3>1, <3>2 DEF IsTx
  <2> QED BY <2>1, <2>2, <2>3, <2>4
<1>3. Merging' /\ Recovering'
  BY <1>1, <1>2 DEF BrokerInvariant, Merging, Recovering, Main
<1> QED BY <1>1, <1>2, <1>3, TxKept, PressSame

LEMMA RecoverCommitKept ==
    ASSUME BrokerInvariant, RecoverCommit
    PROVE  BrokerInvariant'
<1>1. /\ tx.kind = "recover" /\ DOMAIN tx.draft = Tasks /\ Types /\ Heads
      /\ \A t \in Tasks : tx.draft[t] # None => tx.draft[t] \subseteq Main
  BY DEF RecoverCommit, BrokerInvariant, Recovering
<1>2. /\ acceptances' = tx.draft /\ tx' = NoTx /\ app' = "up"
      /\ releases' = releases \/ releases' = [releases EXCEPT ![Recorded].status = "ACCEPTED"]
      /\ UNCHANGED <<main, branch, mirror, requests, decisions, press>>
  BY DEF RecoverCommit, git
<1>3. IsTx(tx') /\ tx'.kind = "none"
  BY <1>2, NoTxFacts
<1>4. /\ DOMAIN releases' = Tasks /\ \A u \in Tasks : IsRelease(releases'[u])
      /\ Heads'
  BY <1>1, <1>2, StatusKept
<1>5. Types'
  BY <1>1, <1>2, <1>3, <1>4 DEF Types
<1>6. Reviews' /\ Seals' /\ Merging' /\ Recovering'
  BY <1>1, <1>2, <1>3 DEF BrokerInvariant, Reviews, OnBranch, Seals, Merging, Recovering
<1>7. AcceptedInMain'
  BY <1>1, <1>2 DEF AcceptedInMain, Main
<1> QED BY <1>4, <1>5, <1>6, <1>7 DEF BrokerInvariant

\* The owner's commit is made on main.
LEMMA OwnerCommitsOn ==
    ASSUME BrokerInvariant, OwnerCommits
    PROVE  /\ main' \in Seq(Commit) \ {<<>>} /\ Main \subseteq Main'
           /\ Main' \ Main \subseteq {"owner"} \X Nat
<1> DEFINE made == {k \in 1..MaxOwner : <<"owner", k>> \in Main}
           n == Cardinality(made) + 1
           c == Main \cup {<<"owner", n>>}
<1>1. n \in Nat \ {0}
  <2>1. IsFiniteSet(1..MaxOwner) /\ made \subseteq 1..MaxOwner
    BY FS_Interval, ReleaseAssumption
  <2>2. Cardinality(made) \in Nat
    BY <2>1, FS_Subset, FS_CardinalityType
  <2> QED BY <2>2
<1>2. n <= MaxOwner /\ main' = Append(main, c)
  BY DEF OwnerCommits
<1>3. c \in Commit
  BY <1>1, <1>2, MainType, ReleaseAssumption DEF Commit, Change
<1>4. c \ Main \subseteq {"owner"} \X Nat /\ Main \subseteq c
  <2>1. c \ Main \subseteq {<<"owner", n>>}
    OBVIOUS
  <2>2. <<"owner", n>> \in {"owner"} \X Nat
    BY <1>1
  <2> QED BY <2>1, <2>2
<1> HIDE DEF c
<1>5. main' \in Seq(Commit) \ {<<>>} /\ Last(main') = c
  BY <1>2, <1>3, Lasts DEF BrokerInvariant, Types
<1>6. Main' = c
  BY <1>5 DEF Main
<1> QED BY <1>4, <1>5, <1>6

LEMMA OwnerCommitsKept ==
    ASSUME BrokerInvariant, OwnerCommits
    PROVE  BrokerInvariant'
<1>1. UNCHANGED <<branch, mirror, requests, releases, decisions, acceptances, app, tx, press>>
  BY DEF OwnerCommits, board
<1>2. IsTx(tx')
  BY <1>1 DEF BrokerInvariant, Types
<1> QED BY <1>1, <1>2, OwnerCommitsOn, MainGrows, PressSame

LEMMA InitHolds == ASSUME Init PROVE BrokerInvariant
<1>1. /\ main = <<{}>> /\ tx = NoTx /\ app = "up"
      /\ branch = [t \in Tasks |-> <<{}, {<<t, 1>>}>>]
      /\ mirror = [t \in Tasks |-> <<>>] /\ requests = [t \in Tasks |-> <<>>]
      /\ releases = [t \in Tasks |-> NoRelease] /\ decisions = [t \in Tasks |-> None]
      /\ acceptances = [t \in Tasks |-> None] /\ press = [p \in Presses |-> IdlePress]
  BY DEF Init
<1>2. {} \in Commit /\ \A t \in Tasks : {<<t, 1>>} \in Commit
  <2>1. 1 \in 1..MaxVersions
    BY ReleaseAssumption
  <2> QED BY <2>1 DEF Commit, Change
<1>3. Types
  <2>1. \A t \in Tasks : <<{}, {<<t, 1>>}>> \in Seq(Commit) \ {<<>>}
    BY <1>2
  <2>2. main \in Seq(Commit) \ {<<>>}
    BY <1>1, <1>2
  <2>3. branch \in [Tasks -> Seq(Commit) \ {<<>>}]
    BY <1>1, <2>1
  <2>4. mirror \in [Tasks -> Seq(Commit)] /\ requests \in [Tasks -> Seq(Request)]
    BY <1>1
  <2>5. DOMAIN releases = Tasks /\ \A t \in Tasks : IsRelease(releases[t])
    BY <1>1 DEF NoRelease, IsRelease
  <2>6. /\ DOMAIN decisions = Tasks /\ DOMAIN acceptances = Tasks /\ DOMAIN press = Presses
        /\ \A t \in Tasks : decisions[t] = None
    BY <1>1
  <2>7. \A p \in Presses : IsPress(press[p]) /\ press[p].step = "idle"
    BY <1>1, IdleIsPress
  <2> QED BY <1>1, <2>2, <2>3, <2>4, <2>5, <2>6, <2>7, NoTxFacts DEF Types
<1>4. tx.kind = "none" /\ app = "up"
  BY <1>1, NoTxFacts
<1>5. Reviews /\ Seals
  BY <1>1, <1>4 DEF Reviews, Seals
<1>6. Heads /\ Merging /\ Recovering /\ AcceptedInMain
  BY <1>1, <1>4 DEF Heads, Merging, Recovering, AcceptedInMain
<1> QED BY <1>3, <1>5, <1>6 DEF BrokerInvariant

LEMMA StepKept ==
    ASSUME BrokerInvariant, [Next]_vars
    PROVE  BrokerInvariant'
<1>1. CASE Coordinator
  BY <1>1, OthersKept DEF Coordinator, CoordBegin, CoordCheck, CoordRoute, git, board
<1>2. CASE RecordRelease \/ Uploading
  BY <1>2, RecordReleaseKept, UploadingKept
<1>3. CASE Transaction
  BY <1>3, SealStepKept, SealDoneKept, SealCommitKept, MoveMainKept, MaterializeKept,
     MergeDoneKept, MergeCommitKept, RecoverEntryKept, RecoverCommitKept DEF Transaction
<1>4. CASE Answering
  BY <1>4, BeginMergeKept, FinishPressKept, FailMergeKept, VoidAcceptKept DEF Answering
<1>5. CASE Surroundings
  <2>1. CASE OwnerCommits \/ Die \/ Start
    BY <2>1, OwnerCommitsKept, DieKept, StartKept
  <2>2. CASE OwnerEdits \/ OwnerUndoes
    BY <2>2, OthersKept DEF OwnerEdits, OwnerUndoes, board
  <2>3. CASE (\E c \in landing : Land(c)) \/ (\E o \in Others : OtherPush(o))
    BY <2>3, OthersKept DEF Land, OtherPush, git, board
  <2> QED BY <1>5, <2>1, <2>2, <2>3 DEF Surroundings
<1>6. ASSUME NEW t \in Tasks,
             \/ Work(t) \/ Reintegrate(t) \/ RequestReview(t) \/ Verdict(t)
             \/ CheckRelease(t) \/ Reject(t) \/ Reconcile(t) \/ UploadRetry(t)
             \/ \E p \in Presses : Accept(p, t)
      PROVE  BrokerInvariant'
  <2>1. CASE CheckRelease(t)
    BY <2>1, OthersKept DEF CheckRelease, git, board
  <2>2. CASE ~CheckRelease(t)
    BY <1>6, <2>2, WorkKept, ReintegrateKept, RequestReviewKept, VerdictKept, RejectKept,
       ReconcileKept, UploadingKept, AcceptKept
  <2> QED BY <2>1, <2>2
<1>7. CASE UNCHANGED vars
  BY <1>7, OthersKept DEF vars, git, board
<1> QED BY <1>1, <1>2, <1>3, <1>4, <1>5, <1>6, <1>7 DEF Next

LEMMA BrokerInvariantHolds == Spec => []BrokerInvariant
<1>1. Init => BrokerInvariant
  BY InitHolds
<1>2. BrokerInvariant /\ [Next]_vars => BrokerInvariant'
  BY StepKept
<1> QED BY <1>1, <1>2, PTL DEF Spec

\* Of all steps only two move main, and only those of the owner and of the
\* broker before recovery touch the worktree's edits.
LEMMA OnlyTwoMoveMain ==
    ASSUME BrokerInvariant, Next, main' # main
    PROVE  (MoveMain /\ MayMove) \/ OwnerCommits
<1>1. ~Coordinator /\ ~RecordRelease /\ ~Uploading /\ ~Answering
  BY DEF Coordinator, CoordBegin, CoordCheck, CoordRoute, RecordRelease, Uploading, UploadTake,
         UploadNext, UploadMark, UploadPush, UploadSave, UploadEnd, Answering, BeginMerge,
         FinishPress, FailMerge, VoidAccept, git
<1>2. Transaction => MoveMain /\ MayMove
  BY DEF Transaction, SealStep, SealDone, SealCommit, MoveMain, Materialize, MergeDone,
         MergeCommit, RecoverEntry, RecoverCommit, git
<1>3. Surroundings => OwnerCommits
  BY DEF Surroundings, OwnerEdits, OwnerUndoes, Die, Start, Land, OtherPush, git
<1>4. \A t \in Tasks : /\ ~Work(t) /\ ~Reintegrate(t) /\ ~RequestReview(t) /\ ~Verdict(t)
                       /\ ~CheckRelease(t) /\ ~Reject(t) /\ ~Reconcile(t) /\ ~UploadRetry(t)
                       /\ \A p \in Presses : ~Accept(p, t)
  BY DEF Work, Reintegrate, RequestReview, Verdict, CheckRelease, Reject, Reconcile, UploadRetry,
         Accept, git
<1> QED BY <1>1, <1>2, <1>3, <1>4 DEF Next

LEMMA EditsKept ==
    ASSUME BrokerInvariant, Next
    PROVE  EditsSurvive
<1> SUFFICES ASSUME app = "recovering", edited, tx' # tx PROVE edited'
  BY DEF EditsSurvive
<1>1. tx.kind = "recover" /\ ~Free
  BY NoTxFacts DEF BrokerInvariant, Recovering, Free
<1>2. ~RecordRelease /\ ~Answering
  BY <1>1 DEF RecordRelease, Answering, BeginMerge, FinishPress, FailMerge, VoidAccept
<1>3. ~Coordinator /\ ~Uploading
  BY DEF Coordinator, CoordBegin, CoordCheck, CoordRoute, Uploading, UploadTake, UploadNext,
         UploadMark, UploadPush, UploadSave, UploadEnd
<1>4. CASE Transaction
  <2>1. RecoverEntry \/ RecoverCommit
    BY <1>1, <1>4 DEF Transaction, SealStep, SealDone, SealCommit, MoveMain, Materialize,
                      MergeDone, MergeCommit
  <2>2. RecoverEntry => edited' = edited
    BY DEF RecoverEntry, RecoverSeal, RecoverMerge
  <2>3. RecoverCommit => edited' = edited
    BY DEF RecoverCommit, git
  <2> QED BY <2>1, <2>2, <2>3
<1>5. CASE Surroundings
  BY <1>5 DEF Surroundings, OwnerCommits, OwnerEdits, OwnerUndoes, Die, Start, Land, OtherPush, git
<1>6. \A t \in Tasks : /\ ~Work(t) /\ ~Reintegrate(t) /\ ~RequestReview(t) /\ ~Verdict(t)
                       /\ ~CheckRelease(t) /\ ~Reject(t) /\ ~Reconcile(t) /\ ~UploadRetry(t)
                       /\ \A p \in Presses : ~Accept(p, t)
  BY <1>1 DEF Work, Reintegrate, RequestReview, Verdict, CheckRelease, Reject, Reconcile,
              UploadRetry, Accept
<1> QED BY <1>2, <1>3, <1>4, <1>5, <1>6 DEF Next

(***************************************************************************)
(* Theorems.                                                               *)
(***************************************************************************)

\* A merge the board records is in main, whatever died between the move of main,
\* the journal and the board (git_broker.py accept_merge and recover).
THEOREM RecordedIsMerged == Spec => []AcceptedInMain
<1>1. BrokerInvariant => AcceptedInMain
  BY DEF BrokerInvariant
<1> QED BY <1>1, BrokerInvariantHolds, PTL

\* Each review on the board can be read back from the mirror under its number
\* (git_broker.py create_review_ref).
THEOREM ReviewsCanBeRead == Spec => []SealedCopies
<1>1. BrokerInvariant => SealedCopies
  <2> SUFFICES ASSUME BrokerInvariant, NEW t \in Tasks, NEW i \in DOMAIN requests[t]
               PROVE  Sealed(t, i) = requests[t][i].commit
    BY DEF SealedCopies
  <2>1. requests[t] \in Seq(Request) /\ mirror[t] \in Seq(Commit)
    BY DEF BrokerInvariant, Types
  <2>2. i \in 1..Len(requests[t])
    BY <2>1
  <2> QED BY <2>1, <2>2 DEF BrokerInvariant, Seals, Sealed
<1> QED BY <1>1, BrokerInvariantHolds, PTL

\* main only grows, by the owner's commits and by heads that passed their final
\* review and that the owner accepted; and recovery never resets the owner's
\* worktree over edits (git_broker.py accept_merge, recover, _uncommitted_edits).
THEOREM NothingIsLost == Spec => NothingLost
<1>1. BrokerInvariant /\ [Next]_vars => [MainForward /\ EditsSurvive]_vars
  <2> SUFFICES ASSUME BrokerInvariant, Next PROVE MainForward /\ EditsSurvive
    OBVIOUS
  <2>1. MainForward
    <3>1. CASE main' = main
      BY <3>1 DEF MainForward
    <3>2. CASE MoveMain /\ MayMove
      BY <3>2, MoveMainMoves DEF MainForward, Mergeable
    <3>3. CASE OwnerCommits
      BY <3>3, OwnerCommitsOn DEF MainForward
    <3> QED BY <3>1, <3>2, <3>3, OnlyTwoMoveMain
  <2> QED BY <2>1, EditsKept
<1> QED BY <1>1, BrokerInvariantHolds, PTL DEF NothingLost, Spec

(***************************************************************************)
(* Uploads.  What is reported as uploaded is at the destination, because   *)
(* whatever the queue looks for holds what a review of the task passed.    *)
(* Recovery records a merge under the first task of the project (see the   *)
(* README), hence the hypothesis: nothing dies, or there is one task.      *)
(***************************************************************************)
Unmixed == "die" \notin Kinds \/ Tasks = {Recorded}

Passed(t) ==
    {requests[t][i].commit : i \in {j \in DOMAIN requests[t] : requests[t][j].status = "passed"}}
\* The commit holds what one of the task's reviews passed.
Backed(t, c) == \E b \in Passed(t) : b \subseteq c

\* What the board says of a release, and the broker is about to make it say,
\* passed a review of that task.
Backing ==
    /\ \A t \in Tasks : /\ releases[t].head # None => releases[t].head \in Passed(t)
                        /\ releases[t].status # "none" => releases[t].head # None
                        /\ decisions[t] # None => releases[t].head # None
                        /\ acceptances[t] # None => acceptances[t] \in Passed(t)
    /\ \A i \in DOMAIN journal :
           journal[i].op = "accept" => journal[i].target \in Passed(journal[i].task)
    /\ tx.kind = "accept" => tx.commit \in Passed(tx.task) /\ releases[tx.task].head # None
    /\ tx.kind = "recover" => \A t \in Tasks : tx.draft[t] # None => tx.draft[t] \in Passed(t)

\* So did what the queue has found, and with it what it reports.
Uploads ==
    /\ uploader.phase \in {"found", "push", "save"} =>
           /\ uploader.task \in Tasks /\ uploader.commit \in Commit
           /\ Backed(uploader.task, uploader.commit)
    /\ uploader.phase = "save" /\ uploader.outcome = "uploaded" => uploader.commit \subseteq remote
    /\ \A t \in Tasks : decisions[t] # None /\ decisions[t].upload = "uploaded" => Backed(t, remote)

\* The types of what the broker's invariant leaves open.
Outcomes == {"none", "pending", "running", "uploaded", "failed", "diverged"}
Uploader == [on : BOOLEAN, again : BOOLEAN, all : BOOLEAN, queue : Seq(Tasks),
             task : Tasks \cup {None}, commit : MaybeCommit,
             phase : {"take", "next", "found", "push", "save"}, outcome : Outcomes]
IsPass(c) == /\ c \in [task : Tasks \cup {None}, commit : {c.commit}, base : {c.base}, step : {c.step}]
             /\ c.step # "idle" => c.task \in Tasks

Written == /\ journal \in Seq(Entry) /\ tx.base \in Commit /\ tx.entry \in Nat
           /\ tx.kind = "recover" => tx.entry # 0
Answered ==
    /\ \A t \in Tasks : /\ releases[t].head \in MaybeCommit /\ releases[t].base \in MaybeCommit
                        /\ decisions[t] \in Decision \cup {None}
    /\ voided \in [Tasks -> SUBSET Commit]
    /\ \E n \in Nat : \A t \in Tasks : decisions[t] # None => decisions[t].at <= n
Queued == uploader \in Uploader /\ remote \in Commit /\ landing \subseteq Commit
Running ==
    /\ {behind, edited} \subseteq BOOLEAN /\ troubles \in 0..MaxTroubles
    /\ owed \subseteq Tasks /\ IsPass(coord) /\ IsPass(check) /\ check.base \in Commit
    /\ app \in {"up", "down", "recovering"} /\ (app # "up" => Tasks = {Recorded})
Pressed ==
    /\ \A p \in Presses : press[p].step # "idle" => press[p].task \in Tasks
    /\ tx.kind = "accept" => tx.press \in Presses /\ press[tx.press].task \in Tasks

UploadInvariant == Written /\ Answered /\ Queued /\ Running /\ Pressed /\ Backing /\ Uploads

\* A set of naturals that is not empty has a least element, and a greatest one
\* if it is bounded.
LEMMA LeastNatural ==
    ASSUME NEW T \in SUBSET Nat, T # {}
    PROVE  \E m \in T : \A n \in T : m <= n
<1> DEFINE R == OpToRel(<, Nat)
<1>1. PICK m \in T : \A n \in T : <<n, m>> \notin R
  BY NatLessThanWellFounded, WFMin
<1>2. \A n \in T : ~(n < m)
  BY <1>1 DEF OpToRel
<1> QED BY <1>2

LEMMA GreatestNatural ==
    ASSUME NEW T \in SUBSET Nat, T # {}, NEW b \in Nat, \A n \in T : n <= b
    PROVE  Max(T) \in T /\ \A n \in T : n <= Max(T)
<1> DEFINE Rest == {c \in Nat : \A n \in T : n <= c}
<1>1. Rest \in SUBSET Nat /\ Rest # {}
  OBVIOUS
<1>2. PICK m \in Rest : \A c \in Rest : m <= c
  <2> HIDE DEF Rest
  <2> QED BY <1>1, LeastNatural
<1>3. m \in T
  <2>1. SUFFICES ASSUME m \notin T PROVE FALSE
    OBVIOUS
  <2>2. m \in Nat /\ \A n \in T : n \in Nat /\ n <= m /\ n # m
    BY <1>2, <2>1
  <2>3. m # 0
    <3>1. PICK n \in T : TRUE
      OBVIOUS
    <3> QED BY <2>2, <3>1
  <2>4. m - 1 \in Rest
    BY <2>2, <2>3
  <2> QED BY <1>2, <2>2, <2>4
<1>4. \E x \in T : \A y \in T : x >= y
  BY <1>2, <1>3
<1> QED BY <1>4 DEF Max

LEMMA OldestHolder ==
    ASSUME NEW line \in Seq(Commit), NEW c, NEW n \in DOMAIN line, c \subseteq line[n]
    PROVE  LET oldest == Min({k \in DOMAIN line : c \subseteq line[k]})
           IN  oldest \in DOMAIN line /\ c \subseteq line[oldest]
<1> DEFINE T == {k \in DOMAIN line : c \subseteq line[k]}
<1>1. T \in SUBSET Nat /\ T # {}
  OBVIOUS
<1>2. \E m \in T : \A k \in T : m <= k
  <2> HIDE DEF T
  <2> QED BY <1>1, LeastNatural
<1>3. Min(T) \in T
  <2> HIDE DEF T
  <2> QED BY <1>2 DEF Min
<1> QED BY <1>3

LEMMA TasksFinite == IsFiniteSet(Tasks)
<1>1. TaskOrder \in Seq(Range(TaskOrder))
  BY ReleaseAssumption
<1>2. DOMAIN TaskOrder = 1..Len(TaskOrder) /\ Len(TaskOrder) \in Nat
  BY <1>1
<1>3. IsFiniteSet(1..Len(TaskOrder))
  BY <1>2, FS_Interval
<1>4. TaskOrder \in Surjection(1..Len(TaskOrder), Tasks)
  <2>1. TaskOrder \in [1..Len(TaskOrder) -> Tasks]
    BY <1>1, <1>2 DEF Tasks
  <2> QED BY <1>2, <2>1 DEF Surjection, Tasks, Range
<1> QED BY <1>3, <1>4, FS_Surjection

LEMMA RecordedIsTask == Recorded \in Tasks
<1>1. TaskOrder \in Seq(Range(TaskOrder)) /\ TaskOrder # <<>>
  BY ReleaseAssumption
<1> QED BY <1>1 DEF Recorded, Tasks

\* The queue is a sequence of tasks.
LEMMA OrderType ==
    ASSUME NEW due \in SUBSET Tasks, NEW order \in UploadOrder(due)
    PROVE  order \in Seq(Tasks)
<1>1. IsFiniteSet(due)
  BY TasksFinite, FS_Subset
<1>2. Cardinality(due) \in Nat
  BY <1>1, FS_CardinalityType
<1>3. order \in [1..Cardinality(due) -> due]
  BY DEF UploadOrder, SetToSeqs
<1> QED BY <1>2, <1>3

(***************************************************************************)
(* Which steps write what.                                                 *)
(***************************************************************************)
LEMMA RequestsWritten ==
    ASSUME Next, requests' # requests
    PROVE  \/ SealCommit
           \/ \E t \in Tasks : Verdict(t)
<1>1. CASE Coordinator \/ RecordRelease
  BY <1>1 DEF Coordinator, CoordBegin, CoordCheck, CoordRoute, RecordRelease, git, board,
            preparing, upload
<1>2. CASE Transaction
  BY <1>2 DEF Transaction, SealStep, SealDone, MoveMain, Materialize, MergeDone, MergeCommit,
            RecoverEntry, RecoverCommit, git, board, preparing, upload
<1>3. CASE Answering
  BY <1>3 DEF Answering, BeginMerge, FinishPress, FailMerge, VoidAccept, git, board, preparing,
            upload
<1>4. CASE Uploading
  BY <1>4 DEF Uploading, UploadTake, UploadNext, UploadMark, UploadPush, UploadSave, UploadEnd,
            git, board, preparing, upload
<1>5. CASE Surroundings
  BY <1>5 DEF Surroundings, OwnerCommits, OwnerEdits, OwnerUndoes, Die, Start, Land, OtherPush,
            git, board, preparing, upload
<1>6. ASSUME NEW u \in Tasks,
             \/ Work(u) \/ Reintegrate(u) \/ RequestReview(u) \/ Verdict(u)
             \/ CheckRelease(u) \/ Reject(u) \/ Reconcile(u) \/ UploadRetry(u)
             \/ \E p \in Presses : Accept(p, u)
      PROVE  \/ SealCommit
             \/ \E t \in Tasks : Verdict(t)
  <2>1. /\ ~Work(u) /\ ~Reintegrate(u) /\ ~RequestReview(u) /\ ~CheckRelease(u)
        /\ ~Reject(u) /\ ~Reconcile(u) /\ ~UploadRetry(u)
        /\ \A p \in Presses : ~Accept(p, u)
    BY DEF Work, Reintegrate, RequestReview, CheckRelease, Reject, Reconcile, UploadRetry,
           Accept, git, board, preparing, upload
  <2> QED BY <1>6, <2>1
<1> QED BY <1>1, <1>2, <1>3, <1>4, <1>5, <1>6 DEF Next

LEMMA JournalWritten ==
    ASSUME Next, journal' # journal
    PROVE  \/ SealDone \/ MergeDone \/ RecoverEntry
           \/ \E t \in Tasks : RequestReview(t)
           \/ \E p \in Presses : BeginMerge(p)
<1>1. CASE Coordinator \/ RecordRelease
  BY <1>1 DEF Coordinator, CoordBegin, CoordCheck, CoordRoute, RecordRelease, git, board,
            preparing, upload
<1>2. CASE Transaction
  BY <1>2 DEF Transaction, SealStep, SealCommit, MoveMain, Materialize, MergeCommit,
            RecoverCommit, git, board, preparing, upload
<1>3. CASE Answering
  BY <1>3 DEF Answering, FinishPress, FailMerge, VoidAccept, git, board, preparing, upload
<1>4. CASE Uploading
  BY <1>4 DEF Uploading, UploadTake, UploadNext, UploadMark, UploadPush, UploadSave, UploadEnd,
            git, board, preparing, upload
<1>5. CASE Surroundings
  BY <1>5 DEF Surroundings, OwnerCommits, OwnerEdits, OwnerUndoes, Die, Start, Land, OtherPush,
            git, board, preparing, upload
<1>6. ASSUME NEW u \in Tasks,
             \/ Work(u) \/ Reintegrate(u) \/ RequestReview(u) \/ Verdict(u)
             \/ CheckRelease(u) \/ Reject(u) \/ Reconcile(u) \/ UploadRetry(u)
             \/ \E p \in Presses : Accept(p, u)
      PROVE  \/ SealDone \/ MergeDone \/ RecoverEntry
             \/ \E t \in Tasks : RequestReview(t)
             \/ \E p \in Presses : BeginMerge(p)
  <2>1. /\ ~Work(u) /\ ~Reintegrate(u) /\ ~Verdict(u) /\ ~CheckRelease(u) /\ ~Reject(u)
        /\ ~Reconcile(u) /\ ~UploadRetry(u)
        /\ \A p \in Presses : ~Accept(p, u)
    BY DEF Work, Reintegrate, Verdict, CheckRelease, Reject, Reconcile, UploadRetry, Accept,
           git, board, preparing, upload
  <2> QED BY <1>6, <2>1
<1> QED BY <1>1, <1>2, <1>3, <1>4, <1>5, <1>6 DEF Next

LEMMA TxWritten ==
    ASSUME Next, tx' # tx
    PROVE  \/ SealStep \/ SealDone \/ SealCommit \/ MoveMain \/ Materialize \/ MergeDone
           \/ MergeCommit \/ Die \/ Start \/ RecoverEntry \/ RecoverCommit
           \/ \E t \in Tasks : RequestReview(t)
           \/ \E p \in Presses : BeginMerge(p)
<1>1. CASE Coordinator \/ RecordRelease
  BY <1>1 DEF Coordinator, CoordBegin, CoordCheck, CoordRoute, RecordRelease, git, board,
            preparing, upload
<1>2. CASE Transaction
  BY <1>2 DEF Transaction, git, board, preparing, upload
<1>3. CASE Answering
  BY <1>3 DEF Answering, FinishPress, FailMerge, VoidAccept, git, board, preparing, upload
<1>4. CASE Uploading
  BY <1>4 DEF Uploading, UploadTake, UploadNext, UploadMark, UploadPush, UploadSave, UploadEnd,
            git, board, preparing, upload
<1>5. CASE Surroundings
  BY <1>5 DEF Surroundings, OwnerCommits, OwnerEdits, OwnerUndoes, Land, OtherPush, git, board,
            preparing, upload
<1>6. ASSUME NEW u \in Tasks,
             \/ Work(u) \/ Reintegrate(u) \/ RequestReview(u) \/ Verdict(u)
             \/ CheckRelease(u) \/ Reject(u) \/ Reconcile(u) \/ UploadRetry(u)
             \/ \E p \in Presses : Accept(p, u)
      PROVE  \/ SealStep \/ SealDone \/ SealCommit \/ MoveMain \/ Materialize \/ MergeDone
             \/ MergeCommit \/ Die \/ Start \/ RecoverEntry \/ RecoverCommit
             \/ \E t \in Tasks : RequestReview(t)
             \/ \E p \in Presses : BeginMerge(p)
  <2>1. /\ ~Work(u) /\ ~Reintegrate(u) /\ ~Verdict(u) /\ ~CheckRelease(u) /\ ~Reject(u)
        /\ ~Reconcile(u) /\ ~UploadRetry(u)
        /\ \A p \in Presses : ~Accept(p, u)
    BY DEF Work, Reintegrate, Verdict, CheckRelease, Reject, Reconcile, UploadRetry, Accept,
           git, board, preparing, upload
  <2> QED BY <1>6, <2>1
<1> QED BY <1>1, <1>2, <1>3, <1>4, <1>5, <1>6 DEF Next

LEMMA ReleasesWritten ==
    ASSUME Next, releases' # releases
    PROVE  \/ RecordRelease \/ MergeCommit \/ RecoverCommit
           \/ \E p \in Presses : VoidAccept(p)
           \/ \E t \in Tasks : Reconcile(t)
<1>1. CASE Coordinator \/ RecordRelease
  BY <1>1 DEF Coordinator, CoordBegin, CoordCheck, CoordRoute, git, board, preparing, upload
<1>2. CASE Transaction
  BY <1>2 DEF Transaction, SealStep, SealDone, SealCommit, MoveMain, Materialize, MergeDone,
            RecoverEntry, git, board, preparing, upload
<1>3. CASE Answering
  BY <1>3 DEF Answering, BeginMerge, FinishPress, FailMerge, git, board, preparing, upload
<1>4. CASE Uploading
  BY <1>4 DEF Uploading, UploadTake, UploadNext, UploadMark, UploadPush, UploadSave, UploadEnd,
            git, board, preparing, upload
<1>5. CASE Surroundings
  BY <1>5 DEF Surroundings, OwnerCommits, OwnerEdits, OwnerUndoes, Die, Start, Land, OtherPush,
            git, board, preparing, upload
<1>6. ASSUME NEW u \in Tasks,
             \/ Work(u) \/ Reintegrate(u) \/ RequestReview(u) \/ Verdict(u)
             \/ CheckRelease(u) \/ Reject(u) \/ Reconcile(u) \/ UploadRetry(u)
             \/ \E p \in Presses : Accept(p, u)
      PROVE  \/ RecordRelease \/ MergeCommit \/ RecoverCommit
             \/ \E p \in Presses : VoidAccept(p)
             \/ \E t \in Tasks : Reconcile(t)
  <2>1. /\ ~Work(u) /\ ~Reintegrate(u) /\ ~RequestReview(u) /\ ~Verdict(u)
        /\ ~CheckRelease(u) /\ ~Reject(u) /\ ~UploadRetry(u)
        /\ \A p \in Presses : ~Accept(p, u)
    BY DEF Work, Reintegrate, RequestReview, Verdict, CheckRelease, Reject, UploadRetry,
           Accept, git, board, preparing, upload
  <2> QED BY <1>6, <2>1
<1> QED BY <1>1, <1>2, <1>3, <1>4, <1>5, <1>6 DEF Next

LEMMA DecisionsWritten ==
    ASSUME Next, decisions' # decisions
    PROVE  \/ RecordRelease \/ UploadMark \/ UploadSave
           \/ \E p \in Presses, t \in Tasks : Accept(p, t)
           \/ \E t \in Tasks : Reject(t)
           \/ \E p \in Presses : FinishPress(p)
           \/ \E p \in Presses : FailMerge(p)
           \/ \E p \in Presses : VoidAccept(p)
           \/ \E t \in Tasks : Reconcile(t)
           \/ \E t \in Tasks : UploadRetry(t)
<1>1. CASE Coordinator \/ RecordRelease
  BY <1>1 DEF Coordinator, CoordBegin, CoordCheck, CoordRoute, git, board, preparing, upload
<1>2. CASE Transaction
  BY <1>2 DEF Transaction, SealStep, SealDone, SealCommit, MoveMain, Materialize, MergeDone,
            MergeCommit, RecoverEntry, RecoverCommit, git, board, preparing, upload
<1>3. CASE Answering
  BY <1>3 DEF Answering, BeginMerge, git, board, preparing, upload
<1>4. CASE Uploading
  BY <1>4 DEF Uploading, UploadTake, UploadNext, UploadPush, UploadEnd, git, board, preparing,
            upload
<1>5. CASE Surroundings
  BY <1>5 DEF Surroundings, OwnerCommits, OwnerEdits, OwnerUndoes, Die, Start, Land, OtherPush,
            git, board, preparing, upload
<1>6. ASSUME NEW u \in Tasks,
             \/ Work(u) \/ Reintegrate(u) \/ RequestReview(u) \/ Verdict(u)
             \/ CheckRelease(u) \/ Reject(u) \/ Reconcile(u) \/ UploadRetry(u)
             \/ \E p \in Presses : Accept(p, u)
      PROVE  \/ RecordRelease \/ UploadMark \/ UploadSave
             \/ \E p \in Presses, t \in Tasks : Accept(p, t)
             \/ \E t \in Tasks : Reject(t)
             \/ \E p \in Presses : FinishPress(p)
             \/ \E p \in Presses : FailMerge(p)
             \/ \E p \in Presses : VoidAccept(p)
             \/ \E t \in Tasks : Reconcile(t)
             \/ \E t \in Tasks : UploadRetry(t)
  <2>1. /\ ~Work(u) /\ ~Reintegrate(u) /\ ~RequestReview(u) /\ ~Verdict(u)
        /\ ~CheckRelease(u)
    BY DEF Work, Reintegrate, RequestReview, Verdict, CheckRelease, git, board, preparing,
           upload
  <2> QED BY <1>6, <2>1
<1> QED BY <1>1, <1>2, <1>3, <1>4, <1>5, <1>6 DEF Next

LEMMA VoidedWritten ==
    ASSUME Next, voided' # voided
    PROVE  \/ \E p \in Presses : VoidAccept(p)
           \/ \E t \in Tasks : Reconcile(t)
<1>1. CASE Coordinator \/ RecordRelease
  BY <1>1 DEF Coordinator, CoordBegin, CoordCheck, CoordRoute, RecordRelease, git, board,
            preparing, upload
<1>2. CASE Transaction
  BY <1>2 DEF Transaction, SealStep, SealDone, SealCommit, MoveMain, Materialize, MergeDone,
            MergeCommit, RecoverEntry, RecoverCommit, git, board, preparing, upload
<1>3. CASE Answering
  BY <1>3 DEF Answering, BeginMerge, FinishPress, FailMerge, git, board, preparing, upload
<1>4. CASE Uploading
  BY <1>4 DEF Uploading, UploadTake, UploadNext, UploadMark, UploadPush, UploadSave, UploadEnd,
            git, board, preparing, upload
<1>5. CASE Surroundings
  BY <1>5 DEF Surroundings, OwnerCommits, OwnerEdits, OwnerUndoes, Die, Start, Land, OtherPush,
            git, board, preparing, upload
<1>6. ASSUME NEW u \in Tasks,
             \/ Work(u) \/ Reintegrate(u) \/ RequestReview(u) \/ Verdict(u)
             \/ CheckRelease(u) \/ Reject(u) \/ Reconcile(u) \/ UploadRetry(u)
             \/ \E p \in Presses : Accept(p, u)
      PROVE  \/ \E p \in Presses : VoidAccept(p)
             \/ \E t \in Tasks : Reconcile(t)
  <2>1. /\ ~Work(u) /\ ~Reintegrate(u) /\ ~RequestReview(u) /\ ~Verdict(u)
        /\ ~CheckRelease(u) /\ ~Reject(u) /\ ~UploadRetry(u)
        /\ \A p \in Presses : ~Accept(p, u)
    BY DEF Work, Reintegrate, RequestReview, Verdict, CheckRelease, Reject, UploadRetry,
           Accept, git, board, preparing, upload
  <2> QED BY <1>6, <2>1
<1> QED BY <1>1, <1>2, <1>3, <1>4, <1>5, <1>6 DEF Next

LEMMA AcceptancesWritten ==
    ASSUME Next, acceptances' # acceptances
    PROVE  \/ MergeCommit \/ RecoverCommit
<1>1. CASE Coordinator \/ RecordRelease
  BY <1>1 DEF Coordinator, CoordBegin, CoordCheck, CoordRoute, RecordRelease, git, board,
            preparing, upload
<1>2. CASE Transaction
  BY <1>2 DEF Transaction, SealStep, SealDone, SealCommit, MoveMain, Materialize, MergeDone,
            RecoverEntry, git, board, preparing, upload
<1>3. CASE Answering
  BY <1>3 DEF Answering, BeginMerge, FinishPress, FailMerge, VoidAccept, git, board, preparing,
            upload
<1>4. CASE Uploading
  BY <1>4 DEF Uploading, UploadTake, UploadNext, UploadMark, UploadPush, UploadSave, UploadEnd,
            git, board, preparing, upload
<1>5. CASE Surroundings
  BY <1>5 DEF Surroundings, OwnerCommits, OwnerEdits, OwnerUndoes, Die, Start, Land, OtherPush,
            git, board, preparing, upload
<1>6. ASSUME NEW u \in Tasks,
             \/ Work(u) \/ Reintegrate(u) \/ RequestReview(u) \/ Verdict(u)
             \/ CheckRelease(u) \/ Reject(u) \/ Reconcile(u) \/ UploadRetry(u)
             \/ \E p \in Presses : Accept(p, u)
      PROVE  \/ MergeCommit \/ RecoverCommit
  BY <1>6 DEF Work, Reintegrate, RequestReview, Verdict, CheckRelease, Reject, Reconcile,
              UploadRetry, Accept, git, board, preparing, upload
<1> QED BY <1>1, <1>2, <1>3, <1>4, <1>5, <1>6 DEF Next

LEMMA UploaderWritten ==
    ASSUME Next, uploader' # uploader
    PROVE  \/ RecoverCommit \/ Die \/ UploadTake \/ UploadNext \/ UploadMark \/ UploadPush
           \/ UploadSave \/ UploadEnd
           \/ \E p \in Presses : FinishPress(p)
           \/ \E p \in Presses : FailMerge(p)
           \/ \E p \in Presses : VoidAccept(p)
           \/ \E t \in Tasks : UploadRetry(t)
<1>1. CASE Coordinator \/ RecordRelease
  BY <1>1 DEF Coordinator, CoordBegin, CoordCheck, CoordRoute, RecordRelease, git, board,
            preparing, upload
<1>2. CASE Transaction
  BY <1>2 DEF Transaction, SealStep, SealDone, SealCommit, MoveMain, Materialize, MergeDone,
            MergeCommit, RecoverEntry, git, board, preparing, upload
<1>3. CASE Answering
  BY <1>3 DEF Answering, BeginMerge, git, board, preparing, upload
<1>4. CASE Uploading
  BY <1>4 DEF Uploading, git, board, preparing, upload
<1>5. CASE Surroundings
  BY <1>5 DEF Surroundings, OwnerCommits, OwnerEdits, OwnerUndoes, Start, Land, OtherPush, git,
            board, preparing, upload
<1>6. ASSUME NEW u \in Tasks,
             \/ Work(u) \/ Reintegrate(u) \/ RequestReview(u) \/ Verdict(u)
             \/ CheckRelease(u) \/ Reject(u) \/ Reconcile(u) \/ UploadRetry(u)
             \/ \E p \in Presses : Accept(p, u)
      PROVE  \/ RecoverCommit \/ Die \/ UploadTake \/ UploadNext \/ UploadMark \/ UploadPush
             \/ UploadSave \/ UploadEnd
             \/ \E p \in Presses : FinishPress(p)
             \/ \E p \in Presses : FailMerge(p)
             \/ \E p \in Presses : VoidAccept(p)
             \/ \E t \in Tasks : UploadRetry(t)
  <2>1. /\ ~Work(u) /\ ~Reintegrate(u) /\ ~RequestReview(u) /\ ~Verdict(u)
        /\ ~CheckRelease(u) /\ ~Reject(u) /\ ~Reconcile(u)
        /\ \A p \in Presses : ~Accept(p, u)
    BY DEF Work, Reintegrate, RequestReview, Verdict, CheckRelease, Reject, Reconcile,
           Accept, git, board, preparing, upload
  <2> QED BY <1>6, <2>1
<1> QED BY <1>1, <1>2, <1>3, <1>4, <1>5, <1>6 DEF Next

LEMMA RemoteWritten ==
    ASSUME Next, remote' # remote
    PROVE  \/ UploadPush
           \/ \E c \in landing : Land(c)
           \/ \E o \in Others : OtherPush(o)
<1>1. CASE Coordinator \/ RecordRelease
  BY <1>1 DEF Coordinator, CoordBegin, CoordCheck, CoordRoute, RecordRelease, git, board,
            preparing, upload
<1>2. CASE Transaction
  BY <1>2 DEF Transaction, SealStep, SealDone, SealCommit, MoveMain, Materialize, MergeDone,
            MergeCommit, RecoverEntry, RecoverCommit, git, board, preparing, upload
<1>3. CASE Answering
  BY <1>3 DEF Answering, BeginMerge, FinishPress, FailMerge, VoidAccept, git, board, preparing,
            upload
<1>4. CASE Uploading
  BY <1>4 DEF Uploading, UploadTake, UploadNext, UploadMark, UploadSave, UploadEnd, git, board,
            preparing, upload
<1>5. CASE Surroundings
  BY <1>5 DEF Surroundings, OwnerCommits, OwnerEdits, OwnerUndoes, Die, Start, git, board,
            preparing, upload
<1>6. ASSUME NEW u \in Tasks,
             \/ Work(u) \/ Reintegrate(u) \/ RequestReview(u) \/ Verdict(u)
             \/ CheckRelease(u) \/ Reject(u) \/ Reconcile(u) \/ UploadRetry(u)
             \/ \E p \in Presses : Accept(p, u)
      PROVE  \/ UploadPush
             \/ \E c \in landing : Land(c)
             \/ \E o \in Others : OtherPush(o)
  BY <1>6 DEF Work, Reintegrate, RequestReview, Verdict, CheckRelease, Reject, Reconcile,
              UploadRetry, Accept, git, board, preparing, upload
<1> QED BY <1>1, <1>2, <1>3, <1>4, <1>5, <1>6 DEF Next

LEMMA LandingWritten ==
    ASSUME Next, landing' # landing
    PROVE  \/ UploadPush \/ Die
           \/ \E c \in landing : Land(c)
<1>1. CASE Coordinator \/ RecordRelease
  BY <1>1 DEF Coordinator, CoordBegin, CoordCheck, CoordRoute, RecordRelease, git, board,
            preparing, upload
<1>2. CASE Transaction
  BY <1>2 DEF Transaction, SealStep, SealDone, SealCommit, MoveMain, Materialize, MergeDone,
            MergeCommit, RecoverEntry, RecoverCommit, git, board, preparing, upload
<1>3. CASE Answering
  BY <1>3 DEF Answering, BeginMerge, FinishPress, FailMerge, VoidAccept, git, board, preparing,
            upload
<1>4. CASE Uploading
  BY <1>4 DEF Uploading, UploadTake, UploadNext, UploadMark, UploadSave, UploadEnd, git, board,
            preparing, upload
<1>5. CASE Surroundings
  BY <1>5 DEF Surroundings, OwnerCommits, OwnerEdits, OwnerUndoes, Start, OtherPush, git, board,
            preparing, upload
<1>6. ASSUME NEW u \in Tasks,
             \/ Work(u) \/ Reintegrate(u) \/ RequestReview(u) \/ Verdict(u)
             \/ CheckRelease(u) \/ Reject(u) \/ Reconcile(u) \/ UploadRetry(u)
             \/ \E p \in Presses : Accept(p, u)
      PROVE  \/ UploadPush \/ Die
             \/ \E c \in landing : Land(c)
  BY <1>6 DEF Work, Reintegrate, RequestReview, Verdict, CheckRelease, Reject, Reconcile,
              UploadRetry, Accept, git, board, preparing, upload
<1> QED BY <1>1, <1>2, <1>3, <1>4, <1>5, <1>6 DEF Next

LEMMA PressWritten ==
    ASSUME Next, press' # press
    PROVE  \/ MoveMain \/ Materialize \/ MergeCommit \/ Die
           \/ \E p \in Presses, t \in Tasks : Accept(p, t)
           \/ \E p \in Presses : BeginMerge(p)
           \/ \E p \in Presses : FinishPress(p)
           \/ \E p \in Presses : FailMerge(p)
           \/ \E p \in Presses : VoidAccept(p)
<1>1. CASE Coordinator \/ RecordRelease
  BY <1>1 DEF Coordinator, CoordBegin, CoordCheck, CoordRoute, RecordRelease, git, board,
            preparing, upload
<1>2. CASE Transaction
  BY <1>2 DEF Transaction, SealStep, SealDone, SealCommit, MergeDone, RecoverEntry,
            RecoverCommit, git, board, preparing, upload
<1>3. CASE Answering
  BY <1>3 DEF Answering, git, board, preparing, upload
<1>4. CASE Uploading
  BY <1>4 DEF Uploading, UploadTake, UploadNext, UploadMark, UploadPush, UploadSave, UploadEnd,
            git, board, preparing, upload
<1>5. CASE Surroundings
  BY <1>5 DEF Surroundings, OwnerCommits, OwnerEdits, OwnerUndoes, Start, Land, OtherPush, git,
            board, preparing, upload
<1>6. ASSUME NEW u \in Tasks,
             \/ Work(u) \/ Reintegrate(u) \/ RequestReview(u) \/ Verdict(u)
             \/ CheckRelease(u) \/ Reject(u) \/ Reconcile(u) \/ UploadRetry(u)
             \/ \E p \in Presses : Accept(p, u)
      PROVE  \/ MoveMain \/ Materialize \/ MergeCommit \/ Die
             \/ \E p \in Presses, t \in Tasks : Accept(p, t)
             \/ \E p \in Presses : BeginMerge(p)
             \/ \E p \in Presses : FinishPress(p)
             \/ \E p \in Presses : FailMerge(p)
             \/ \E p \in Presses : VoidAccept(p)
  <2>1. /\ ~Work(u) /\ ~Reintegrate(u) /\ ~RequestReview(u) /\ ~Verdict(u) /\ ~CheckRelease(u)
        /\ ~Reject(u) /\ ~Reconcile(u) /\ ~UploadRetry(u)
    BY DEF Work, Reintegrate, RequestReview, Verdict, CheckRelease, Reject, Reconcile,
           UploadRetry, git, board, preparing, upload
  <2> QED BY <1>6, <2>1
<1> QED BY <1>1, <1>2, <1>3, <1>4, <1>5, <1>6 DEF Next

LEMMA CoordWritten ==
    ASSUME Next, coord' # coord
    PROVE  \/ CoordCheck \/ CoordRoute \/ Die
           \/ \E t \in Tasks : CoordBegin(t)
<1>1. CASE Coordinator \/ RecordRelease
  BY <1>1 DEF Coordinator, RecordRelease, git, board, preparing, upload
<1>2. CASE Transaction
  BY <1>2 DEF Transaction, SealStep, SealDone, SealCommit, MoveMain, Materialize, MergeDone,
            MergeCommit, RecoverEntry, RecoverCommit, git, board, preparing, upload
<1>3. CASE Answering
  BY <1>3 DEF Answering, BeginMerge, FinishPress, FailMerge, VoidAccept, git, board, preparing,
            upload
<1>4. CASE Uploading
  BY <1>4 DEF Uploading, UploadTake, UploadNext, UploadMark, UploadPush, UploadSave, UploadEnd,
            git, board, preparing, upload
<1>5. CASE Surroundings
  BY <1>5 DEF Surroundings, OwnerCommits, OwnerEdits, OwnerUndoes, Start, Land, OtherPush, git,
            board, preparing, upload
<1>6. ASSUME NEW u \in Tasks,
             \/ Work(u) \/ Reintegrate(u) \/ RequestReview(u) \/ Verdict(u)
             \/ CheckRelease(u) \/ Reject(u) \/ Reconcile(u) \/ UploadRetry(u)
             \/ \E p \in Presses : Accept(p, u)
      PROVE  \/ CoordCheck \/ CoordRoute \/ Die
             \/ \E t \in Tasks : CoordBegin(t)
  <2>1. /\ ~Work(u) /\ ~Reintegrate(u) /\ ~RequestReview(u) /\ ~Verdict(u) /\ ~CheckRelease(u)
        /\ ~Reject(u) /\ ~Reconcile(u) /\ ~UploadRetry(u)
        /\ \A p \in Presses : ~Accept(p, u)
    BY DEF Work, Reintegrate, RequestReview, Verdict, CheckRelease, Reject, Reconcile,
           UploadRetry, Accept, git, board, preparing, upload
  <2> QED BY <1>6, <2>1
<1> QED BY <1>1, <1>2, <1>3, <1>4, <1>5, <1>6 DEF Next

LEMMA CheckWritten ==
    ASSUME Next, check' # check
    PROVE  \/ RecordRelease \/ Die
           \/ \E t \in Tasks : CheckRelease(t)
<1>1. CASE Coordinator \/ RecordRelease
  BY <1>1 DEF Coordinator, CoordBegin, CoordCheck, CoordRoute, git, board, preparing, upload
<1>2. CASE Transaction
  BY <1>2 DEF Transaction, SealStep, SealDone, SealCommit, MoveMain, Materialize, MergeDone,
            MergeCommit, RecoverEntry, RecoverCommit, git, board, preparing, upload
<1>3. CASE Answering
  BY <1>3 DEF Answering, BeginMerge, FinishPress, FailMerge, VoidAccept, git, board, preparing,
            upload
<1>4. CASE Uploading
  BY <1>4 DEF Uploading, UploadTake, UploadNext, UploadMark, UploadPush, UploadSave, UploadEnd,
            git, board, preparing, upload
<1>5. CASE Surroundings
  BY <1>5 DEF Surroundings, OwnerCommits, OwnerEdits, OwnerUndoes, Start, Land, OtherPush, git,
            board, preparing, upload
<1>6. ASSUME NEW u \in Tasks,
             \/ Work(u) \/ Reintegrate(u) \/ RequestReview(u) \/ Verdict(u)
             \/ CheckRelease(u) \/ Reject(u) \/ Reconcile(u) \/ UploadRetry(u)
             \/ \E p \in Presses : Accept(p, u)
      PROVE  \/ RecordRelease \/ Die
             \/ \E t \in Tasks : CheckRelease(t)
  <2>1. /\ ~Work(u) /\ ~Reintegrate(u) /\ ~RequestReview(u) /\ ~Verdict(u) /\ ~Reject(u)
        /\ ~Reconcile(u) /\ ~UploadRetry(u)
        /\ \A p \in Presses : ~Accept(p, u)
    BY DEF Work, Reintegrate, RequestReview, Verdict, Reject, Reconcile, UploadRetry, Accept,
           git, board, preparing, upload
  <2> QED BY <1>6, <2>1
<1> QED BY <1>1, <1>2, <1>3, <1>4, <1>5, <1>6 DEF Next

(***************************************************************************)
(* The uploads' invariant, part by part.                                   *)
(***************************************************************************)
LEMMA PassedCommits ==
    ASSUME BrokerInvariant, NEW t \in Tasks
    PROVE  /\ Passed(t) \subseteq Commit /\ \A c \in Passed(t) : c # None
           /\ \A i \in DOMAIN requests[t] :
                  requests[t][i].status = "passed" => requests[t][i].commit \in Passed(t)
<1>1. requests[t] \in Seq(Request)
  BY DEF BrokerInvariant, Types
<1>2. \A i \in DOMAIN requests[t] : requests[t][i].commit \in Commit
  <2>1. \A i \in DOMAIN requests[t] : requests[t][i] \in Request
    BY <1>1
  <2> QED BY <2>1 DEF Request
<1>3. Passed(t) \subseteq Commit
  BY <1>2 DEF Passed
<1> QED BY <1>3, ReleaseAssumption DEF Passed

LEMMA FinalPassPassed ==
    ASSUME BrokerInvariant, NEW t \in Tasks, NEW c, FinalPass(t, c)
    PROVE  c \in Passed(t) /\ c \in Commit /\ c # None
<1>1. requests[t] \in Seq(Request) \ {<<>>}
  BY DEF BrokerInvariant, Types, FinalPass, Reviewed
<1>2. Len(requests[t]) \in DOMAIN requests[t] /\ Newest(t) = requests[t][Len(requests[t])]
  BY <1>1, Lasts DEF Newest
<1> QED BY <1>2, PassedCommits DEF FinalPass

\* What passed a review has passed it for good.
LEMMA PassedGrows ==
    ASSUME BrokerInvariant, [Next]_vars, NEW t \in Tasks
    PROVE  Passed(t) \subseteq Passed(t)'
<1> SUFFICES ASSUME NEW i \in DOMAIN requests[t], requests[t][i].status = "passed"
             PROVE  i \in DOMAIN requests'[t] /\ requests'[t][i] = requests[t][i]
  BY DEF Passed
<1>1. CASE requests' = requests
  BY <1>1
<1>2. CASE SealCommit
  <2> DEFINE r == [commit |-> tx.commit, status |-> "open"]
  <2>1. requests' = [requests EXCEPT ![tx.task] = Append(requests[tx.task], r)]
    BY <1>2 DEF SealCommit
  <2>2. requests \in [Tasks -> Seq(Request)] /\ r \in Request
    BY DEF BrokerInvariant, Types, IsTx, Request
  <2> HIDE DEF r
  <2>3. requests[t] \in Seq(Request)
    BY <2>2
  <2>4. /\ i \in DOMAIN Append(requests[t], r)
        /\ Append(requests[t], r)[i] = requests[t][i]
    BY <2>2, <2>3
  <2>5. requests'[t] = IF t = tx.task THEN Append(requests[t], r) ELSE requests[t]
    BY <2>1, <2>2
  <2> QED BY <2>4, <2>5
<1>3. ASSUME NEW u \in Tasks, Verdict(u)
      PROVE  i \in DOMAIN requests'[t] /\ requests'[t][i] = requests[t][i]
  <2> DEFINE n == Len(requests[u])
  <2>1. PICK status \in {"passed", "failed"} : requests' = [requests EXCEPT ![u][n].status = status]
    BY <1>3 DEF Verdict
  <2>2. requests \in [Tasks -> Seq(Request)] /\ requests[u] \in Seq(Request) \ {<<>>}
    BY <1>3 DEF BrokerInvariant, Types, Verdict, Reviewed
  <2>3. n \in DOMAIN requests[u] /\ requests[u][n].status = "open"
    BY <1>3, <2>2, Lasts DEF Verdict, Newest
  <2> HIDE DEF n
  <2> DEFINE r == [requests[u][n] EXCEPT !.status = status]
  <2>4. requests' = [requests EXCEPT ![u] = [requests[u] EXCEPT ![n] = r]]
    BY <2>1
  <2> HIDE DEF r
  <2>5. requests'[t] = IF t = u THEN [requests[u] EXCEPT ![n] = r] ELSE requests[t]
    BY <2>2, <2>4
  <2>6. t = u => i # n
    BY <2>3
  <2> QED BY <2>5, <2>6
<1>4. CASE UNCHANGED vars
  BY <1>4 DEF vars, board
<1> QED BY <1>1, <1>2, <1>3, <1>4, RequestsWritten

LEMMA BackedStays ==
    ASSUME BrokerInvariant, [Next]_vars, NEW t \in Tasks, NEW c, NEW d, Backed(t, c), c \subseteq d
    PROVE  \E b \in Passed(t)' : b \subseteq d
BY PassedGrows DEF Backed

\* A journal that loses an entry keeps the others.
LEMMA PartOfJournal ==
    ASSUME NEW S, NEW s \in Seq(S), NEW a \in Int, NEW b \in Int, a >= 1, b <= Len(s)
    PROVE  /\ SubSeq(s, a, b) \in Seq(S)
           /\ \A i \in DOMAIN SubSeq(s, a, b) : \E j \in DOMAIN s : SubSeq(s, a, b)[i] = s[j]
<1>1. Len(s) \in Nat /\ DOMAIN s = 1..Len(s)
  OBVIOUS
<1>2. SubSeq(s, a, b) = [i \in 1..(b - a + 1) |-> s[i + a - 1]]
  BY <1>1
<1>3. \A i \in 1..(b - a + 1) : i + a - 1 \in DOMAIN s
  BY <1>1
<1>4. SubSeq(s, a, b) \in Seq(S)
  BY <1>1
<1> QED BY <1>2, <1>3, <1>4

LEMMA JournalShrinks ==
    ASSUME NEW S, NEW s \in Seq(S)
    PROVE  /\ Front(s) \in Seq(S)
           /\ \A i \in DOMAIN Front(s) : \E j \in DOMAIN s : Front(s)[i] = s[j]
<1>1. Len(s) \in Nat /\ Front(s) = SubSeq(s, 1, Len(s) - 1)
  BY DEF Front
<1>2. 1 \in Int /\ Len(s) - 1 \in Int /\ Len(s) - 1 <= Len(s)
  BY <1>1
<1> QED BY <1>1, <1>2, PartOfJournal

LEMMA EntryResolved ==
    ASSUME NEW S, NEW s \in Seq(S), NEW k \in 1..Len(s)
    PROVE  /\ RemoveAt(s, k) \in Seq(S)
           /\ \A i \in DOMAIN RemoveAt(s, k) : \E j \in DOMAIN s : RemoveAt(s, k)[i] = s[j]
<1> DEFINE x == SubSeq(s, 1, k - 1)
           y == SubSeq(s, k + 1, Len(s))
<1>1. Len(s) \in Nat /\ k \in Nat /\ k >= 1 /\ k <= Len(s)
  OBVIOUS
<1>2. x \in Seq(S) /\ \A i \in DOMAIN x : \E j \in DOMAIN s : x[i] = s[j]
  <2>1. 1 \in Int /\ k - 1 \in Int /\ k - 1 <= Len(s)
    BY <1>1
  <2> QED BY <2>1, PartOfJournal
<1>3. y \in Seq(S) /\ \A i \in DOMAIN y : \E j \in DOMAIN s : y[i] = s[j]
  <2>1. k + 1 \in Int /\ k + 1 >= 1 /\ Len(s) \in Int
    BY <1>1
  <2> QED BY <2>1, PartOfJournal
<1>4. RemoveAt(s, k) = x \o y
  BY DEF RemoveAt
<1> HIDE DEF x, y
<1>5. /\ x \o y \in Seq(S)
      /\ \A i \in DOMAIN (x \o y) : \/ i \in DOMAIN x /\ (x \o y)[i] = x[i]
                                    \/ i - Len(x) \in DOMAIN y /\ (x \o y)[i] = y[i - Len(x)]
  BY <1>2, <1>3
<1> QED BY <1>2, <1>3, <1>4, <1>5

\* A release names what passed; what the board says of it stays about something.
ReleaseFine(t) ==
    /\ releases[t].head \in MaybeCommit /\ releases[t].base \in MaybeCommit
    /\ releases[t].head # None => releases[t].head \in Passed(t)
    /\ releases[t].status # "none" => releases[t].head # None
ReleaseStays(t) ==
    /\ releases'[t].head \in MaybeCommit /\ releases'[t].base \in MaybeCommit
    /\ releases'[t].head # None => releases'[t].head \in Passed(t)
    /\ releases'[t].status # "none" => releases'[t].head # None
    /\ releases[t].head # None => releases'[t].head # None

LEMMA StatusStays ==
    ASSUME Types, NEW u \in Tasks, NEW status, releases[u].head # None,
           \A t \in Tasks : ReleaseFine(t),
           releases' = [releases EXCEPT ![u].status = status]
    PROVE  \A t \in Tasks : ReleaseStays(t)
<1> DEFINE r == [releases[u] EXCEPT !.status = status]
<1>1. r.head = releases[u].head /\ r.base = releases[u].base
  BY DEF Types, IsRelease
<1>2. releases' = [releases EXCEPT ![u] = r]
  OBVIOUS
<1> HIDE DEF r
<1>3. \A t \in Tasks : releases'[t] = IF t = u THEN r ELSE releases[t]
  BY <1>2 DEF Types
<1> QED BY <1>1, <1>3 DEF ReleaseFine, ReleaseStays

LEMMA VoidStays ==
    ASSUME Types, NEW u \in Tasks \cup {None}, Void(u), \A t \in Tasks : ReleaseFine(t)
    PROVE  \A t \in Tasks : ReleaseStays(t)
<1>1. CASE releases' = releases
  BY <1>1 DEF ReleaseFine, ReleaseStays
<1>2. CASE u \notin Tasks
  <2>1. \A t \in Tasks : releases'[t] = releases[t]
    BY <1>2 DEF Void, Types
  <2> QED BY <2>1 DEF ReleaseFine, ReleaseStays
<1>3. CASE releases' # releases /\ u \in Tasks
  <2>1. /\ releases' = [releases EXCEPT ![u].status = "REINTEGRATION_REQUIRED"]
        /\ releases[u].status = Awaiting
    BY <1>3 DEF Void
  <2>2. releases[u].head # None
    BY <1>3, <2>1 DEF ReleaseFine, Awaiting
  <2> QED BY <1>3, <2>1, <2>2, StatusStays
<1> QED BY <1>1, <1>2, <1>3

LEMMA FineNow == ASSUME UploadInvariant PROVE \A t \in Tasks : ReleaseFine(t)
BY DEF UploadInvariant, Answered, Backing, ReleaseFine

LEMMA ReleasesStay ==
    ASSUME BrokerInvariant, UploadInvariant, [Next]_vars
    PROVE  \A t \in Tasks : ReleaseStays(t)
<1>0. Types /\ \A t \in Tasks : ReleaseFine(t)
  BY FineNow DEF BrokerInvariant
<1>1. CASE releases' = releases
  BY <1>0, <1>1 DEF ReleaseFine, ReleaseStays
<1>2. CASE RecordRelease
  <2> DEFINE u == check.task
             r == [head |-> check.commit, base |-> check.base, status |-> Awaiting]
  <2>1. check.step = "checked" /\ u \in Tasks /\ check.base \in Commit
    BY <1>2 DEF RecordRelease, UploadInvariant, Running, IsPass
  <2>2. \/ releases' = releases
        \/ FinalPass(u, check.commit) /\ releases' = [releases EXCEPT ![u] = r]
    BY <1>2 DEF RecordRelease
  <2>3. CASE FinalPass(u, check.commit) /\ releases' = [releases EXCEPT ![u] = r]
    <3>1. check.commit \in Passed(u) /\ check.commit \in Commit /\ check.commit # None
      BY <2>1, <2>3, FinalPassPassed
    <3>2. r.head = check.commit /\ r.base = check.base
      OBVIOUS
    <3> HIDE DEF r, u
    <3>3. \A t \in Tasks : releases'[t] = IF t = u THEN r ELSE releases[t]
      BY <1>0, <2>3 DEF Types
    <3> QED BY <1>0, <2>1, <3>1, <3>2, <3>3 DEF ReleaseFine, ReleaseStays, MaybeCommit
  <2> QED BY <1>1, <2>2, <2>3
<1>3. CASE MergeCommit
  <2>1. tx.kind = "accept" /\ releases' = [releases EXCEPT ![tx.task].status = "ACCEPTED"]
    BY <1>3 DEF MergeCommit
  <2>2. tx.task \in Tasks /\ releases[tx.task].head # None
    BY <2>1 DEF BrokerInvariant, Merging, UploadInvariant, Backing
  <2> QED BY <1>0, <2>1, <2>2, StatusStays
<1>4. CASE RecoverCommit
  <2>1. CASE releases' # releases
    <3>1. /\ releases' = [releases EXCEPT ![Recorded].status = "ACCEPTED"]
          /\ releases[Recorded].status = Awaiting
      BY <1>4, <2>1 DEF RecoverCommit
    <3>2. releases[Recorded].head # None
      BY <1>0, <3>1, RecordedIsTask DEF ReleaseFine, Awaiting
    <3> QED BY <1>0, <3>1, <3>2, RecordedIsTask, StatusStays
  <2> QED BY <1>1, <2>1
<1>5. ASSUME NEW p \in Presses, VoidAccept(p)
      PROVE  \A t \in Tasks : ReleaseStays(t)
  <2>1. press[p].task \in Tasks \cup {None} /\ Void(press[p].task)
    BY <1>0, <1>5 DEF Types, IsPress, VoidAccept
  <2> QED BY <1>0, <2>1, VoidStays
<1>6. ASSUME NEW u \in Tasks, Reconcile(u)
      PROVE  \A t \in Tasks : ReleaseStays(t)
  BY <1>0, <1>6, VoidStays DEF Reconcile
<1>7. CASE UNCHANGED vars
  BY <1>1, <1>7 DEF vars, board
<1> QED BY <1>1, <1>2, <1>3, <1>4, <1>5, <1>6, <1>7, ReleasesWritten

\* Answers are written one at a time, about a release there is.
AnswerFine(t) == decisions[t] # None => decisions[t] \in Decision /\ releases[t].head # None
AnswersBounded == \E n \in Nat : \A t \in Tasks : decisions[t] # None => decisions[t].at <= n

LEMMA AnswerStays ==
    ASSUME Types, \A t \in Tasks : AnswerFine(t), AnswersBounded,
           \A t \in Tasks : ReleaseStays(t),
           NEW u, NEW d, decisions' = [decisions EXCEPT ![u] = d],
           u \in Tasks /\ d # None => d \in Decision /\ releases[u].head # None
    PROVE  /\ \A t \in Tasks : AnswerFine(t)'
           /\ AnswersBounded'
<1>1. \A t \in Tasks : decisions'[t] = IF t = u THEN d ELSE decisions[t]
  BY DEF Types
<1>2. \A t \in Tasks : AnswerFine(t)'
  BY <1>1 DEF AnswerFine, ReleaseStays
<1>3. PICK n \in Nat : \A t \in Tasks : decisions[t] # None => decisions[t].at <= n
  BY DEF AnswersBounded
<1>4. AnswersBounded'
  <2>1. CASE u \in Tasks /\ d # None
    <3>1. d.at \in Nat
      BY <2>1 DEF Decision
    <3>2. \A t \in Tasks : decisions[t] # None => decisions[t].at \in Nat
      <4>1. \A t \in Tasks : decisions[t] # None => decisions[t] \in Decision
        BY DEF AnswerFine
      <4> QED BY <4>1 DEF Decision
    <3>3. \A t \in Tasks : decisions'[t] # None => decisions'[t].at <= n + d.at
      BY <1>1, <1>3, <3>1, <3>2
    <3>4. n + d.at \in Nat
      BY <3>1
    <3> QED BY <3>3, <3>4 DEF AnswersBounded
  <2>2. CASE ~(u \in Tasks /\ d # None)
    BY <1>1, <1>3, <2>2 DEF AnswersBounded
  <2> QED BY <2>1, <2>2
<1> QED BY <1>2, <1>4

LEMMA NextAcceptType ==
    ASSUME \A t \in Tasks : AnswerFine(t), AnswersBounded
    PROVE  NextAccept \in Nat
<1> DEFINE T == {0} \cup {decisions[t].at : t \in {u \in Tasks : decisions[u] # None}}
<1>1. \A t \in Tasks : decisions[t] # None => decisions[t].at \in Nat
  <2>1. \A t \in Tasks : decisions[t] # None => decisions[t] \in Decision
    BY DEF AnswerFine
  <2> QED BY <2>1 DEF Decision
<1>2. PICK n \in Nat : \A t \in Tasks : decisions[t] # None => decisions[t].at <= n
  BY DEF AnswersBounded
<1>3. T \in SUBSET Nat /\ T # {} /\ \A k \in T : k <= n
  BY <1>1, <1>2
<1>4. NextAccept = 1 + Max(T)
  BY DEF NextAccept
<1> HIDE DEF T
<1>5. Max(T) \in Nat
  BY <1>3, GreatestNatural
<1> QED BY <1>4, <1>5

LEMMA AnswersStay ==
    ASSUME BrokerInvariant, UploadInvariant, [Next]_vars
    PROVE  /\ \A t \in Tasks : AnswerFine(t)'
           /\ AnswersBounded'
<1>0. /\ Types /\ Heads /\ AnswersBounded
      /\ \A t \in Tasks : AnswerFine(t) /\ ReleaseFine(t) /\ ReleaseStays(t)
  <2>1. \A t \in Tasks : AnswerFine(t)
    BY DEF UploadInvariant, Answered, Backing, AnswerFine
  <2> QED BY <2>1, ReleasesStay, FineNow
             DEF BrokerInvariant, UploadInvariant, Answered, AnswersBounded
<1>1. CASE decisions' = decisions
  BY <1>0, <1>1 DEF AnswerFine, ReleaseStays, AnswersBounded
<1>2. ASSUME NEW u, decisions' = [decisions EXCEPT ![u] = None]
      PROVE  (\A t \in Tasks : AnswerFine(t)') /\ AnswersBounded'
  BY <1>0, <1>2, AnswerStays
<1>3. ASSUME NEW u \in Tasks, releases[u].status # "none", NEW d,
             d \in [decision : {"accepted", "not_accepted"}, merge : {"none"}, at : Nat,
                    head : {releases[u].head}, upload : {"none", "pending"}],
             decisions' = [decisions EXCEPT ![u] = d]
      PROVE  (\A t \in Tasks : AnswerFine(t)') /\ AnswersBounded'
  <2>1. releases[u].head # None /\ releases[u].head \in MaybeCommit
    BY <1>0, <1>3 DEF ReleaseFine
  <2>2. d \in Decision
    BY <1>3, <2>1 DEF Decision
  <2> QED BY <1>0, <1>3, <2>1, <2>2, AnswerStays
<1>4. ASSUME NEW u, decisions[u] # None, NEW outcome \in Outcomes,
             decisions' = [decisions EXCEPT ![u].upload = outcome]
      PROVE  (\A t \in Tasks : AnswerFine(t)') /\ AnswersBounded'
  <2> DEFINE d == [decisions[u] EXCEPT !.upload = outcome]
  <2>1. decisions' = [decisions EXCEPT ![u] = d]
    BY <1>4
  <2>2. u \in Tasks => d \in Decision /\ releases[u].head # None
    BY <1>0, <1>4 DEF AnswerFine, Decision, Outcomes
  <2> HIDE DEF d
  <2> QED BY <1>0, <2>1, <2>2, AnswerStays
<1>5. ASSUME NEW u, decisions[u] # None, NEW merge \in {"none", "failed"},
             decisions' = [decisions EXCEPT ![u].merge = merge]
      PROVE  (\A t \in Tasks : AnswerFine(t)') /\ AnswersBounded'
  <2> DEFINE d == [decisions[u] EXCEPT !.merge = merge]
  <2>1. decisions' = [decisions EXCEPT ![u] = d]
    BY <1>5
  <2>2. u \in Tasks => d \in Decision /\ releases[u].head # None
    BY <1>0, <1>5 DEF AnswerFine, Decision
  <2> HIDE DEF d
  <2> QED BY <1>0, <2>1, <2>2, AnswerStays
<1>6. CASE RecordRelease
  <2>1. decisions' = decisions \/ decisions' = [decisions EXCEPT ![check.task] = None]
    BY <1>6 DEF RecordRelease
  <2> QED BY <1>1, <1>2, <2>1
<1>7. ASSUME NEW p \in Presses, NEW u \in Tasks, Accept(p, u)
      PROVE  (\A t \in Tasks : AnswerFine(t)') /\ AnswersBounded'
  <2> DEFINE d == [decision |-> "accepted", merge |-> "none", at |-> NextAccept,
                   head |-> releases[u].head, upload |-> "pending"]
  <2>1. decisions' = decisions \/ decisions' = [decisions EXCEPT ![u] = d]
    BY <1>7 DEF Accept
  <2>2. releases[u].status # "none"
    BY <1>7 DEF Accept, Awaiting
  <2>3. NextAccept \in Nat
    BY <1>0, NextAcceptType
  <2>4. d \in [decision : {"accepted", "not_accepted"}, merge : {"none"}, at : Nat,
               head : {releases[u].head}, upload : {"none", "pending"}]
    BY <2>3
  <2> HIDE DEF d
  <2> QED BY <1>1, <1>3, <2>1, <2>2, <2>4
<1>8. ASSUME NEW u \in Tasks, Reject(u)
      PROVE  (\A t \in Tasks : AnswerFine(t)') /\ AnswersBounded'
  <2> DEFINE d == [decision |-> "not_accepted", merge |-> "none", at |-> 0,
                   head |-> releases[u].head, upload |-> "none"]
  <2>1. decisions' = [decisions EXCEPT ![u] = d] /\ releases[u].status # "none"
    BY <1>8 DEF Reject, Awaiting
  <2>2. d \in [decision : {"accepted", "not_accepted"}, merge : {"none"}, at : Nat,
               head : {releases[u].head}, upload : {"none", "pending"}]
    OBVIOUS
  <2> HIDE DEF d
  <2> QED BY <1>3, <2>1, <2>2
<1>9. ASSUME NEW p \in Presses, FinishPress(p)
      PROVE  (\A t \in Tasks : AnswerFine(t)') /\ AnswersBounded'
  <2>1. \/ decisions' = decisions
        \/ /\ decisions[press[p].task] # None
           /\ decisions' = [decisions EXCEPT ![press[p].task].merge = "none"]
    BY <1>9 DEF FinishPress, Accepted
  <2> QED BY <1>1, <1>5, <2>1
<1>10. ASSUME NEW p \in Presses, FailMerge(p)
       PROVE  (\A t \in Tasks : AnswerFine(t)') /\ AnswersBounded'
  <2>1. \/ decisions' = decisions
        \/ /\ decisions[press[p].task] # None
           /\ decisions' = [decisions EXCEPT ![press[p].task].merge = "failed"]
    BY <1>10 DEF FailMerge
  <2> QED BY <1>1, <1>5, <2>1
<1>11. ASSUME NEW u, Void(u)
       PROVE  (\A t \in Tasks : AnswerFine(t)') /\ AnswersBounded'
  BY <1>2, <1>11 DEF Void
<1>12. CASE UploadMark
  <2>1. \/ decisions' = decisions
        \/ /\ decisions[uploader.task] # None
           /\ decisions' = [decisions EXCEPT ![uploader.task].upload = "running"]
    BY <1>12 DEF UploadMark
  <2> QED BY <1>1, <1>4, <2>1 DEF Outcomes
<1>13. CASE UploadSave
  <2>1. \/ decisions' = decisions
        \/ /\ decisions[uploader.task] # None
           /\ decisions' = [decisions EXCEPT ![uploader.task].upload = uploader.outcome]
    BY <1>13 DEF UploadSave
  <2>2. uploader.outcome \in Outcomes
    BY DEF UploadInvariant, Queued, Uploader
  <2> QED BY <1>1, <1>4, <2>1, <2>2
<1>14. ASSUME NEW u \in Tasks, UploadRetry(u)
       PROVE  (\A t \in Tasks : AnswerFine(t)') /\ AnswersBounded'
  <2>1. decisions[u] # None /\ decisions' = [decisions EXCEPT ![u].upload = "pending"]
    BY <1>14 DEF UploadRetry, Accepted
  <2> QED BY <1>4, <2>1 DEF Outcomes
<1>15. CASE UNCHANGED vars
  BY <1>1, <1>15 DEF vars, board
<1>16. ASSUME NEW p \in Presses, VoidAccept(p)
       PROVE  (\A t \in Tasks : AnswerFine(t)') /\ AnswersBounded'
  BY <1>11, <1>16 DEF VoidAccept
<1>17. ASSUME NEW u \in Tasks, Reconcile(u)
       PROVE  (\A t \in Tasks : AnswerFine(t)') /\ AnswersBounded'
  BY <1>11, <1>17 DEF Reconcile
<1> QED BY <1>1, <1>6, <1>7, <1>8, <1>9, <1>10, <1>12, <1>13, <1>14, <1>15, <1>16, <1>17,
           DecisionsWritten

LEMMA AnsweredStays ==
    ASSUME BrokerInvariant, UploadInvariant, [Next]_vars
    PROVE  Answered'
<1>1. \A t \in Tasks : /\ releases'[t].head \in MaybeCommit /\ releases'[t].base \in MaybeCommit
                       /\ decisions'[t] \in Decision \cup {None}
  BY ReleasesStay, AnswersStay DEF ReleaseStays, AnswerFine
<1>2. AnswersBounded'
  BY AnswersStay
<1>3. voided \in [Tasks -> SUBSET Commit]
  BY DEF UploadInvariant, Answered
<1>4. ASSUME NEW u, Void(u)
      PROVE  voided' \in [Tasks -> SUBSET Commit]
  <2>1. CASE u \in Tasks /\ decisions[u] # None
    <3> DEFINE heads == voided[u] \cup {releases[u].head}
    <3>1. releases[u].head \in Commit
      BY <2>1 DEF UploadInvariant, Answered, Backing, MaybeCommit
    <3>2. voided' = [voided EXCEPT ![u] = heads] /\ heads \in SUBSET Commit
      BY <1>3, <1>4, <2>1, <3>1 DEF Void
    <3> HIDE DEF heads
    <3> QED BY <1>3, <3>2
  <2>2. CASE ~(u \in Tasks /\ decisions[u] # None)
    <3>1. voided' = voided \/ (u \notin Tasks /\ voided' = [voided EXCEPT ![u] = @ \cup {releases[u].head}])
      BY <1>4, <2>2 DEF Void
    <3> QED BY <1>3, <3>1
  <2> QED BY <2>1, <2>2
<1>5. voided' \in [Tasks -> SUBSET Commit]
  <2>1. CASE UNCHANGED vars
    BY <1>3, <2>1 DEF vars, board
  <2>2. CASE UNCHANGED voided
    BY <1>3, <2>2
  <2>3. ASSUME NEW p \in Presses, VoidAccept(p)
        PROVE  voided' \in [Tasks -> SUBSET Commit]
    BY <1>4, <2>3 DEF VoidAccept
  <2>4. ASSUME NEW u \in Tasks, Reconcile(u)
        PROVE  voided' \in [Tasks -> SUBSET Commit]
    BY <1>4, <2>4 DEF Reconcile
  <2> QED BY <2>1, <2>2, <2>3, <2>4, VoidedWritten
<1> QED BY <1>1, <1>2, <1>5 DEF Answered, AnswersBounded

\* What the board has accepted passed a review of its task.
DraftFine(draft) == \A t \in Tasks : draft[t] # None => draft[t] \in Passed(t)

EntryFine(e) == e \in Entry /\ (e.op = "accept" => e.target \in Passed(e.task))
JournalFine == \A i \in DOMAIN journal : EntryFine(journal[i])

LEMMA JournalNow ==
    ASSUME UploadInvariant
    PROVE  journal \in Seq(Entry) /\ JournalFine
BY DEF UploadInvariant, Written, Backing, JournalFine, EntryFine

LEMMA JournalStays ==
    ASSUME BrokerInvariant, UploadInvariant, [Next]_vars
    PROVE  journal' \in Seq(Entry) /\ JournalFine'
<1>1. journal \in Seq(Entry) /\ JournalFine
  BY JournalNow
<1>2. SUFFICES journal' \in Seq(Entry) /\ \A i \in DOMAIN journal' : EntryFine(journal'[i])
  <2>1. \A t \in Tasks : Passed(t) \subseteq Passed(t)'
    BY PassedGrows
  <2>2. ASSUME NEW e, EntryFine(e)
        PROVE  EntryFine(e)'
    <3>1. e.task \in Tasks
      BY <2>2 DEF EntryFine, Entry
    <3> QED BY <2>1, <2>2, <3>1 DEF EntryFine
  <2>3. SUFFICES ASSUME \A i \in DOMAIN journal' : EntryFine(journal'[i])
                 PROVE  JournalFine'
    OBVIOUS
  <2>4. ASSUME NEW i \in DOMAIN journal' PROVE EntryFine(journal[i])'
    <3>1. PICK e : e = journal'[i]
      OBVIOUS
    <3>2. EntryFine(e)'
      BY <2>2, <2>3, <3>1
    <3> QED BY <3>1, <3>2 DEF EntryFine, Passed
  <2> QED BY <2>4 DEF JournalFine
<1>3. CASE journal' = journal
  BY <1>1, <1>3 DEF JournalFine
<1>4. ASSUME NEW e, EntryFine(e), journal' = Append(journal, e)
      PROVE  journal' \in Seq(Entry) /\ \A i \in DOMAIN journal' : EntryFine(journal'[i])
  <2>1. e \in Entry
    BY <1>4 DEF EntryFine
  <2>2. /\ Append(journal, e) \in Seq(Entry)
        /\ \A i \in DOMAIN Append(journal, e) :
               Append(journal, e)[i] = e \/ (i \in DOMAIN journal /\ Append(journal, e)[i] = journal[i])
    BY <1>1, <2>1
  <2> QED BY <1>1, <1>4, <2>2 DEF JournalFine
<1>5. CASE SealDone \/ MergeDone
  <2>1. journal' = Front(journal)
    BY <1>5 DEF SealDone, MergeDone
  <2>2. /\ Front(journal) \in Seq(Entry)
        /\ \A i \in DOMAIN Front(journal) : \E j \in DOMAIN journal : Front(journal)[i] = journal[j]
    BY <1>1, JournalShrinks
  <2> QED BY <1>1, <2>1, <2>2 DEF JournalFine
<1>6. ASSUME NEW t \in Tasks, RequestReview(t)
      PROVE  journal' \in Seq(Entry) /\ \A i \in DOMAIN journal' : EntryFine(journal'[i])
  <2> DEFINE e == MirrorEntry(t, Tip(t))
  <2>1. journal' = Append(journal, e)
    BY <1>6 DEF RequestReview
  <2>2. Tip(t) \in Commit
    BY TipType
  <2>3. ReviewNumber(t) \in Nat
    <3>1. requests[t] \in Seq(Request)
      BY DEF BrokerInvariant, Types
    <3> QED BY <3>1 DEF ReviewNumber
  <2>4. EntryFine(e)
    BY <2>2, <2>3 DEF MirrorEntry, EntryFine, Entry, MaybeCommit
  <2> HIDE DEF e
  <2> QED BY <1>4, <2>1, <2>4
<1>7. ASSUME NEW p \in Presses, BeginMerge(p)
      PROVE  journal' \in Seq(Entry) /\ \A i \in DOMAIN journal' : EntryFine(journal'[i])
  <2> DEFINE t == press[p].task
             c == Newest(t).commit
             e == [op |-> "accept", task |-> t, number |-> Len(requests[t]),
                   base |-> releases[t].base, target |-> c]
  <2>1. \/ journal' = journal
        \/ FinalPass(t, releases[t].head) /\ journal' = Append(journal, e)
    BY <1>7 DEF BeginMerge
  <2>2. t \in Tasks
    BY <1>7 DEF BeginMerge, BrokerInvariant, Types
  <2>3. CASE FinalPass(t, releases[t].head) /\ journal' = Append(journal, e)
    <3>1. c = releases[t].head
      BY <2>3 DEF FinalPass
    <3>2. c \in Passed(t) /\ c \in Commit
      BY <2>2, <2>3, <3>1, FinalPassPassed
    <3>3. releases[t].base \in MaybeCommit
      BY <2>2 DEF UploadInvariant, Answered
    <3>4. Len(requests[t]) \in Nat
      <4>1. requests[t] \in Seq(Request)
        BY <2>2 DEF BrokerInvariant, Types
      <4> QED BY <4>1
    <3> HIDE DEF c, t
    <3>5. EntryFine(e)
      BY <2>2, <3>2, <3>3, <3>4 DEF EntryFine, Entry
    <3> HIDE DEF e
    <3> QED BY <1>4, <2>3, <3>5
  <2> QED BY <1>3, <2>1, <2>3
<1>8. CASE RecoverEntry
  <2>1. \/ journal' = journal
        \/ journal' = RemoveAt(journal, tx.entry)
    BY <1>8 DEF RecoverEntry, RecoverSeal, RecoverMerge, Resolve
  <2>2. tx.entry \in 1..Len(journal)
    <3>1. tx.entry \in Nat /\ tx.entry # 0 /\ tx.entry <= Len(journal)
      BY <1>8 DEF RecoverEntry, UploadInvariant, Written
    <3> QED BY <1>1, <3>1
  <2>3. /\ RemoveAt(journal, tx.entry) \in Seq(Entry)
        /\ \A i \in DOMAIN RemoveAt(journal, tx.entry) :
               \E j \in DOMAIN journal : RemoveAt(journal, tx.entry)[i] = journal[j]
    <3>1. journal \in Seq(Entry)
      BY <1>1
    <3> QED BY <2>2, <3>1, EntryResolved
  <2> QED BY <1>1, <1>3, <2>1, <2>3 DEF JournalFine
<1>9. CASE UNCHANGED vars
  BY <1>3, <1>9 DEF vars, git
<1> QED BY <1>3, <1>5, <1>6, <1>7, <1>8, <1>9, JournalWritten

\* The broker's transaction is about a release that passed its review.
TxFine ==
    /\ tx.base \in Commit /\ tx.entry \in Nat
    /\ tx.kind = "recover" => tx.entry # 0
    /\ tx.kind = "accept" => tx.commit \in Passed(tx.task) /\ releases[tx.task].head # None
    /\ tx.kind = "recover" => DraftFine(tx.draft)

LEMMA NoTxFine == ASSUME tx' = NoTx PROVE TxFine'
<1>1. tx'.base = {} /\ tx'.entry = 0 /\ tx'.kind = "none"
  BY DEF NoTx
<1> QED BY <1>1 DEF TxFine, Commit

\* The same transaction, or one of its later steps.
LEMMA SameTxFine ==
    ASSUME BrokerInvariant, UploadInvariant, [Next]_vars,
           tx' = tx \/ \E label : tx' = [tx EXCEPT !.step = label]
    PROVE  TxFine'
<1>1. IsTx(tx) /\ (tx.kind = "accept" => tx.task \in Tasks)
  BY DEF BrokerInvariant, Types, Merging
<1>2. /\ tx'.base = tx.base /\ tx'.entry = tx.entry /\ tx'.kind = tx.kind
      /\ tx'.commit = tx.commit /\ tx'.task = tx.task /\ tx'.draft = tx.draft
  BY <1>1 DEF IsTx
<1>3. TxFine
  BY DEF UploadInvariant, Written, Backing, TxFine, DraftFine
<1>4. PICK u : u = tx.task
  OBVIOUS
<1>5. tx.kind = "accept" => tx.commit \in Passed(u)' /\ releases'[u].head # None
  <2>1. ASSUME tx.kind = "accept"
        PROVE  tx.commit \in Passed(u) /\ u \in Tasks /\ releases[u].head # None
    BY <1>1, <1>3, <1>4, <2>1 DEF TxFine
  <2>2. ASSUME tx.kind = "accept" PROVE Passed(u) \subseteq Passed(u)' /\ releases'[u].head # None
    BY <2>1, <2>2, PassedGrows, ReleasesStay DEF ReleaseStays
  <2> QED BY <2>1, <2>2
<1>6. tx.kind = "recover" => \A t \in Tasks : tx.draft[t] # None => tx.draft[t] \in Passed(t)'
  BY <1>3, PassedGrows DEF TxFine, DraftFine
<1>7. tx'.kind = "accept" => tx'.commit \in Passed(u)' /\ releases'[u].head # None /\ u = tx'.task
  BY <1>2, <1>4, <1>5
<1>8. tx'.kind = "recover" => \A t \in Tasks : tx'.draft[t] # None => tx'.draft[t] \in Passed(t)'
  BY <1>2, <1>6
<1>9. tx'.base \in Commit /\ tx'.entry \in Nat /\ (tx'.kind = "recover" => tx'.entry # 0)
  BY <1>2, <1>3 DEF TxFine
<1> QED BY <1>7, <1>8, <1>9 DEF TxFine, DraftFine, Passed

\* Recovery finds entries of the one task there is.
LEMMA RecoverEntryFine ==
    ASSUME BrokerInvariant, UploadInvariant, [Next]_vars, RecoverEntry
    PROVE  TxFine'
<1>1. tx.kind = "recover" /\ IsTx(tx) /\ app = "recovering" /\ DOMAIN tx.draft = Tasks
  BY DEF RecoverEntry, BrokerInvariant, Types, Recovering
<1>2. Tasks = {Recorded}
  BY <1>1 DEF UploadInvariant, Running
<1>3. TxFine /\ journal \in Seq(Entry) /\ JournalFine
  BY JournalNow DEF UploadInvariant, Written, Backing, TxFine, DraftFine
<1>4. CASE tx' = tx
  BY <1>4, SameTxFine
<1>5. CASE tx' = [tx EXCEPT !.entry = @ + 1]
  <2>1. /\ tx'.base = tx.base /\ tx'.entry = tx.entry + 1 /\ tx'.kind = "recover"
        /\ tx'.draft = tx.draft
    BY <1>1, <1>5 DEF IsTx
  <2>2. \A t \in Tasks : tx.draft[t] # None => tx.draft[t] \in Passed(t)'
    BY <1>1, <1>3, PassedGrows DEF TxFine, DraftFine
  <2>3. \A t \in Tasks : tx'.draft[t] # None => tx'.draft[t] \in Passed(t)'
    BY <2>1, <2>2
  <2>4. tx'.base \in Commit /\ tx'.entry \in Nat /\ tx'.entry # 0
    BY <1>3, <2>1 DEF TxFine
  <2> QED BY <2>1, <2>3, <2>4 DEF TxFine, DraftFine
<1>6. CASE tx' # tx /\ tx' # [tx EXCEPT !.entry = @ + 1]
  <2>1. PICK e : e = journal[tx.entry]
    OBVIOUS
  <2>2. e.op # "mirror" /\ tx' = [tx EXCEPT !.draft[Recorded] = e.target]
    BY <1>6, <2>1 DEF RecoverEntry, RecoverSeal, RecoverMerge, Unresolved
  <2>3. EntryFine(e)
    <3>1. tx.entry \in 1..Len(journal)
      <4>1. tx.entry \in Nat /\ tx.entry # 0 /\ tx.entry <= Len(journal)
        BY <1>1, <1>3 DEF RecoverEntry, TxFine
      <4> QED BY <1>3, <4>1
    <3> QED BY <1>3, <2>1, <3>1 DEF JournalFine
  <2>4. e.target \in Passed(Recorded)
    BY <1>2, <2>2, <2>3 DEF EntryFine, Entry
  <2> DEFINE draft == [tx.draft EXCEPT ![Recorded] = e.target]
  <2>5. \A t \in Tasks : draft[t] # None => draft[t] \in Passed(t)
    BY <1>1, <1>3, <2>4 DEF TxFine, DraftFine
  <2>6. tx' = [tx EXCEPT !.draft = draft]
    BY <2>2
  <2> HIDE DEF draft
  <2>7. PICK d : d = draft
    OBVIOUS
  <2>8. tx'.base = tx.base /\ tx'.entry = tx.entry /\ tx'.kind = "recover" /\ tx'.draft = d
    BY <1>1, <2>6, <2>7 DEF IsTx
  <2>9. \A t \in Tasks : d[t] # None => d[t] \in Passed(t)'
    BY <2>5, <2>7, PassedGrows
  <2>10. \A t \in Tasks : tx'.draft[t] # None => tx'.draft[t] \in Passed(t)'
    BY <2>8, <2>9
  <2>11. tx'.base \in Commit /\ tx'.entry \in Nat /\ tx'.entry # 0
    BY <1>1, <1>3, <2>8 DEF TxFine
  <2> QED BY <2>8, <2>10, <2>11 DEF TxFine, DraftFine
<1> QED BY <1>4, <1>5, <1>6

LEMMA BeginMergeFine ==
    ASSUME BrokerInvariant, UploadInvariant, [Next]_vars, NEW p \in Presses, BeginMerge(p)
    PROVE  TxFine'
<1>1. CASE tx' = tx
  BY <1>1, SameTxFine
<1>2. CASE tx' # tx
  <2> DEFINE q == press[p].task
  <2>1. PICK t, c, base : t = q /\ c = Newest(q).commit /\ base = releases[q].base
    OBVIOUS
  <2>2. /\ Accepted(t) /\ FinalPass(t, releases[t].head) /\ Main = base /\ t \in Tasks
        /\ tx' = [NoTx EXCEPT !.kind = "accept", !.task = t, !.press = p, !.commit = c,
                              !.base = base, !.step = "intent"]
    BY <1>2, <2>1 DEF BeginMerge, BrokerInvariant, Types
  <2>3. c = releases[t].head
    BY <2>1, <2>2 DEF FinalPass
  <2>4. c \in Passed(t) /\ releases[t].head # None /\ base \in Commit
    BY <2>2, <2>3, FinalPassPassed, MainType
  <2>5. c \in Passed(t)' /\ releases'[t].head # None
    BY <2>2, <2>4, PassedGrows, ReleasesStay DEF ReleaseStays
  <2>6. /\ tx'.kind = "accept" /\ tx'.task = t /\ tx'.commit = c /\ tx'.base = base
        /\ tx'.entry = 0
    BY <2>2 DEF NoTx
  <2> QED BY <2>4, <2>5, <2>6 DEF TxFine, Passed
<1> QED BY <1>1, <1>2

LEMMA TxStays ==
    ASSUME BrokerInvariant, UploadInvariant, [Next]_vars
    PROVE  TxFine'
<1>1. CASE tx' = tx \/ tx' = NoTx \/ \E label : tx' = [tx EXCEPT !.step = label]
  BY <1>1, SameTxFine, NoTxFine
<1>2. CASE SealStep \/ SealDone \/ SealCommit \/ MoveMain \/ Materialize \/ MergeDone \/ MergeCommit
           \/ Die \/ RecoverCommit
  <2>1. tx' = tx \/ tx' = NoTx \/ \E label : tx' = [tx EXCEPT !.step = label]
    BY <1>2 DEF SealStep, CreateRef, SealDone, SealCommit, MoveMain, Materialize, MergeDone,
                MergeCommit, Die, RecoverCommit
  <2> QED BY <1>1, <2>1
<1>3. CASE Start
  <2>1. tx' = [NoTx EXCEPT !.kind = "recover", !.entry = 1, !.step = "entries",
                           !.draft = acceptances]
    BY <1>3 DEF Start
  <2>2. tx'.kind = "recover" /\ tx'.entry = 1 /\ tx'.base = {} /\ tx'.draft = acceptances
    BY <2>1 DEF NoTx
  <2>3. \A t \in Tasks : acceptances[t] # None => acceptances[t] \in Passed(t)'
    BY PassedGrows DEF UploadInvariant, Backing
  <2>4. \A t \in Tasks : tx'.draft[t] # None => tx'.draft[t] \in Passed(t)'
    BY <2>2, <2>3
  <2> QED BY <2>2, <2>4 DEF TxFine, DraftFine, Commit
<1>4. CASE RecoverEntry
  BY <1>4, RecoverEntryFine
<1>5. ASSUME NEW t \in Tasks, RequestReview(t) PROVE TxFine'
  <2>1. PICK c : c = Tip(t)
    OBVIOUS
  <2>2. tx' = [NoTx EXCEPT !.kind = "mirror", !.task = t, !.commit = c, !.step = "intent"]
    BY <1>5, <2>1 DEF RequestReview
  <2>3. tx'.kind = "mirror" /\ tx'.base = {} /\ tx'.entry = 0
    BY <2>2 DEF NoTx
  <2> QED BY <2>3 DEF TxFine, Commit
<1>6. ASSUME NEW p \in Presses, BeginMerge(p) PROVE TxFine'
  BY <1>6, BeginMergeFine
<1>7. CASE UNCHANGED vars
  BY <1>1, <1>7 DEF vars
<1> QED BY <1>1, <1>2, <1>3, <1>4, <1>5, <1>6, <1>7, TxWritten

LEMMA AcceptancesStay ==
    ASSUME BrokerInvariant, UploadInvariant, [Next]_vars
    PROVE  \A t \in Tasks : acceptances'[t] # None => acceptances'[t] \in Passed(t)'
<1>0. /\ \A t \in Tasks : acceptances[t] # None => acceptances[t] \in Passed(t)
      /\ DOMAIN acceptances = Tasks
  BY DEF UploadInvariant, Backing, BrokerInvariant, Types
<1>1. CASE acceptances' = acceptances
  BY <1>0, <1>1, PassedGrows
<1>2. CASE MergeCommit
  <2>1. PICK u, c : u = tx.task /\ c = tx.commit
    OBVIOUS
  <2>2. acceptances' = [acceptances EXCEPT ![u] = c] /\ c \in Passed(u)
    BY <1>2, <2>1 DEF MergeCommit, UploadInvariant, Backing
  <2>3. \A t \in Tasks : acceptances'[t] = IF t = u THEN c ELSE acceptances[t]
    BY <1>0, <2>2
  <2>4. \A t \in Tasks : acceptances'[t] # None => acceptances'[t] \in Passed(t)
    BY <1>0, <2>2, <2>3
  <2>5. \A t \in Tasks : Passed(t) \subseteq Passed(t)'
    BY PassedGrows
  <2> QED BY <2>4, <2>5
<1>3. CASE RecoverCommit
  <2>1. PICK draft : draft = tx.draft
    OBVIOUS
  <2>2. acceptances' = draft /\ \A t \in Tasks : draft[t] # None => draft[t] \in Passed(t)
    BY <1>3, <2>1 DEF RecoverCommit, UploadInvariant, Backing
  <2>3. \A t \in Tasks : draft[t] # None => draft[t] \in Passed(t)'
    BY <2>2, PassedGrows
  <2> QED BY <2>2, <2>3
<1>4. CASE UNCHANGED vars
  BY <1>1, <1>4 DEF vars, board
<1> QED BY <1>1, <1>2, <1>3, <1>4, AcceptancesWritten

LEMMA BackingStays ==
    ASSUME BrokerInvariant, UploadInvariant, [Next]_vars
    PROVE  Written' /\ Backing'
<1>1. journal' \in Seq(Entry) /\ JournalFine' /\ TxFine'
  BY JournalStays, TxStays
<1>2. Written'
  BY <1>1 DEF Written, TxFine
<1>3. \A t \in Tasks : /\ releases'[t].head # None => releases'[t].head \in Passed(t)'
                       /\ releases'[t].status # "none" => releases'[t].head # None
                       /\ decisions'[t] # None => releases'[t].head # None
  <2>1. ASSUME NEW t \in Tasks
        PROVE  /\ releases'[t].head # None => releases'[t].head \in Passed(t)'
               /\ releases'[t].status # "none" => releases'[t].head # None
               /\ decisions'[t] # None => releases'[t].head # None
    BY ReleasesStay, AnswersStay, PassedGrows DEF ReleaseStays, AnswerFine
  <2> QED BY <2>1
<1>4. \A i \in DOMAIN journal' :
          journal'[i].op = "accept" => journal'[i].target \in (Passed(journal[i].task))'
  BY <1>1 DEF JournalFine, EntryFine
<1> QED BY <1>1, <1>2, <1>3, <1>4, AcceptancesStay DEF Backing, TxFine, DraftFine

\* What find_commit finds holds what the task passed.
LEMMA FindCommitBacked ==
    ASSUME BrokerInvariant, UploadInvariant, NEW t \in Tasks, Accepted(t), FindCommit(t) # None
    PROVE  FindCommit(t) \in Commit /\ Backed(t, FindCommit(t))
<1>1. decisions[t] # None
  BY DEF Accepted
<1>2. decisions[t].head = releases[t].head /\ releases[t].head \in Passed(t)
  BY <1>1 DEF BrokerInvariant, Heads, UploadInvariant, Backing
<1>3. Passed(t) \subseteq Commit
  BY PassedCommits
<1>4. CASE acceptances[t] # None /\ acceptances[t] \subseteq Main
  <2>1. FindCommit(t) = acceptances[t] /\ acceptances[t] \in Passed(t)
    BY <1>4 DEF FindCommit, UploadInvariant, Backing
  <2> QED BY <1>3, <2>1 DEF Backed
<1>5. CASE ~(acceptances[t] # None /\ acceptances[t] \subseteq Main)
  <2> DEFINE head == decisions[t].head
             oldest == Min({n \in DOMAIN main : head \subseteq main[n]})
  <2>1. head \subseteq Main /\ FindCommit(t) = main[oldest]
    BY <1>5 DEF FindCommit
  <2>2. main \in Seq(Commit) \ {<<>>}
    BY DEF BrokerInvariant, Types
  <2>3. Len(main) \in DOMAIN main /\ Main = main[Len(main)]
    BY <2>2, Lasts DEF Main
  <2>4. oldest \in DOMAIN main /\ head \subseteq main[oldest]
    BY <2>1, <2>2, <2>3, OldestHolder
  <2> HIDE DEF oldest
  <2>5. main[oldest] \in Commit
    BY <2>2, <2>4
  <2> QED BY <1>2, <2>1, <2>4, <2>5 DEF Backed
<1> QED BY <1>4, <1>5

\* The destination loses nothing.
LEMMA RemoteGrows ==
    ASSUME BrokerInvariant, UploadInvariant, [Next]_vars
    PROVE  remote \subseteq remote' /\ remote' \in Commit /\ landing' \subseteq Commit
<1>0. remote \in Commit /\ landing \subseteq Commit
  BY DEF UploadInvariant, Queued
<1>1. uploader.phase = "push" => uploader.commit \in Commit
  BY DEF UploadInvariant, Uploads
<1>2. remote \subseteq remote' /\ remote' \in Commit
  <2>1. CASE UNCHANGED remote
    BY <1>0, <2>1
  <2>2. CASE UploadPush
    BY <1>0, <1>1, <2>2 DEF UploadPush
  <2>3. ASSUME NEW c \in landing, Land(c) PROVE remote \subseteq remote' /\ remote' \in Commit
    BY <1>0, <2>3 DEF Land
  <2>4. ASSUME NEW o \in Others, OtherPush(o) PROVE remote \subseteq remote' /\ remote' \in Commit
    <3>1. <<o, 1>> \in Change
      BY DEF Change
    <3> QED BY <1>0, <2>4, <3>1 DEF OtherPush, Commit
  <2>5. CASE UNCHANGED vars
    BY <1>0, <2>5 DEF vars, upload
  <2> QED BY <2>1, <2>2, <2>3, <2>4, <2>5, RemoteWritten
<1>3. landing' \subseteq Commit
  <2>1. CASE UNCHANGED landing
    BY <1>0, <2>1
  <2>2. CASE UploadPush
    BY <1>0, <1>1, <2>2 DEF UploadPush
  <2>3. ASSUME NEW c \in landing, Land(c) PROVE landing' \subseteq Commit
    BY <1>0, <2>3 DEF Land
  <2>4. CASE Die
    BY <1>0, <1>1, <2>4 DEF Die
  <2>5. CASE UNCHANGED vars
    BY <1>0, <2>5 DEF vars, upload
  <2> QED BY <2>1, <2>2, <2>3, <2>4, <2>5, LandingWritten
<1> QED BY <1>2, <1>3

\* The upload thread works on what it has found.
Working(up) ==
    /\ up.task \in Tasks /\ up.commit \in Commit
    /\ Backed(up.task, up.commit)
UploaderFine ==
    /\ uploader \in Uploader
    /\ uploader.phase \in {"found", "push", "save"} => Working(uploader)
    /\ uploader.phase = "save" /\ uploader.outcome = "uploaded" => uploader.commit \subseteq remote

LEMMA UploaderNow == ASSUME UploadInvariant PROVE UploaderFine
BY DEF UploadInvariant, Queued, Uploads, UploaderFine, Working

\* The thread waits, or goes on with the same commit.
LEMMA UploaderWaits ==
    ASSUME uploader' \in Uploader, uploader'.phase \in {"take", "next"}
    PROVE  UploaderFine'
BY DEF UploaderFine

LEMMA UploaderGoesOn ==
    ASSUME BrokerInvariant, UploadInvariant, [Next]_vars,
           uploader' \in Uploader,
           uploader.phase \in {"found", "push", "save"},
           uploader'.task = uploader.task, uploader'.commit = uploader.commit,
           uploader'.phase = "save" /\ uploader'.outcome = "uploaded" =>
               uploader.commit \subseteq remote'
    PROVE  UploaderFine'
<1>1. PICK u, c : u = uploader.task /\ c = uploader.commit
  OBVIOUS
<1>2. u \in Tasks /\ c \in Commit /\ Backed(u, c)
  BY <1>1, UploaderNow DEF UploaderFine, Working
<1>3. \E b \in Passed(u)' : b \subseteq c
  BY <1>2, BackedStays
<1>4. u = uploader'.task /\ c = uploader'.commit
  BY <1>1
<1>5. Working(uploader)'
  BY <1>2, <1>3, <1>4 DEF Working, Backed, Passed
<1> QED BY <1>1, <1>5 DEF UploaderFine

LEMMA NoUploaderType == NoUploader \in Uploader /\ NoUploader.phase = "take"
BY DEF NoUploader, Uploader, MaybeCommit, Outcomes

LEMMA WakeFine ==
    ASSUME BrokerInvariant, UploadInvariant, [Next]_vars, NEW all \in BOOLEAN, Wake(all)
    PROVE  UploaderFine'
<1>0. UploaderFine /\ remote \subseteq remote'
  BY UploaderNow, RemoteGrows
<1>1. CASE uploader.on
  <2>1. uploader' = [uploader EXCEPT !.again = TRUE, !.all = uploader.all \/ all]
    BY <1>1 DEF Wake, Woken
  <2>2. uploader.all \/ all \in BOOLEAN
    OBVIOUS
  <2>3. /\ uploader' \in Uploader
        /\ uploader'.task = uploader.task /\ uploader'.commit = uploader.commit
        /\ uploader'.phase = uploader.phase /\ uploader'.outcome = uploader.outcome
    BY <1>0, <2>1, <2>2 DEF UploaderFine, Uploader
  <2>4. CASE uploader.phase \in {"found", "push", "save"}
    BY <1>0, <2>3, <2>4, UploaderGoesOn DEF UploaderFine
  <2>5. CASE uploader.phase \notin {"found", "push", "save"}
    BY <2>3, <2>5 DEF UploaderFine
  <2> QED BY <2>4, <2>5
<1>2. CASE ~uploader.on
  <2>1. uploader' = [NoUploader EXCEPT !.on = TRUE, !.all = all]
    BY <1>2 DEF Wake, Woken
  <2>2. uploader' \in Uploader /\ uploader'.phase = "take"
    BY <2>1, NoUploaderType DEF Uploader, NoUploader
  <2> QED BY <2>2, UploaderWaits
<1> QED BY <1>1, <1>2

LEMMA UploaderStays ==
    ASSUME BrokerInvariant, UploadInvariant, [Next]_vars
    PROVE  UploaderFine'
<1>0. /\ UploaderFine /\ uploader \in Uploader /\ uploader.queue \in Seq(Tasks)
      /\ remote \subseteq remote'
  BY UploaderNow, RemoteGrows DEF UploaderFine, Uploader
<1>1. CASE UNCHANGED uploader
  <2>1. CASE uploader.phase \in {"found", "push", "save"}
    BY <1>0, <1>1, <2>1, UploaderGoesOn DEF UploaderFine
  <2>2. CASE uploader.phase \notin {"found", "push", "save"}
    BY <1>0, <1>1, <2>2 DEF UploaderFine
  <2> QED BY <2>1, <2>2
<1>2. CASE Die
  <2>1. uploader' = NoUploader
    BY <1>2 DEF Die
  <2> QED BY <2>1, NoUploaderType, UploaderWaits
<1>3. CASE UploadTake
  <2>1. PICK order \in UploadOrder(Due(uploader.all)) :
            uploader' = [uploader EXCEPT !.again = FALSE, !.all = FALSE, !.phase = "next",
                                         !.queue = order]
    BY <1>3 DEF UploadTake
  <2>2. order \in Seq(Tasks)
    BY OrderType DEF Due
  <2>3. uploader' \in Uploader /\ uploader'.phase = "next"
    BY <1>0, <2>1, <2>2 DEF Uploader
  <2> QED BY <2>3, UploaderWaits
<1>4. CASE UploadNext
  <2>1. uploader.queue # <<>> /\ uploader.queue[1] \in Tasks /\ Tail(uploader.queue) \in Seq(Tasks)
    BY <1>0, <1>4 DEF UploadNext
  <2>2. PICK u, c : u = uploader.queue[1] /\ c = FindCommit(uploader.queue[1])
    OBVIOUS
  <2>3. CASE uploader' = [uploader EXCEPT !.queue = Tail(@)]
    <3>1. uploader' \in Uploader /\ uploader'.phase = "next"
      BY <1>0, <1>4, <2>1, <2>3 DEF Uploader, UploadNext
    <3> QED BY <3>1, UploaderWaits
  <2>4. CASE uploader' # [uploader EXCEPT !.queue = Tail(@)]
    <3>1. /\ Accepted(u) /\ c # None
          /\ uploader' = [uploader EXCEPT !.queue = Tail(@), !.task = u, !.commit = c,
                                          !.phase = "found"]
      BY <1>4, <2>2, <2>4 DEF UploadNext
    <3>2. u \in Tasks /\ c \in Commit /\ Backed(u, c)
      BY <2>1, <2>2, <3>1, FindCommitBacked
    <3>3. \E b \in Passed(u)' : b \subseteq c
      BY <3>2, BackedStays
    <3>4. /\ uploader' \in Uploader /\ uploader'.phase = "found"
          /\ u = uploader'.task /\ c = uploader'.commit
      BY <1>0, <2>1, <3>1, <3>2 DEF Uploader, MaybeCommit
    <3>5. Working(uploader)'
      BY <3>2, <3>3, <3>4 DEF Working, Backed, Passed
    <3> QED BY <3>4, <3>5 DEF UploaderFine
  <2> QED BY <2>3, <2>4
<1>5. CASE UploadMark
  <2>1. uploader.phase = "found"
    BY <1>5 DEF UploadMark
  <2>2. CASE uploader' = [uploader EXCEPT !.phase = "push"]
    <3>1. /\ uploader' \in Uploader /\ uploader'.phase = "push"
          /\ uploader'.task = uploader.task /\ uploader'.commit = uploader.commit
      BY <1>0, <2>2 DEF Uploader
    <3> QED BY <2>1, <3>1, UploaderGoesOn
  <2>3. CASE uploader' = [uploader EXCEPT !.phase = "next", !.task = None, !.commit = None]
    <3>1. uploader' \in Uploader /\ uploader'.phase = "next"
      BY <1>0, <2>3 DEF Uploader, MaybeCommit
    <3> QED BY <3>1, UploaderWaits
  <2> QED BY <1>5, <2>2, <2>3 DEF UploadMark
<1>6. CASE UploadPush
  <2>1. uploader.phase = "push"
    BY <1>6 DEF UploadPush
  <2>2. CASE uploader' = [uploader EXCEPT !.phase = "save", !.outcome = "failed"]
    <3>1. /\ uploader' \in Uploader /\ uploader'.phase = "save" /\ uploader'.outcome = "failed"
          /\ uploader'.task = uploader.task /\ uploader'.commit = uploader.commit
      BY <1>0, <2>2 DEF Uploader, Outcomes
    <3> QED BY <2>1, <3>1, UploaderGoesOn
  <2>3. CASE uploader' # [uploader EXCEPT !.phase = "save", !.outcome = "failed"]
    <3>1. PICK o : o = Outcome(uploader.commit)
      OBVIOUS
    <3>2. /\ uploader' = [uploader EXCEPT !.phase = "save", !.outcome = o]
          /\ remote' = IF remote \subseteq uploader.commit THEN uploader.commit ELSE remote
      BY <1>6, <2>3, <3>1 DEF UploadPush
    <3>3. o \in Outcomes /\ (o = "uploaded" => uploader.commit \subseteq remote')
      BY <3>1, <3>2 DEF Outcome, Outcomes
    <3>4. /\ uploader' \in Uploader /\ uploader'.phase = "save" /\ uploader'.outcome = o
          /\ uploader'.task = uploader.task /\ uploader'.commit = uploader.commit
      BY <1>0, <3>2, <3>3 DEF Uploader
    <3> QED BY <2>1, <3>3, <3>4, UploaderGoesOn
  <2> QED BY <2>2, <2>3
<1>7. CASE UploadSave
  <2>1. uploader' = [uploader EXCEPT !.phase = "next", !.task = None, !.commit = None,
                                     !.outcome = "none"]
    BY <1>7 DEF UploadSave
  <2>2. uploader' \in Uploader /\ uploader'.phase = "next"
    BY <1>0, <2>1 DEF Uploader, MaybeCommit, Outcomes
  <2> QED BY <2>2, UploaderWaits
<1>8. CASE UploadEnd
  <2>1. CASE uploader' = NoUploader
    BY <2>1, NoUploaderType, UploaderWaits
  <2>2. CASE uploader' = [uploader EXCEPT !.phase = "take"]
    <3>1. uploader' \in Uploader /\ uploader'.phase = "take"
      BY <1>0, <2>2 DEF Uploader
    <3> QED BY <3>1, UploaderWaits
  <2> QED BY <1>8, <2>1, <2>2 DEF UploadEnd
<1>9. CASE RecoverCommit
  <2>1. Wake(TRUE)
    BY <1>9 DEF RecoverCommit
  <2> QED BY <2>1, WakeFine
<1>10. ASSUME NEW p \in Presses, FinishPress(p) \/ FailMerge(p) \/ VoidAccept(p)
       PROVE  UploaderFine'
  <2>1. Wake(FALSE)
    BY <1>10 DEF FinishPress, FailMerge, VoidAccept
  <2> QED BY <2>1, WakeFine
<1>11. ASSUME NEW t \in Tasks, UploadRetry(t)
       PROVE  UploaderFine'
  <2>1. Wake(FALSE)
    BY <1>11 DEF UploadRetry
  <2> QED BY <2>1, WakeFine
<1>12. CASE UNCHANGED vars
  BY <1>1, <1>12 DEF vars, upload
<1> QED BY <1>1, <1>2, <1>3, <1>4, <1>5, <1>6, <1>7, <1>8, <1>9, <1>10, <1>11, <1>12,
           UploaderWritten

\* What an answer reports as uploaded is at the destination.
UploadedNow(t) == decisions[t] # None /\ decisions[t].upload = "uploaded"

LEMMA ReportsStay ==
    ASSUME BrokerInvariant, UploadInvariant, [Next]_vars, NEW t \in Tasks, UploadedNow(t)'
    PROVE  Backed(t, remote)'
<1>0. Types /\ remote \subseteq remote'
  BY RemoteGrows DEF BrokerInvariant
<1>1. CASE UploadedNow(t)
  <2>1. Backed(t, remote)
    BY <1>1 DEF UploadInvariant, Uploads, UploadedNow
  <2>2. PICK b \in Passed(t) : b \subseteq remote
    BY <2>1 DEF Backed
  <2>3. b \in Passed(t)'
    BY PassedGrows
  <2> QED BY <1>0, <2>2, <2>3 DEF Backed
<1>2. ASSUME NEW u, NEW d, decisions' = [decisions EXCEPT ![u] = d], d = None \/ d.upload # "uploaded"
      PROVE  UploadedNow(t)
  BY <1>0, <1>2 DEF UploadedNow, Types
<1>3. ASSUME NEW u, decisions[u] # None, NEW merge, decisions' = [decisions EXCEPT ![u].merge = merge]
      PROVE  UploadedNow(t)
  <2>1. CASE u = t
    <3>1. decisions'[t] = [decisions[t] EXCEPT !.merge = merge] /\ IsDecision(decisions[t])
      BY <1>0, <1>3, <2>1 DEF Types
    <3>2. decisions'[t].upload = decisions[t].upload
      BY <3>1 DEF IsDecision
    <3> QED BY <1>3, <2>1, <3>2 DEF UploadedNow
  <2>2. CASE u # t
    BY <1>0, <1>3, <2>2 DEF UploadedNow, Types
  <2> QED BY <2>1, <2>2
<1>4. ASSUME NEW u, decisions[u] # None, NEW outcome,
             decisions' = [decisions EXCEPT ![u].upload = outcome]
      PROVE  UploadedNow(t) \/ (u = t /\ outcome = "uploaded")
  <2>1. CASE u = t
    <3>1. decisions'[t] = [decisions[t] EXCEPT !.upload = outcome] /\ IsDecision(decisions[t])
      BY <1>0, <1>4, <2>1 DEF Types
    <3>2. decisions'[t].upload = outcome
      BY <3>1 DEF IsDecision
    <3> QED BY <2>1, <3>2 DEF UploadedNow
  <2>2. CASE u # t
    BY <1>0, <1>4, <2>2 DEF UploadedNow, Types
  <2> QED BY <2>1, <2>2
<1>5. CASE decisions' = decisions
  BY <1>1, <1>5 DEF UploadedNow
<1>6. CASE RecordRelease
  BY <1>1, <1>2, <1>5, <1>6 DEF RecordRelease
<1>7. ASSUME NEW p \in Presses, NEW u \in Tasks, Accept(p, u) PROVE Backed(t, remote)'
  <2> DEFINE d == [decision |-> "accepted", merge |-> "none", at |-> NextAccept,
                   head |-> releases[u].head, upload |-> "pending"]
  <2>1. decisions' = decisions \/ decisions' = [decisions EXCEPT ![u] = d]
    BY <1>7 DEF Accept
  <2>2. d.upload # "uploaded"
    OBVIOUS
  <2> HIDE DEF d
  <2> QED BY <1>1, <1>2, <1>5, <2>1, <2>2
<1>8. ASSUME NEW u \in Tasks, Reject(u) PROVE Backed(t, remote)'
  <2> DEFINE d == [decision |-> "not_accepted", merge |-> "none", at |-> 0,
                   head |-> releases[u].head, upload |-> "none"]
  <2>1. decisions' = [decisions EXCEPT ![u] = d] /\ d.upload # "uploaded"
    BY <1>8 DEF Reject
  <2> HIDE DEF d
  <2> QED BY <1>1, <1>2, <2>1
<1>9. ASSUME NEW p \in Presses, FinishPress(p) \/ FailMerge(p) PROVE Backed(t, remote)'
  <2>1. \/ decisions' = decisions
        \/ /\ decisions[press[p].task] # None
           /\ \E merge : decisions' = [decisions EXCEPT ![press[p].task].merge = merge]
    BY <1>9 DEF FinishPress, FailMerge, Accepted
  <2> QED BY <1>1, <1>3, <1>5, <2>1
<1>10. ASSUME NEW u, Void(u) PROVE Backed(t, remote)'
  BY <1>1, <1>2, <1>10 DEF Void
<1>11. ASSUME NEW p \in Presses, VoidAccept(p) PROVE Backed(t, remote)'
  BY <1>10, <1>11 DEF VoidAccept
<1>12. ASSUME NEW u \in Tasks, Reconcile(u) PROVE Backed(t, remote)'
  BY <1>10, <1>12 DEF Reconcile
<1>13. CASE UploadMark
  <2>1. \/ decisions' = decisions
        \/ /\ decisions[uploader.task] # None
           /\ decisions' = [decisions EXCEPT ![uploader.task].upload = "running"]
    BY <1>13 DEF UploadMark
  <2> QED BY <1>1, <1>4, <1>5, <2>1
<1>14. ASSUME NEW u \in Tasks, UploadRetry(u) PROVE Backed(t, remote)'
  <2>1. PICK outcome : outcome = "pending"
    OBVIOUS
  <2>2. decisions[u] # None /\ decisions' = [decisions EXCEPT ![u].upload = outcome]
    BY <1>14, <2>1 DEF UploadRetry, Accepted
  <2>3. UploadedNow(t) \/ (u = t /\ outcome = "uploaded")
    BY <1>4, <2>2
  <2>4. outcome # "uploaded"
    BY <2>1
  <2> QED BY <1>1, <2>3, <2>4
<1>15. CASE UploadSave
  <2>1. \/ decisions' = decisions
        \/ /\ decisions[uploader.task] # None
           /\ decisions' = [decisions EXCEPT ![uploader.task].upload = uploader.outcome]
    BY <1>15 DEF UploadSave
  <2>2. uploader.phase = "save"
    BY <1>15 DEF UploadSave
  <2>3. CASE uploader.task = t /\ uploader.outcome = "uploaded"
    <3>1. Backed(t, uploader.commit) /\ uploader.commit \subseteq remote
      BY <2>2, <2>3 DEF UploadInvariant, Uploads
    <3>2. PICK b \in Passed(t) : b \subseteq uploader.commit
      BY <3>1 DEF Backed
    <3>3. b \in Passed(t)' /\ b \subseteq remote'
      BY <1>0, <3>1, <3>2, PassedGrows
    <3> QED BY <3>3 DEF Backed
  <2> QED BY <1>1, <1>4, <1>5, <2>1, <2>3
<1>16. CASE UNCHANGED vars
  BY <1>5, <1>16 DEF vars, board
<1> QED BY <1>5, <1>6, <1>7, <1>8, <1>9, <1>11, <1>12, <1>13, <1>14, <1>15, <1>16,
           DecisionsWritten

LEMMA UploadsStay ==
    ASSUME BrokerInvariant, UploadInvariant, [Next]_vars
    PROVE  Queued' /\ Uploads'
<1>1. Queued'
  BY UploaderStays, RemoteGrows DEF Queued, UploaderFine
<1>2. \A t \in Tasks : (decisions[t] # None /\ decisions[t].upload = "uploaded" => Backed(t, remote))'
  BY ReportsStay DEF UploadedNow
<1>3. Uploads'
  BY <1>2, UploaderStays DEF Uploads, UploaderFine, Working
<1> QED BY <1>1, <1>3

\* The bounds, the passes under way and the application.
LEMMA RunningStays ==
    ASSUME Unmixed, BrokerInvariant, UploadInvariant, [Next]_vars
    PROVE  Running'
<1>0. /\ behind \in BOOLEAN /\ edited \in BOOLEAN /\ troubles \in 0..MaxTroubles
      /\ owed \subseteq Tasks /\ IsPass(coord) /\ IsPass(check) /\ check.base \in Commit
      /\ app \in {"up", "down", "recovering"} /\ (app # "up" => Tasks = {Recorded})
  BY DEF UploadInvariant, Running
<1>1. behind' \in BOOLEAN /\ edited' \in BOOLEAN
  <2>1. CASE Coordinator \/ RecordRelease
    BY <1>0, <2>1 DEF Coordinator, CoordBegin, CoordCheck, CoordRoute, RecordRelease, git, board,
                preparing, upload
  <2>2. CASE Transaction
    BY <1>0, <2>2 DEF Transaction, SealStep, SealDone, SealCommit, MoveMain, Materialize, MergeDone,
                MergeCommit, RecoverEntry, RecoverCommit, RecoverSeal, RecoverMerge, git,
                board, preparing, upload
  <2>3. CASE Answering
    BY <1>0, <2>3 DEF Answering, BeginMerge, FinishPress, FailMerge, VoidAccept, git, board,
                preparing, upload
  <2>4. CASE Uploading
    BY <1>0, <2>4 DEF Uploading, UploadTake, UploadNext, UploadMark, UploadPush, UploadSave,
                UploadEnd, git, board, preparing, upload
  <2>5. CASE Surroundings
    BY <1>0, <2>5 DEF Surroundings, OwnerCommits, OwnerEdits, OwnerUndoes, Die, Start, Land,
                OtherPush, git, board, preparing, upload
  <2>6. ASSUME NEW u \in Tasks,
               \/ Work(u) \/ Reintegrate(u) \/ RequestReview(u) \/ Verdict(u)
               \/ CheckRelease(u) \/ Reject(u) \/ Reconcile(u) \/ UploadRetry(u)
               \/ \E p \in Presses : Accept(p, u)
        PROVE  behind' \in BOOLEAN /\ edited' \in BOOLEAN
    BY <1>0, <2>6 DEF Work, Reintegrate, RequestReview, Verdict, CheckRelease, Reject, Reconcile,
                UploadRetry, Accept, git, board, preparing, upload
  <2>7. CASE UNCHANGED vars
    BY <1>0, <2>7 DEF vars, git, board, preparing, upload
  <2> QED BY <2>1, <2>2, <2>3, <2>4, <2>5, <2>6, <2>7 DEF Next
<1>2. troubles' = troubles \/ (troubles < MaxTroubles /\ troubles' = troubles + 1)
  <2>1. CASE Coordinator \/ RecordRelease
    BY <2>1 DEF Coordinator, CoordBegin, CoordCheck, CoordRoute, RecordRelease, git, board,
                preparing, upload, Trouble
  <2>2. CASE Transaction
    BY <2>2 DEF Transaction, SealStep, SealDone, SealCommit, MoveMain, Materialize, MergeDone,
                MergeCommit, RecoverEntry, RecoverCommit, git, board, preparing, upload,
                Trouble
  <2>3. CASE Answering
    BY <2>3 DEF Answering, BeginMerge, FinishPress, FailMerge, VoidAccept, git, board,
                preparing, upload, Trouble
  <2>4. CASE Uploading
    BY <2>4 DEF Uploading, UploadTake, UploadNext, UploadMark, UploadPush, UploadSave,
                UploadEnd, git, board, preparing, upload, Trouble
  <2>5. CASE Surroundings
    BY <2>5 DEF Surroundings, OwnerCommits, OwnerEdits, OwnerUndoes, Die, Start, Land,
                OtherPush, git, board, preparing, upload, Trouble
  <2>6. ASSUME NEW u \in Tasks,
               \/ Work(u) \/ Reintegrate(u) \/ RequestReview(u) \/ Verdict(u)
               \/ CheckRelease(u) \/ Reject(u) \/ Reconcile(u) \/ UploadRetry(u)
               \/ \E p \in Presses : Accept(p, u)
        PROVE  troubles' = troubles \/ (troubles < MaxTroubles /\ troubles' = troubles + 1)
    BY <2>6 DEF Work, Reintegrate, RequestReview, Verdict, CheckRelease, Reject, Reconcile,
                UploadRetry, Accept, git, board, preparing, upload, Trouble
  <2>7. CASE UNCHANGED vars
    BY <2>7 DEF vars, git, board, preparing, upload, Trouble
  <2> QED BY <2>1, <2>2, <2>3, <2>4, <2>5, <2>6, <2>7 DEF Next
<1>3. owed' \subseteq Tasks
  <2>1. CASE Coordinator \/ RecordRelease
    BY <1>0, <2>1 DEF Coordinator, CoordBegin, CoordCheck, CoordRoute, RecordRelease, git, board,
                preparing, upload, IsPass
  <2>2. CASE Transaction
    BY <1>0, <2>2 DEF Transaction, SealStep, SealDone, SealCommit, MoveMain, Materialize, MergeDone,
                MergeCommit, RecoverEntry, RecoverCommit, git, board, preparing, upload, IsPass
  <2>3. ASSUME NEW p \in Presses, BeginMerge(p) \/ FinishPress(p) \/ FailMerge(p) \/ VoidAccept(p)
        PROVE  owed' \subseteq Tasks
    <3>1. press[p].stale \subseteq Tasks /\ (press[p].step = "void" => press[p].task \in Tasks)
      BY DEF BrokerInvariant, Types, IsPress, UploadInvariant, Pressed
    <3> QED BY <1>0, <2>3, <3>1 DEF BeginMerge, FinishPress, FailMerge, VoidAccept, Void, board
  <2>4. CASE Uploading
    BY <1>0, <2>4 DEF Uploading, UploadTake, UploadNext, UploadMark, UploadPush, UploadSave,
                UploadEnd, git, board, preparing, upload, IsPass
  <2>5. CASE Surroundings
    BY <1>0, <2>5 DEF Surroundings, OwnerCommits, OwnerEdits, OwnerUndoes, Die, Start, Land,
                OtherPush, git, board, preparing, upload, IsPass
  <2>6. ASSUME NEW u \in Tasks,
               \/ Work(u) \/ Reintegrate(u) \/ RequestReview(u) \/ Verdict(u)
               \/ CheckRelease(u) \/ Reject(u) \/ Reconcile(u) \/ UploadRetry(u)
               \/ \E p \in Presses : Accept(p, u)
        PROVE  owed' \subseteq Tasks
    BY <1>0, <2>6 DEF Work, Reintegrate, RequestReview, Verdict, CheckRelease, Reject, Reconcile,
                UploadRetry, Accept, Void, git, board, preparing, upload, IsPass
  <2>7. CASE UNCHANGED vars
    BY <1>0, <2>7 DEF vars, git, board, preparing, upload, IsPass
  <2> QED BY <2>1, <2>2, <2>3, <2>4, <2>5, <2>6, <2>7 DEF Next, Answering
<1>4. IsPass(coord')
  <2>1. IsPass(NoPass) /\ NoPass.step = "idle" /\ NoPass.base = {}
    BY DEF NoPass, IsPass
  <2>2. CASE coord' = coord \/ coord' = NoPass
    BY <1>0, <2>1, <2>2
  <2>3. ASSUME NEW t \in Tasks, CoordBegin(t) PROVE IsPass(coord')
    BY <2>3 DEF CoordBegin, IsPass
  <2>4. CASE CoordCheck
    <3>1. coord' = NoPass \/ (coord' = [coord EXCEPT !.step = "failed"] /\ coord.step = "checking")
      BY <2>4 DEF CoordCheck
    <3>2. CASE coord' = [coord EXCEPT !.step = "failed"] /\ coord.step = "checking"
      BY <1>0, <3>2 DEF IsPass
    <3> QED BY <2>2, <3>1, <3>2
  <2>5. CASE CoordRoute \/ Die
    BY <2>2, <2>5 DEF CoordRoute, Die
  <2>6. CASE UNCHANGED vars
    BY <2>2, <2>6 DEF vars, preparing
  <2> QED BY <2>2, <2>3, <2>4, <2>5, <2>6, CoordWritten
<1>7. IsPass(check') /\ check'.base \in Commit
  <2>1. IsPass(NoPass) /\ NoPass.base \in Commit
    BY DEF NoPass, IsPass, Commit
  <2>2. CASE check' = check \/ check' = NoPass
    BY <1>0, <2>1, <2>2
  <2>3. ASSUME NEW t \in Tasks, CheckRelease(t) PROVE IsPass(check') /\ check'.base \in Commit
    BY <2>3, MainType DEF CheckRelease, IsPass
  <2>4. CASE RecordRelease \/ Die
    BY <2>2, <2>4 DEF RecordRelease, Die
  <2>5. CASE UNCHANGED vars
    BY <2>2, <2>5 DEF vars, preparing
  <2> QED BY <2>2, <2>3, <2>4, <2>5, CheckWritten
<1>5. app' \in {"up", "down", "recovering"} /\ (app' # "up" => Tasks = {Recorded})
  <2>1. CASE Coordinator \/ RecordRelease
    BY <1>0, <2>1 DEF Coordinator, CoordBegin, CoordCheck, CoordRoute, RecordRelease, git, board,
                preparing, upload, Unmixed, Trouble
  <2>2. CASE Transaction
    BY <1>0, <2>2 DEF Transaction, SealStep, SealDone, SealCommit, MoveMain, Materialize, MergeDone,
                MergeCommit, RecoverEntry, RecoverCommit, git, board, preparing, upload,
                Unmixed, Trouble
  <2>3. CASE Answering
    BY <1>0, <2>3 DEF Answering, BeginMerge, FinishPress, FailMerge, VoidAccept, git, board,
                preparing, upload, Unmixed, Trouble
  <2>4. CASE Uploading
    BY <1>0, <2>4 DEF Uploading, UploadTake, UploadNext, UploadMark, UploadPush, UploadSave,
                UploadEnd, git, board, preparing, upload, Unmixed, Trouble
  <2>5. CASE Surroundings
    BY <1>0, <2>5 DEF Surroundings, OwnerCommits, OwnerEdits, OwnerUndoes, Die, Start, Land,
                OtherPush, git, board, preparing, upload, Unmixed, Trouble
  <2>6. ASSUME NEW u \in Tasks,
               \/ Work(u) \/ Reintegrate(u) \/ RequestReview(u) \/ Verdict(u)
               \/ CheckRelease(u) \/ Reject(u) \/ Reconcile(u) \/ UploadRetry(u)
               \/ \E p \in Presses : Accept(p, u)
        PROVE  app' \in {"up", "down", "recovering"} /\ (app' # "up" => Tasks = {Recorded})
    BY <1>0, <2>6 DEF Work, Reintegrate, RequestReview, Verdict, CheckRelease, Reject, Reconcile,
                UploadRetry, Accept, git, board, preparing, upload, Unmixed, Trouble
  <2>7. CASE UNCHANGED vars
    BY <1>0, <2>7 DEF vars, git, board, preparing, upload, Unmixed, Trouble
  <2> QED BY <2>1, <2>2, <2>3, <2>4, <2>5, <2>6, <2>7 DEF Next
<1>6. troubles' \in 0..MaxTroubles
  BY <1>0, <1>2, ReleaseAssumption
<1> QED BY <1>1, <1>3, <1>4, <1>5, <1>6, <1>7 DEF Running, IsPass

LEMMA PressedStays ==
    ASSUME BrokerInvariant, UploadInvariant, [Next]_vars
    PROVE  Pressed'
<1>0. /\ DOMAIN press = Presses
      /\ \A p \in Presses : /\ IsPress(press[p]) /\ (press[p].step = "accept" => press[p].task \in Tasks)
                            /\ press[p].step # "idle" => press[p].task \in Tasks
  BY DEF BrokerInvariant, Types, UploadInvariant, Pressed
<1>1. IsTx(tx) /\ (tx.kind = "accept" => tx.press \in Presses /\ press[tx.press].task \in Tasks)
  BY DEF BrokerInvariant, Types, UploadInvariant, Pressed
\* A press that moves on keeps its task.
<1>2. ASSUME NEW p \in Presses, NEW label, press[p].task \in Tasks, Step(p, label)
      PROVE  \A q \in Presses : /\ press'[q].step # "idle" => press'[q].task \in Tasks
                                /\ press'[q].task = press[q].task
  <2> DEFINE r == [press[p] EXCEPT !.step = label]
  <2>1. r.task = press[p].task
    BY <1>0 DEF IsPress
  <2>2. press' = [press EXCEPT ![p] = r]
    BY <1>2 DEF Step
  <2> HIDE DEF r
  <2>3. \A q \in Presses : press'[q] = IF q = p THEN r ELSE press[q]
    BY <1>0, <2>2
  <2> QED BY <1>0, <1>2, <2>1, <2>3
<1>3. ASSUME tx' = tx \/ tx' = NoTx \/ \E label : tx' = [tx EXCEPT !.step = label]
      PROVE  tx'.kind = "accept" => tx.kind = "accept" /\ tx'.press = tx.press
  BY <1>1, <1>3, NoTxFacts DEF IsTx
<1>4. CASE press' = press /\ (tx' = tx \/ tx' = NoTx \/ \E label : tx' = [tx EXCEPT !.step = label])
  BY <1>0, <1>1, <1>3, <1>4 DEF Pressed
<1>5. ASSUME NEW p \in Presses, press' = [press EXCEPT ![p] = IdlePress], tx' = tx, tx = NoTx
      PROVE  Pressed'
  <2>1. tx'.kind # "accept"
    BY <1>5, NoTxFacts
  <2>2. \A q \in Presses : press'[q] = IF q = p THEN IdlePress ELSE press[q]
    BY <1>0, <1>5
  <2> QED BY <1>0, <2>1, <2>2, IdleIsPress DEF Pressed
<1>6. ASSUME NEW p \in Presses, FinishPress(p) \/ FailMerge(p) \/ VoidAccept(p)
      PROVE  Pressed'
  BY <1>5, <1>6 DEF FinishPress, FailMerge, VoidAccept, Free
<1>7. ASSUME NEW p \in Presses, NEW t \in Tasks, Accept(p, t)
      PROVE  Pressed'
  <2> DEFINE r == [task |-> t, step |-> "accept", stale |-> {}]
  <2>1. press' = [press EXCEPT ![p] = r] /\ r.task \in Tasks /\ tx' = tx /\ tx = NoTx
    BY <1>7 DEF Accept, Free
  <2> HIDE DEF r
  <2>2. \A q \in Presses : press'[q] = IF q = p THEN r ELSE press[q]
    BY <1>0, <2>1
  <2>3. tx'.kind # "accept"
    BY <2>1, NoTxFacts
  <2> QED BY <1>0, <2>1, <2>2, <2>3 DEF Pressed
<1>8. ASSUME NEW p \in Presses, BeginMerge(p)
      PROVE  Pressed'
  <2>1. press[p].task \in Tasks /\ tx = NoTx /\ (\E label : Step(p, label))
    BY <1>0, <1>8 DEF BeginMerge, Free
  <2>2. \A q \in Presses : /\ press'[q].step # "idle" => press'[q].task \in Tasks
                           /\ press'[q].task = press[q].task
    BY <1>2, <2>1
  <2>3. CASE tx' = tx
    <3>1. tx'.kind # "accept"
      BY <2>1, <2>3, NoTxFacts
    <3> QED BY <2>2, <3>1 DEF Pressed
  <2>4. CASE tx' # tx
    <3>1. tx' = [NoTx EXCEPT !.kind = "accept", !.task = press[p].task, !.press = p,
                             !.commit = Newest(press[p].task).commit,
                             !.base = releases[press[p].task].base, !.step = "intent"]
      BY <1>8, <2>4 DEF BeginMerge
    <3>2. tx'.press = p
      BY <3>1 DEF NoTx
    <3> QED BY <2>1, <2>2, <3>2 DEF Pressed
  <2> QED BY <2>3, <2>4
<1>9. CASE MoveMain \/ Materialize
  <2>1. PICK p : p = tx.press
    OBVIOUS
  <2>2. tx.kind = "accept" /\ p \in Presses /\ press[p].task \in Tasks
    BY <1>1, <1>9, <2>1 DEF MoveMain, Materialize
  <2>3. CASE UNCHANGED press
    <3>1. tx' = tx \/ tx' = NoTx \/ \E label : tx' = [tx EXCEPT !.step = label]
      BY <1>9 DEF MoveMain, Materialize
    <3> QED BY <1>4, <2>3, <3>1
  <2>4. CASE ~UNCHANGED press
    <3>1. Step(p, "fail") /\ tx' = NoTx
      BY <1>9, <2>1, <2>4 DEF MoveMain, Materialize
    <3>2. tx'.kind # "accept"
      BY <3>1, NoTxFacts
    <3> QED BY <1>2, <2>2, <3>1, <3>2 DEF Pressed
  <2> QED BY <2>3, <2>4
<1>10. CASE MergeCommit
  <2>1. PICK p : p = tx.press
    OBVIOUS
  <2>2. tx.kind = "accept" /\ p \in Presses /\ press[p].task \in Tasks
    BY <1>1, <1>10, <2>1 DEF MergeCommit
  <2>3. PICK told : press' = [press EXCEPT ![p].step = "finish", ![p].stale = told]
    BY <1>10, <2>1 DEF MergeCommit
  <2> DEFINE r == [press[p] EXCEPT !.step = "finish", !.stale = told]
  <2>4. press' = [press EXCEPT ![p] = r]
    BY <1>0, <2>2, <2>3
  <2>5. r.task = press[p].task
    BY <1>0, <2>2 DEF IsPress
  <2> HIDE DEF r
  <2>6. \A q \in Presses : press'[q] = IF q = p THEN r ELSE press[q]
    BY <1>0, <2>4
  <2>7. tx'.kind # "accept"
    BY <1>10, NoTxFacts DEF MergeCommit
  <2> QED BY <1>0, <2>2, <2>5, <2>6, <2>7 DEF Pressed
<1>11. CASE Die
  <2>1. press' = [p \in Presses |-> IdlePress] /\ tx' = NoTx
    BY <1>11 DEF Die
  <2> QED BY <2>1, IdleIsPress, NoTxFacts DEF Pressed
<1>12. CASE press' = press
  <2>1. CASE tx' = tx
    BY <1>4, <1>12, <2>1
  <2>2. CASE SealStep \/ SealDone \/ SealCommit \/ MergeDone \/ RecoverCommit
    <3>1. tx' = tx \/ tx' = NoTx \/ \E label : tx' = [tx EXCEPT !.step = label]
      BY <2>2 DEF SealStep, CreateRef, SealDone, SealCommit, MergeDone, RecoverCommit
    <3> QED BY <1>4, <1>12, <3>1
  <2>3. CASE Start \/ RecoverEntry
    <3>1. tx'.kind # "accept"
      <4>1. CASE Start
        BY <4>1 DEF Start, NoTx
      <4>2. CASE RecoverEntry
        <5>1. /\ tx.kind = "recover"
              /\ \/ tx' = tx
                 \/ tx' = [tx EXCEPT !.entry = @ + 1]
                 \/ \E draft : tx' = [tx EXCEPT !.draft = draft]
          BY <4>2 DEF RecoverEntry, RecoverSeal, RecoverMerge, Unresolved
        <5>2. ASSUME NEW draft, tx' = [tx EXCEPT !.draft = draft] PROVE tx'.kind = tx.kind
          BY <1>1, <5>2 DEF IsTx
        <5>3. CASE tx' = tx \/ tx' = [tx EXCEPT !.entry = @ + 1]
          BY <1>1, <5>1, <5>3 DEF IsTx
        <5> QED BY <5>1, <5>2, <5>3
      <4> QED BY <2>3, <4>1, <4>2
    <3> QED BY <1>0, <1>12, <3>1 DEF Pressed
  <2>4. ASSUME NEW t \in Tasks, RequestReview(t) PROVE Pressed'
    <3>1. tx'.kind = "mirror"
      BY <2>4 DEF RequestReview, NoTx
    <3> QED BY <1>0, <1>12, <3>1 DEF Pressed
  <2>5. CASE UNCHANGED vars
    BY <2>1, <2>5 DEF vars
  <2> QED BY <1>8, <1>9, <1>10, <1>11, <2>1, <2>2, <2>3, <2>4, <2>5, TxWritten
<1>13. CASE UNCHANGED vars
  BY <1>12, <1>13 DEF vars
<1> QED BY <1>6, <1>7, <1>8, <1>9, <1>10, <1>11, <1>12, <1>13, PressWritten

LEMMA UploadInit == ASSUME Init PROVE UploadInvariant
<1>0. BrokerInvariant
  BY InitHolds
<1>1. Written
  <2>1. journal = <<>> /\ tx = NoTx
    BY DEF Init
  <2> QED BY <2>1 DEF Written, NoTx, Commit
<1>2. Answered
  <2>1. /\ \A t \in Tasks : decisions[t] = None /\ releases[t] = NoRelease
        /\ voided = [t \in Tasks |-> {}]
    BY DEF Init
  <2>2. voided \in [Tasks -> SUBSET Commit]
    BY <2>1
  <2> QED BY <2>1, <2>2 DEF Answered, NoRelease, MaybeCommit
<1>3. Queued
  BY NoUploaderType DEF Init, Queued, Commit
<1>4. Running
  <2>1. behind = FALSE /\ edited = FALSE /\ troubles = 0 /\ owed = {} /\ app = "up"
    BY DEF Init
  <2>2. coord = NoPass /\ check = NoPass
    BY DEF Init
  <2>3. IsPass(coord) /\ IsPass(check) /\ check.base \in Commit
    BY <2>2 DEF NoPass, IsPass, Commit
  <2>4. troubles \in 0..MaxTroubles
    <3>1. MaxTroubles \in Nat
      BY ReleaseAssumption
    <3> QED BY <2>1, <3>1
  <2> QED BY <2>1, <2>3, <2>4 DEF Running
<1>5. Pressed
  <2>1. tx.kind = "none" /\ \A p \in Presses : press[p] = IdlePress
    BY NoTxFacts DEF Init
  <2> QED BY <2>1, IdleIsPress DEF Pressed
<1>6. Backing
  <2>1. /\ \A t \in Tasks : decisions[t] = None /\ releases[t] = NoRelease /\ acceptances[t] = None
        /\ journal = <<>> /\ tx.kind = "none"
    BY NoTxFacts DEF Init
  <2> QED BY <2>1 DEF Backing, NoRelease
<1>7. Uploads
  <2>1. uploader.phase = "take" /\ \A t \in Tasks : decisions[t] = None
    BY NoUploaderType DEF Init
  <2> QED BY <2>1 DEF Uploads
<1> QED BY <1>1, <1>2, <1>3, <1>4, <1>5, <1>6, <1>7 DEF UploadInvariant

LEMMA UploadStepKept ==
    ASSUME Unmixed, BrokerInvariant, UploadInvariant, [Next]_vars
    PROVE  UploadInvariant'
BY AnsweredStays, BackingStays, UploadsStay, RunningStays, PressedStays DEF UploadInvariant

LEMMA UploadInvariantHolds == ASSUME Unmixed PROVE Spec => []UploadInvariant
<1>1. Init => UploadInvariant
  BY UploadInit
<1>2. BrokerInvariant /\ UploadInvariant /\ [Next]_vars => UploadInvariant'
  BY UploadStepKept
<1> QED BY <1>1, <1>2, BrokerInvariantHolds, PTL DEF Spec

\* Every variable has its shape.
LEMMA ShapesHold == ASSUME BrokerInvariant, UploadInvariant PROVE TypeOK
<1>1. /\ main \in Seq(Commit) /\ main # <<>> /\ {behind, edited} \subseteq BOOLEAN
      /\ DOMAIN branch = Tasks /\ \A t \in Tasks : branch[t] \in Seq(Commit) /\ branch[t] # <<>>
      /\ DOMAIN mirror = Tasks /\ \A t \in Tasks : mirror[t] \in Seq(Commit)
  BY DEF BrokerInvariant, Types, UploadInvariant, Running
<1>2. \A i \in DOMAIN journal : journal[i] \in Entry
  BY DEF UploadInvariant, Written
<1>3. \A t \in Tasks : \A i \in DOMAIN requests[t] :
          requests[t][i] \in [commit : Commit, status : {"open", "passed", "failed"}]
  <2>1. \A t \in Tasks : requests[t] \in Seq(Request)
    BY DEF BrokerInvariant, Types
  <2>2. \A t \in Tasks : \A i \in DOMAIN requests[t] : requests[t][i] \in Request
    BY <2>1
  <2> QED BY <2>2 DEF Request
<1>4. \A t \in Tasks : /\ releases[t].head \in MaybeCommit /\ releases[t].base \in MaybeCommit
                       /\ decisions[t] \in Decision \cup {None}
                       /\ voided[t] \subseteq Commit /\ acceptances[t] \in MaybeCommit
  <2>1. \A t \in Tasks : acceptances[t] \in MaybeCommit
    BY PassedCommits DEF UploadInvariant, Backing, MaybeCommit
  <2> QED BY <2>1 DEF UploadInvariant, Answered
<1>5. owed \subseteq Tasks /\ remote \in Commit /\ landing \subseteq Commit
  BY DEF UploadInvariant, Running, Queued
<1>6. tx.commit \in Commit /\ tx.base \in Commit /\ tx.entry \in Nat
  BY DEF BrokerInvariant, Types, IsTx, UploadInvariant, Written
<1>7. uploader.commit \in MaybeCommit /\ uploader.task \in Tasks \cup {None}
  BY DEF UploadInvariant, Queued, Uploader
<1>8. app \in {"up", "down", "recovering"} /\ troubles \in 0..MaxTroubles
  BY DEF UploadInvariant, Running
<1> QED BY <1>1, <1>2, <1>3, <1>4, <1>5, <1>6, <1>7, <1>8 DEF TypeOK

\* Of a task that passed one review only that commit has passed.
LEMMA OnePassed ==
    ASSUME BrokerInvariant, NEW t \in Tasks, ReleasedOnce(t), NEW b \in Passed(t), NEW c \in Passed(t)
    PROVE  b = c
<1> DEFINE T == {i \in DOMAIN requests[t] : requests[t][i].status = "passed"}
<1>1. requests[t] \in Seq(Request)
  BY DEF BrokerInvariant, Types
<1>2. T \subseteq 1..Len(requests[t]) /\ Len(requests[t]) \in Nat
  BY <1>1
<1>3. IsFiniteSet(T)
  <2>1. IsFiniteSet(1..Len(requests[t]))
    BY <1>2, FS_Interval
  <2> QED BY <1>2, <2>1, FS_Subset
<1>4. Cardinality(T) = 1
  BY DEF ReleasedOnce
<1>5. \E i : T = {i}
  <2> HIDE DEF T
  <2> QED BY <1>3, <1>4, FS_Singleton
<1> QED BY <1>5 DEF Passed

\* A release reported as uploaded is at the destination, whatever the queue, the
\* owner, the network and others at the destination did meanwhile, and whatever
\* died if the project has one task (upload_on_accept.py find_commit,
\* _attempt_push, _save_outcome).
THEOREM ReportedIsThere == ASSUME Unmixed PROVE Spec => []UploadedThere
<1>1. BrokerInvariant /\ UploadInvariant => UploadedThere
  <2> SUFFICES ASSUME BrokerInvariant, UploadInvariant,
                      NEW t \in Tasks, Accepted(t), decisions[t].upload = "uploaded", ReleasedOnce(t)
               PROVE  decisions[t].head \subseteq remote
    BY ShapesHold DEF UploadedThere
  <2>1. decisions[t] # None
    BY DEF Accepted
  <2>2. PICK b \in Passed(t) : b \subseteq remote
    BY <2>1 DEF UploadInvariant, Uploads, Backed
  <2>3. decisions[t].head = releases[t].head /\ releases[t].head \in Passed(t)
    BY <2>1 DEF BrokerInvariant, Heads, UploadInvariant, Backing
  <2> QED BY <2>2, <2>3, OnePassed
<1> QED BY <1>1, BrokerInvariantHolds, UploadInvariantHolds, PTL
=============================================================================
