---------------------------- MODULE TestMachine ----------------------------
(***************************************************************************)
(* The owner's test machine: the record a project keeps of it              *)
(* (harness/test_machine.py), the registry that reserves a machine for one *)
(* project, and the manager's Connect, Release and stops of it             *)
(* (harness/project_manager.py), with the stamps that evidence made on the *)
(* machine carries (harness/certified_execution.py).                       *)
(*                                                                         *)
(* A Connect request and a stop run in threads of one manager; each step   *)
(* here is what one of them does under one lock, or between two.  The      *)
(* manager may die at any of them: its threads, stop counts and cancel     *)
(* events are gone, records, pins and reservations stay.                   *)
(* Left out: what the ssh steps say (they end well or fail), damaged       *)
(* records, a rebuilt machine at the same address, heartbeats, and the     *)
(* announcement to the agents that follows a Connect.                      *)
(***************************************************************************)
EXTENDS Integers, FiniteSets

CONSTANTS
    Projects,
    Machines,
    Requests,       \* the threads of Connect requests
    Stoppers,       \* the threads of stops and Releases
    None,
    Overlapping,    \* a Connect may be asked for in the instant a stop begins
    MaxCalls,       \* bound: Connect requests
    MaxTroubles     \* bound: stops, refused keys, deaths and tool changes together

ASSUME TestMachineAssumption ==
    /\ None \notin Projects \cup Machines \cup Requests /\ IsFiniteSet(Stoppers)
    /\ Overlapping \in BOOLEAN
    /\ {MaxCalls, MaxTroubles} \subseteq Nat

VARIABLES
    record,         \* each project's descriptor
    locked,         \* who holds its lock over more than one step here
    pin,            \* the machine the published known_hosts names
    targets,        \* test_machine_targets.json
    manager,        \* the manager that runs, or ran last
    touched,        \* _machine_reconciled
    generation,     \* _machine_stop_generation
    job,            \* _machine_jobs: the request that runs
    cancelled,      \* requests whose cancel event is set
    request,        \* Connect requests
    stopper,        \* stops
    content,        \* how often the tools on each machine were changed
    evidence,       \* one certified command and its stamp
    calls, troubles \* bounds

manages == <<touched, generation, job, cancelled, request, stopper>>
bounds == <<calls, troubles>>
vars == <<record, locked, pin, targets, manager, manages, content, evidence, bounds>>

Blank == [there |-> FALSE, at |-> None, reauth |-> TRUE, by |-> 0, rev |-> 0, epoch |-> 0,
          seq |-> 0, keptSeq |-> -1, tools |-> 0, complete |-> TRUE]
NoTarget == [connected |-> None, pending |-> None]
Idle == [at |-> "idle", p |-> None, m |-> None, gen |-> 0, seq |-> 0]
Still == [at |-> "idle", p |-> None, kind |-> "stop", n |-> 0]
NoEvidence == [at |-> "none", p |-> None, stamp |-> <<>>, on |-> <<>>]

Init ==
    /\ record = [p \in Projects |-> Blank]
    /\ locked = [p \in Projects |-> None]
    /\ pin = [p \in Projects |-> None]
    /\ targets = [p \in Projects |-> NoTarget]
    /\ manager = 1 /\ touched = {}
    /\ generation = [p \in Projects |-> 0]
    /\ job = [p \in Projects |-> None]
    /\ cancelled = {}
    /\ request = [t \in Requests |-> Idle]
    /\ stopper = [s \in Stoppers |-> Still]
    /\ content = [m \in Machines |-> 0]
    /\ evidence = NoEvidence
    /\ calls = 0 /\ troubles = 0

\* manager_alive, and usability without the state of the tools
Authorized(p) ==
    record[p].at # None /\ ~record[p].reauth /\ record[p].by = manager
Usable(p) == Authorized(p) /\ record[p].complete
Trouble == troubles < MaxTroubles /\ troubles' = troubles + 1

Stamp(p) == <<record[p].at, record[p].rev, record[p].epoch, record[p].tools>>
Current(row) == Usable(row.p) /\ Stamp(row.p) = row.stamp

\* What a record becomes when the password is required again; once per authorization.
Required(rec) ==
    IF rec.reauth THEN rec
    ELSE [rec EXCEPT !.reauth = TRUE, !.epoch = @ + 1, !.by = 0]

\* mark_reauth: every stop is counted.
Stopped(rec) ==
    IF rec.there THEN Required([rec EXCEPT !.seq = @ + 1]) ELSE rec

\* mark_resume: only an authorization given after the last stop is kept.
Resumed(rec) ==
    LET kept == rec.at # None /\ ~rec.reauth /\ rec.by = manager /\ rec.keptSeq = rec.seq
        next == [rec EXCEPT !.seq = @ + 1]
    IN  IF ~rec.there THEN rec
        ELSE IF kept THEN [next EXCEPT !.keptSeq = next.seq]
        ELSE Required(next)

\* release, what it does to the record
Released(rec) ==
    IF rec.there
    THEN [rec EXCEPT !.seq = @ + 1, !.at = None, !.rev = @ + 1, !.epoch = @ + 1,
                     !.reauth = TRUE, !.by = 0]
    ELSE rec

\* settle_reservation: a project holds what its record says, nothing else.
Settled(rec) == [connected |-> rec.at, pending |-> None]
\* A mutant: only connected machines count as taken.
HoldsConnected(p, m) == m # None /\ m = targets[p].connected

Holds(p, m) == m # None /\ m \in {targets[p].connected, targets[p].pending}

-----------------------------------------------------------------------------
(* The manager *)

\* _machine_reconcile_once: a new manager inherits no authorization.
Touch(p) ==
    /\ p \notin touched /\ locked[p] = None
    /\ touched' = touched \cup {p}
    /\ IF record[p].there
       THEN /\ record' = [record EXCEPT ![p] =
                            IF @.reauth \/ @.by = manager THEN @ ELSE Stopped(@)]
            /\ targets' = [targets EXCEPT ![p] = Settled(record[p])]
       ELSE UNCHANGED <<record, targets>>
    /\ UNCHANGED <<locked, pin, manager, generation, job, cancelled, request,
                   stopper, content, evidence, bounds>>

\* The manager's process dies and another starts; locks are given up by the system.
Restart ==
    /\ Trouble
    /\ manager' = manager + 1 /\ touched' = {}
    /\ locked' = [p \in Projects |-> None]
    /\ generation' = [p \in Projects |-> 0]
    /\ job' = [p \in Projects |-> None]
    /\ cancelled' = {}
    /\ request' = [t \in Requests |-> Idle]
    /\ stopper' = [s \in Stoppers |-> Still]
    /\ UNCHANGED <<record, pin, targets, content, evidence, calls>>

-----------------------------------------------------------------------------
(* A Connect request: machine_connect and Connector.run *)

At(t, where) == request[t].at = where
To(t, where) == request' = [request EXCEPT ![t].at = where]
Over(t) == request' = [request EXCEPT ![t] = Idle]
\* A mutant: the job of a request that ended is not forgotten.
EndsBusy(t) == Over(t) /\ UNCHANGED job

Ends(t) == Over(t) /\ job' = [job EXCEPT ![request[t].p] = None]

ConnectUnchanged == UNCHANGED <<manager, touched, generation, cancelled, stopper,
                                content, evidence, troubles>>

\* The owner has scanned m and gives the password: the stop count is read, then
\* the challenge is used.  A stop voids the challenges it finds.
Ask(t, p, m) ==
    /\ p \in touched /\ At(t, "idle") /\ calls < MaxCalls
    /\ \A s \in Stoppers : stopper[s].p = p => Overlapping /\ stopper[s].at = "counted"
    /\ request' = [request EXCEPT ![t] =
                    [at |-> "asked", p |-> p, m |-> m, gen |-> generation[p], seq |-> 0]]
    /\ calls' = calls + 1
    /\ UNCHANGED <<record, locked, pin, targets, job>> /\ ConnectUnchanged

\* A mutant: the stop count is not compared.
RegisterUncounted(t) ==
    LET p == request[t].p IN
    /\ At(t, "asked")
    /\ IF job[p] # None THEN Over(t) /\ UNCHANGED <<job, cancelled>>
       ELSE To(t, "job") /\ job' = [job EXCEPT ![p] = t] /\ cancelled' = cancelled \ {t}
    /\ UNCHANGED <<record, locked, pin, targets, calls, manager, touched,
                   generation, stopper, content, evidence, troubles>>

\* One Connect of a project at a time, and none that a stop overtook.
Register(t) ==
    LET p == request[t].p IN
    /\ At(t, "asked")
    /\ IF job[p] # None \/ generation[p] # request[t].gen
       THEN Over(t) /\ UNCHANGED <<job, cancelled>>
       ELSE To(t, "job") /\ job' = [job EXCEPT ![p] = t] /\ cancelled' = cancelled \ {t}
    /\ UNCHANGED <<record, locked, pin, targets, calls, manager, touched,
                   generation, stopper, content, evidence, troubles>>

\* reserve_target, under the lock of the registry
Reserve(t) ==
    LET p == request[t].p
        m == request[t].m
        refused == t \in cancelled \/ \E other \in Projects \ {p} : Holds(other, m) IN
    /\ At(t, "job")
    /\ \/ refused /\ Ends(t) /\ UNCHANGED targets
       \/ ~refused /\ To(t, "reserved") /\ targets' = [targets EXCEPT ![p].pending = m] /\ UNCHANGED job
    /\ UNCHANGED <<record, locked, pin, calls>> /\ ConnectUnchanged

\* The attempt is noted in the record, and the stops counted so far are read.
Begin(t) ==
    LET p == request[t].p IN
    /\ At(t, "reserved") /\ locked[p] = None
    /\ record' = [record EXCEPT ![p].there = TRUE]
    /\ request' = [request EXCEPT ![t].at = "signing", ![t].seq = record[p].seq]
    /\ UNCHANGED <<locked, pin, targets, job, calls>> /\ ConnectUnchanged

\* Signing in, installing the key or trying it fails, or _still_wanted raises.
Fail(t) ==
    /\ At(t, "signing") /\ To(t, "failed")
    /\ UNCHANGED <<record, locked, pin, targets, job, calls>> /\ ConnectUnchanged

\* finalize, under the lock of the record: a stop that came in the meantime wins.
Overtaken(t) == t \in cancelled \/ record[request[t].p].seq # request[t].seq

Refuse(t) ==
    /\ At(t, "signing") /\ locked[request[t].p] = None /\ Overtaken(t) /\ To(t, "failed")
    /\ UNCHANGED <<record, locked, pin, targets, job, calls>> /\ ConnectUnchanged

Pin(t) ==
    LET p == request[t].p IN
    /\ At(t, "signing") /\ locked[p] = None /\ ~Overtaken(t)
    /\ To(t, "pinned")
    /\ locked' = [locked EXCEPT ![p] = t]
    /\ pin' = [pin EXCEPT ![p] = request[t].m]
    /\ UNCHANGED <<record, targets, job, calls>> /\ ConnectUnchanged

\* promote_reservation: the machine that is replaced is free from here on.
Promote(t) ==
    LET p == request[t].p IN
    /\ At(t, "pinned") /\ To(t, "promoted")
    /\ targets' = IF targets[p].pending = None THEN targets
                  ELSE [targets EXCEPT ![p] = [connected |-> targets[p].pending, pending |-> None]]
    /\ UNCHANGED <<record, locked, pin, job, calls>> /\ ConnectUnchanged

Publish(t) ==
    LET p == request[t].p IN
    /\ At(t, "promoted") /\ Ends(t)
    /\ record' = [record EXCEPT ![p] = [record[p] EXCEPT
                    !.keptSeq = request[t].seq, !.at = request[t].m, !.rev = @ + 1,
                    !.epoch = @ + 1, !.reauth = FALSE, !.by = manager]]
    /\ locked' = [locked EXCEPT ![p] = None]
    /\ UNCHANGED <<pin, targets, calls>> /\ ConnectUnchanged

\* A mutant: a failed attempt only gives up what a project never connected holds.
ReconcileNothing(t) ==
    LET p == request[t].p IN
    /\ At(t, "failed") /\ locked[p] = None /\ Ends(t)
    /\ targets' = IF record[p].at = None THEN [targets EXCEPT ![p] = NoTarget] ELSE targets
    /\ UNCHANGED <<record, locked, pin, calls>> /\ ConnectUnchanged

\* _fail and reconcile_reservation
Reconcile(t) ==
    LET p == request[t].p IN
    /\ At(t, "failed") /\ locked[p] = None /\ Ends(t)
    /\ targets' = [targets EXCEPT ![p] = Settled(record[p])]
    /\ UNCHANGED <<record, locked, pin, calls>> /\ ConnectUnchanged

Connect(t) ==
    \/ \E p \in Projects, m \in Machines : Ask(t, p, m)
    \/ Register(t) \/ Reserve(t) \/ Begin(t) \/ Fail(t) \/ Refuse(t)
    \/ Pin(t) \/ Promote(t) \/ Publish(t) \/ Reconcile(t)

-----------------------------------------------------------------------------
(* Pause, close and shutdown ("stop"), Resume and Release *)

StopUnchanged == UNCHANGED <<locked, pin, manager, touched, job, request,
                             content, evidence, calls>>

Count(s, p, kind) ==
    /\ p \in touched /\ stopper[s].at = "idle" /\ Trouble
    /\ generation' = [generation EXCEPT ![p] = @ + 1]
    /\ stopper' = [stopper EXCEPT ![s] = [at |-> "counted", p |-> p, kind |-> kind,
                                          n |-> generation[p] + 1]]
    /\ UNCHANGED <<record, targets, cancelled>> /\ StopUnchanged

\* A mutant: the stop count in the record is trusted alone.
CancelNothing(s) ==
    /\ stopper[s].at = "counted"
    /\ stopper' = [stopper EXCEPT ![s].at = "cancelled"]
    /\ UNCHANGED <<cancelled, record, targets, generation, troubles>> /\ StopUnchanged

\* The request that runs is cancelled and open challenges are voided.
Cancel(s) ==
    /\ stopper[s].at = "counted"
    /\ stopper' = [stopper EXCEPT ![s].at = "cancelled"]
    /\ cancelled' = cancelled \cup ({job[stopper[s].p]} \ {None})
    /\ UNCHANGED <<record, targets, generation, troubles>> /\ StopUnchanged

Mark(s) ==
    LET p == stopper[s].p
        kind == stopper[s].kind IN
    /\ stopper[s].at = "cancelled" /\ locked[p] = None
    /\ stopper' = [stopper EXCEPT ![s] = Still]
    /\ record' = [record EXCEPT ![p] =
                    CASE kind = "stop" -> Stopped(@)
                      [] kind = "resume" -> Resumed(@)
                      [] kind = "release" -> Released(@)]
    /\ targets' = IF kind = "release" THEN [targets EXCEPT ![p] = NoTarget] ELSE targets
    /\ UNCHANGED <<cancelled, generation, troubles>> /\ StopUnchanged

\* The key was refused, in a Connect or when the owner presses Check.
KeyFails(p) ==
    /\ p \in touched /\ locked[p] = None
    /\ record[p].there /\ Trouble
    /\ record' = [record EXCEPT ![p] = Stopped(@)]
    /\ UNCHANGED <<targets, stopper, cancelled, generation>> /\ StopUnchanged

Stopping(s) ==
    \/ \E p \in Projects, kind \in {"stop", "resume", "release"} : Count(s, p, kind)
    \/ Cancel(s) \/ Mark(s)

-----------------------------------------------------------------------------
(* The agents: tools and certified commands *)

AgentUnchanged == UNCHANGED <<locked, pin, targets, manager, manages, calls>>

\* A mutant: the revision of the tools moves only when they are done.
BaselineBeginQuiet(p) ==
    /\ locked[p] = None /\ record[p].at # None /\ Trouble
    /\ record' = [record EXCEPT ![p].complete = FALSE]
    /\ AgentUnchanged /\ UNCHANGED <<content, evidence>>

\* machine-baseline --begin and --done; they need no password
BaselineBegin(p) ==
    /\ locked[p] = None /\ record[p].at # None
    /\ Trouble
    /\ record' = [record EXCEPT ![p].tools = @ + 1, ![p].complete = FALSE]
    /\ AgentUnchanged /\ UNCHANGED <<content, evidence>>

BaselineDone(p) ==
    /\ locked[p] = None /\ record[p].at # None /\ ~record[p].complete
    /\ record' = [record EXCEPT ![p].complete = TRUE]
    /\ AgentUnchanged /\ UNCHANGED <<content, evidence, troubles>>

\* Between the two an agent changes the machine, as the rule asks.  Left out: a
\* machine two projects hold, of which the other could not know.
Install(p) ==
    /\ targets[p].connected # None /\ record[p].at = targets[p].connected
    /\ \A q \in Projects \ {p} : ~Holds(q, record[p].at)
    /\ ~record[p].complete /\ Trouble
    /\ content' = [content EXCEPT ![record[p].at] = @ + 1]
    /\ AgentUnchanged /\ UNCHANGED <<record, evidence>>

\* run: the stamp is taken before the command and compared after it.
Run(p) ==
    /\ Usable(p)
    /\ evidence' = [at |-> "running", p |-> p, stamp |-> Stamp(p),
                    on |-> <<record[p].at, content[record[p].at]>>]
    /\ AgentUnchanged /\ UNCHANGED <<record, content, troubles>>

Ran ==
    /\ evidence.at = "running"
    /\ evidence' = IF Current(evidence) THEN [evidence EXCEPT !.at = "kept"] ELSE NoEvidence
    /\ AgentUnchanged /\ UNCHANGED <<record, content, troubles>>

Agents ==
    \/ \E p \in Projects : BaselineBegin(p) \/ BaselineDone(p) \/ Install(p) \/ Run(p)
    \/ Ran

Next ==
    \/ \E p \in Projects : Touch(p) \/ KeyFails(p)
    \/ Restart
    \/ \E t \in Requests : Connect(t)
    \/ \E s \in Stoppers : Stopping(s)
    \/ Agents

Spec == Init /\ [][Next]_vars

-----------------------------------------------------------------------------
(* Properties *)

\* The variables have their types, and a project's job is a request of its own.
TypeOK ==
    /\ record \in [Projects -> [there : BOOLEAN, at : Machines \cup {None}, reauth : BOOLEAN,
            by : 0..manager, rev : Nat, epoch : Nat, seq : Nat, keptSeq : Nat \cup {-1},
            tools : Nat, complete : BOOLEAN]]
    /\ locked \in [Projects -> Requests \cup {None}]
    /\ pin \in [Projects -> Machines \cup {None}]
    /\ targets \in [Projects -> [connected : Machines \cup {None}, pending : Machines \cup {None}]]
    /\ touched \subseteq Projects /\ cancelled \subseteq Requests
    /\ job \in [Projects -> Requests \cup {None}]
    /\ \A t \in Requests : request[t].p \in Projects \/ At(t, "idle")
    /\ \A p \in Projects : job[p] # None => request[job[p]].p = p

\* Of two projects at most one is authorized to use a machine, whatever dies
\* or is stopped while a Connect replaces one machine by another.
OneUserPerMachine ==
    \A p, q \in Projects :
        /\ p # q /\ locked[p] = None /\ locked[q] = None
        /\ Authorized(p) /\ Authorized(q)
        => record[p].at # record[q].at

\* A project that may use its machine holds its reservation, and the published
\* host key is that machine's.
UsesItsOwn ==
    \A p \in Projects :
        Authorized(p) /\ locked[p] = None
        => targets[p].connected = record[p].at /\ pin[p] = record[p].at

\* With no Connect under way a project holds what its record says: nothing that
\* a cancelled or failed attempt, a dead manager or a Release left behind (a
\* manager that died before a project's first record was written leaves one).
NothingHeldBehind ==
    \A p \in touched :
        job[p] = None /\ record[p].there => targets[p] = [connected |-> record[p].at, pending |-> None]

\* Evidence that may still be used was made on the machine the project is
\* connected to, with the tools that are on it now.
EvidenceStands ==
    LET p == evidence.p IN
    evidence.at = "kept" /\ locked[p] = None /\ Current(evidence)
    => evidence.on = <<record[p].at, content[record[p].at]>>

\* A Connect is never published after a stop or Release that was asked for
\* after it and is over, with or without a record at the time.
Unfinished(p, n) ==
    Cardinality({s \in Stoppers : stopper[s].at # "idle" /\ stopper[s].p = p /\ stopper[s].n > n})

StoppedNeverPublishes ==
    [][\A t \in Requests :
          At(t, "promoted") /\ request'[t] = Idle /\ manager' = manager
          => LET p == request[t].p IN
             generation[p] = request[t].gen + Unfinished(p, request[t].gen)]_vars
=============================================================================
