--------------------------- MODULE ProjectManager ---------------------------
(***************************************************************************)
(* The list of projects, which one is open, and the board worker that      *)
(* serves it (harness/project_registry.py, harness/project_manager.py).    *)
(*                                                                         *)
(* A manager is one life of the manager process.  It answers each request  *)
(* in a thread of its own.  Open, close, pause and resume hold its         *)
(* lifecycle lock from beginning to end; a request for the list, a         *)
(* registration and a removal do not.  The list of projects and the        *)
(* activation lock are files that outlive the manager, and so does a       *)
(* worker whose manager is killed.  A call is a sequence of steps, one per *)
(* access to what another thread, another manager or a death may change.   *)
(***************************************************************************)
EXTENDS Naturals, FiniteSetsExt

CONSTANTS
    Managers,       \* lives of the manager process
    Port,           \* the ports of each life: two lives on the same do not overlap
    Projects,
    Lists,          \* what may be registered before
    Workers,        \* board workers, numbered in the order in which they start
    Threads,        \* bound: requests in flight
    Kinds,          \* the calls made in a run
    None,
    MaxCalls,       \* bound: calls in all
    Budget,         \* bounds: how often each of Events happens
    MaxEvents       \* bound: how many of them happen together

Events == {"term", "kill", "die", "preempt"}
AllKinds == {"open", "resume", "close", "pause", "delete", "register"}

ASSUME ManagerAssumption ==
    /\ IsFiniteSet(Managers) /\ Workers \subseteq Nat /\ IsFiniteSet(Threads)
    /\ None \notin Managers \cup Projects \cup Workers \cup Threads
    /\ None \notin [manager : Managers, project : Projects, held : BOOLEAN]
    /\ Lists \subseteq SUBSET Projects /\ Kinds \subseteq AllKinds
    /\ MaxCalls \in Nat /\ Budget \in [Events -> Nat] /\ MaxEvents \in Nat

VARIABLES
    listed,         \* registry.json
    issued,         \* the ids given out: each registration has one of its own
    lock,           \* registry.lock
    board,          \* project_pause.status of each project's board
    resumed,        \* the boards with a last_resume
    phase,          \* how far each manager is
    handle,         \* self.worker
    lifecycle,      \* the thread that holds self._lifecycle
    starting,       \* self.worker_starting
    cancel,         \* self._start_cancel
    glanced,        \* a request is between the two looks of _reconcile_worker
    closing,        \* what shutdown() is about to do with the activation
    worker,         \* the worker processes
    call,           \* what each thread is doing
    calls,          \* bound: calls made so far
    spent,          \* bound: events so far
    inherited,      \* ghost: the activation each manager adopted when it started
    standing        \* ghost: the paused open project a restart found

files == <<listed, lock>>
boards == <<board, resumed>>
memory == <<handle, lifecycle, starting, cancel, glanced>>
ghosts == <<inherited, standing>>
vars == <<files, issued, boards, phase, memory, closing, worker, call, calls, spent, ghosts>>

Idle == [at |-> "idle", m |-> None, kind |-> None, p |-> None,
         resuming |-> FALSE,        \* _from_resume
         fresh |-> FALSE,           \* not already_complete
         view |-> {}]               \* the list as load() returned it

NoWorker == [project |-> None, manager |-> None, state |-> "none"]

Lives(m) == phase[m] \in {"serving", "stopping"}
Running(w) == w # None /\ worker[w].state \in {"starting", "ready"}

Answers(m) == handle[m] # None /\ worker[handle[m]].state = "ready"

\* active_project: a lock whose process is gone reads as inactive.
Active == lock # None /\ Lives(lock.manager)
IsActive(p) == Active /\ lock.project = p

\* worker_project
Serves(m, p) == handle[m] # None /\ worker[handle[m]].project = p

At(th, here) == call[th].at = here
Go(th, there) == call' = [call EXCEPT ![th].at = there]

Happens(e) ==
    /\ spent[e] < Budget[e] /\ MapThenSumSet(LAMBDA o : spent[o], Events) < MaxEvents
    /\ spent' = [spent EXCEPT ![e] = @ + 1]

Init ==
    /\ listed \in Lists /\ issued = listed /\ lock = None /\ board \in [Projects -> {"active", "paused"}]
    /\ resumed = {p \in Projects : board[p] = "active"} /\ phase = [m \in Managers |-> "new"]
    /\ handle = [m \in Managers |-> None] /\ lifecycle = [m \in Managers |-> None]
    /\ starting = [m \in Managers |-> None] /\ cancel = [m \in Managers |-> FALSE]
    /\ glanced = [m \in Managers |-> FALSE] /\ closing = [m \in Managers |-> None]
    /\ worker = [w \in Workers |-> NoWorker] /\ call = [th \in Threads |-> Idle]
    /\ calls = 0 /\ spent = [e \in Events |-> 0]
    /\ inherited = [m \in Managers |-> None] /\ standing = None

\* deactivate(), for a project the lock may or may not name.
Unlocked(p) == lock # None /\ lock.project = p
Released(p) == IF Unlocked(p) THEN None ELSE lock

\* _stop_worker
Stopped(m) == [w \in Workers |-> IF w = handle[m] THEN [worker[w] EXCEPT !.state = "dead"]
                                                   ELSE worker[w]]

(***************************************************************************)
(* A request reaches a manager.  One for the lifecycle looks at the start  *)
(* in flight before it queues for the lock (_one_lifecycle_step).          *)
(***************************************************************************)
InFlight(m, kind, p) == starting[m] = p /\ kind \in {"open", "resume"}

Interrupts(m, kind, p) == starting[m] # None /\
    (kind \in {"close", "pause"} \/ (kind \in {"open", "resume"} /\ starting[m] # p))

Queue(th, m, kind, p) ==
    /\ ~InFlight(m, kind, p)
    /\ cancel' = [cancel EXCEPT ![m] = @ \/ Interrupts(m, kind, p)]

Request(th, m, kind, p) ==
    /\ call[th] = Idle /\ phase[m] = "serving" /\ calls < MaxCalls /\ calls' = calls + 1
    /\ kind \in Kinds
    /\ LET arrives(at) == call' = [call EXCEPT
                ![th] = [Idle EXCEPT !.at = at, !.m = m, !.kind = kind, !.p = p]]
       IN \/ /\ kind \in {"open", "resume", "close", "pause"}
             /\ Queue(th, m, kind, p) /\ arrives("lock") /\ UNCHANGED issued
          \/ /\ kind = "register" /\ p \notin issued /\ issued' = issued \cup {p}
             /\ arrives("load") /\ UNCHANGED cancel
          \/ /\ kind = "delete" /\ p \in listed
             /\ UNCHANGED issued
             /\ IF Serves(m, p) \/ IsActive(p)
                THEN Queue(th, m, "close", p) /\ arrives("lock")
                ELSE arrives("load") /\ UNCHANGED cancel
    /\ UNCHANGED <<files, boards, phase, handle, lifecycle, starting, glanced, closing,
                   worker, spent, inherited, standing>>

EnterBug(th) == LET c == call[th] IN    \* Mutant: nothing serializes the calls.
    /\ At(th, "lock") /\ lifecycle' = [lifecycle EXCEPT ![c.m] = th]
    /\ Go(th, CASE c.kind = "open" -> "begin" [] c.kind = "delete" -> "close"
                [] OTHER -> c.kind)
    /\ UNCHANGED <<files, issued, boards, phase, handle, starting, cancel, glanced, closing, worker,
                   calls, spent, ghosts>>

Enter(th) == LET c == call[th] IN
    /\ At(th, "lock") /\ lifecycle[c.m] = None
    /\ lifecycle' = [lifecycle EXCEPT ![c.m] = th]
    /\ Go(th, CASE c.kind = "open" -> "begin" [] c.kind = "delete" -> "close"
                [] OTHER -> c.kind)
    /\ UNCHANGED <<files, issued, boards, phase, handle, starting, cancel, glanced, closing, worker,
                   calls, spent, ghosts>>

\* The lock is released, and with it the mark of the start this call made.
Leaves(th, there) == LET m == call[th].m IN
    /\ lifecycle' = [lifecycle EXCEPT ![m] = None]
    /\ starting' = [starting EXCEPT ![m] = None]
    /\ call' = [call EXCEPT ![th] = IF there = "idle" THEN Idle ELSE [@ EXCEPT !.at = there]]

Return(th) == Leaves(th, "idle")

(***************************************************************************)
(* open_project.                                                           *)
(***************************************************************************)
Begin(th) == LET c == call[th] IN
    /\ At(th, "begin") /\ starting' = [starting EXCEPT ![c.m] = c.p] /\ Go(th, "clear")
    /\ UNCHANGED <<files, issued, boards, phase, handle, lifecycle, cancel, glanced, closing, worker,
                   calls, spent, ghosts>>

Clear(th) == LET c == call[th] IN
    /\ At(th, "clear") /\ cancel' = [cancel EXCEPT ![c.m] = FALSE]
    /\ Go(th, "look")
    /\ UNCHANGED <<files, issued, boards, phase, handle, lifecycle, starting, glanced, closing, worker,
                   calls, spent, ghosts>>

ReconciledBug(m) ==     \* Mutant: the activation of a worker that exited is kept.
    IF handle[m] = None \/ Running(handle[m]) THEN UNCHANGED <<handle, lock>>
    ELSE handle' = [handle EXCEPT ![m] = None] /\ UNCHANGED lock

\* _reconcile_worker, when nothing comes between its statements.
Reconciled(m) ==
    IF handle[m] = None \/ Running(handle[m]) THEN UNCHANGED <<handle, lock>>
    ELSE /\ handle' = [handle EXCEPT ![m] = None]
         /\ lock' = IF IsActive(worker[handle[m]].project) THEN None ELSE lock

Look(th) == LET c == call[th] IN
    /\ At(th, "look") /\ Reconciled(c.m)
    /\ IF c.p \notin listed THEN Return(th)
       ELSE /\ UNCHANGED <<lifecycle, starting>>
            /\ IF ~c.resuming /\ board[c.p] \in {"paused", "resuming"}
               THEN Go(th, "resume") ELSE Go(th, "switch")
    /\ UNCHANGED <<listed, issued, boards, phase, cancel, glanced, closing, worker, calls, spent, ghosts>>

\* Another project that is open is closed first.
Switch(th) == LET c == call[th] IN
    /\ At(th, "switch")
    /\ IF Active /\ lock.project # c.p
       THEN /\ lock' = None
            /\ IF Serves(c.m, lock.project)
               THEN worker' = Stopped(c.m) /\ handle' = [handle EXCEPT ![c.m] = None]
               ELSE UNCHANGED <<worker, handle>>
       ELSE UNCHANGED <<lock, worker, handle>>
    /\ Go(th, "activate")
    /\ UNCHANGED <<listed, issued, boards, phase, lifecycle, starting, cancel, glanced, closing, calls,
                   spent, ghosts>>

\* activate() publishes its record in place of none or of a dead process's.
Activate(th) == LET c == call[th] IN
    /\ At(th, "activate")
    /\ IF Active \/ c.p \notin listed THEN Return(th) /\ UNCHANGED lock
       ELSE /\ lock' = [manager |-> c.m, project |-> c.p, held |-> FALSE]
            /\ Go(th, "touch") /\ UNCHANGED <<lifecycle, starting>>
    /\ UNCHANGED <<listed, issued, boards, phase, handle, cancel, glanced, closing, worker, calls,
                   spent, ghosts>>

\* last_active_at: update_entry loads the list and saves it.
Touch(th) == LET c == call[th] IN
    /\ At(th, "touch")
    /\ IF c.p \notin listed THEN Return(th)
       ELSE /\ call' = [call EXCEPT ![th].at = "touched", ![th].view = listed]
            /\ UNCHANGED <<lifecycle, starting>>
    /\ UNCHANGED <<files, issued, boards, phase, handle, cancel, glanced, closing, worker, calls,
                   spent, ghosts>>

Touched(th) ==
    /\ At(th, "touched") /\ listed' = call[th].view /\ Go(th, "spawn")
    /\ UNCHANGED <<lock, issued, boards, phase, memory, closing, worker, calls, spent, ghosts>>

Spawn(th) == LET c == call[th] IN
    /\ At(th, "spawn")
    /\ \E w \in Workers :
        /\ worker[w] = NoWorker /\ \A v \in Workers : v < w => worker[v] # NoWorker
        /\ worker' = [Stopped(c.m) EXCEPT
                ![w] = [project |-> c.p, manager |-> c.m, state |-> "starting"]]
        /\ handle' = [handle EXCEPT ![c.m] = w]
    /\ Go(th, "wait")
    /\ UNCHANGED <<files, issued, boards, phase, lifecycle, starting, cancel, glanced, closing, calls,
                   spent, ghosts>>

FailsBug(th) == LET c == call[th] IN    \* Mutant: the worker is left to itself.
    /\ At(th, "wait") /\ (cancel[c.m] \/ ~Answers(c.m))
    /\ handle' = [handle EXCEPT ![c.m] = None] /\ lock' = Released(c.p) /\ Return(th)
    /\ UNCHANGED <<listed, issued, boards, phase, cancel, glanced, closing, worker, calls, spent, ghosts>>

\* _wait_for_worker: cancelled, the worker exited, or it took too long.
Fails(th) == LET c == call[th] IN
    /\ At(th, "wait") /\ (cancel[c.m] \/ ~Answers(c.m))
    /\ worker' = Stopped(c.m) /\ handle' = [handle EXCEPT ![c.m] = None]
    /\ lock' = Released(c.p) /\ Return(th)
    /\ UNCHANGED <<listed, issued, boards, phase, cancel, glanced, closing, calls, spent, ghosts>>

Opens(th) == LET c == call[th] IN
    /\ At(th, "wait") /\ ~cancel[c.m] /\ Answers(c.m)
    /\ IF c.resuming
       THEN /\ Go(th, "finish") /\ UNCHANGED lifecycle
            /\ starting' = [starting EXCEPT ![c.m] = IF c.kind = "resume" THEN None ELSE @]
       ELSE Return(th)
    /\ UNCHANGED <<files, issued, boards, phase, handle, cancel, glanced, closing, worker, calls,
                   spent, ghosts>>

(***************************************************************************)
(* resume_project, pause_project, close_project.                           *)
(***************************************************************************)
BeginResume(th) == LET c == call[th] IN
    /\ At(th, "resume")
    /\ IF c.p \in listed /\ (board[c.p] \in {"paused", "resuming"}
                              \/ (board[c.p] = "active" /\ c.p \in resumed))
       THEN /\ board' = [board EXCEPT ![c.p] = IF @ = "paused" THEN "resuming" ELSE @]
            /\ call' = [call EXCEPT ![th].at = "reuse", ![th].resuming = TRUE,
                                    ![th].fresh = board[c.p] # "active"]
            /\ UNCHANGED <<lifecycle, starting>>
       ELSE Return(th) /\ UNCHANGED board
    /\ UNCHANGED <<files, issued, resumed, phase, handle, cancel, glanced, closing, worker, calls,
                   spent, ghosts>>

\* _existing_worker_result; without one the project is activated again.
Reuse(th) == LET c == call[th] m == c.m IN
    /\ At(th, "reuse")
    /\ IF Serves(m, c.p) /\ Running(handle[m])
       THEN /\ IF worker[handle[m]].state = "ready"
               THEN Go(th, "finish") /\ UNCHANGED <<lifecycle, starting>>
               ELSE Return(th)
            /\ UNCHANGED <<handle, lock>>
       ELSE /\ LET gone == handle[m] = None \/ ~Running(handle[m]) IN
                /\ handle' = [handle EXCEPT ![m] = IF gone THEN None ELSE @]
                /\ lock' = IF gone /\ (IsActive(c.p) \/ (handle[m] # None
                                        /\ IsActive(worker[handle[m]].project)))
                           THEN None ELSE lock
            /\ Go(th, IF c.kind = "resume" THEN "begin" ELSE "look")
            /\ UNCHANGED <<lifecycle, starting>>
    /\ UNCHANGED <<listed, issued, boards, phase, cancel, glanced, closing, worker, calls, spent, ghosts>>

FinishResume(th) == LET c == call[th] IN
    /\ At(th, "finish")
    /\ IF c.fresh THEN /\ board' = [board EXCEPT ![c.p] = "active"]
                       /\ resumed' = resumed \cup {c.p}
                  ELSE UNCHANGED boards
    /\ Return(th)
    /\ UNCHANGED <<files, issued, phase, handle, cancel, glanced, closing, worker, calls, spent, ghosts>>

BeginPause(th) == LET c == call[th] IN
    /\ At(th, "pause")
    /\ IF c.p \notin listed \/ board[c.p] = "resuming" THEN Return(th) /\ UNCHANGED board
       ELSE /\ board' = [board EXCEPT ![c.p] = IF @ = "active" THEN "draining" ELSE @]
            /\ Go(th, "paused") /\ UNCHANGED <<lifecycle, starting>>
    /\ UNCHANGED <<files, issued, resumed, phase, handle, cancel, glanced, closing, worker, calls,
                   spent, ghosts>>

FinishPause(th) == LET c == call[th] IN
    /\ At(th, "paused") /\ board' = [board EXCEPT ![c.p] = "paused"] /\ Return(th)
    /\ UNCHANGED <<files, issued, resumed, phase, handle, cancel, glanced, closing, worker, calls,
                   spent, ghosts>>

Close(th) == LET c == call[th] IN
    /\ At(th, "close")
    /\ IF Serves(c.m, c.p)
       THEN worker' = Stopped(c.m) /\ handle' = [handle EXCEPT ![c.m] = None]
       ELSE UNCHANGED <<worker, handle>>
    /\ Go(th, "release")
    /\ UNCHANGED <<files, issued, boards, phase, lifecycle, starting, cancel, glanced, closing, calls,
                   spent, ghosts>>

\* deactivate() raises when the lock names another project.
Release(th) == LET c == call[th] IN
    /\ At(th, "release") /\ lock' = Released(c.p)
    /\ IF c.kind = "delete" /\ (lock = None \/ lock.project = c.p)
       THEN Leaves(th, "load") ELSE Return(th)
    /\ UNCHANGED <<listed, issued, boards, phase, handle, cancel, glanced, closing, worker, calls, spent,
                   ghosts>>

(***************************************************************************)
(* register() and remove(): load the list, save it changed.                *)
(***************************************************************************)
Load(th) == LET c == call[th] IN
    /\ At(th, "load")
    /\ IF (c.p \in listed) = (c.kind = "delete")
       THEN call' = [call EXCEPT ![th].at = "save", ![th].view = listed]
       ELSE call' = [call EXCEPT ![th] = Idle]
    /\ UNCHANGED <<files, issued, boards, phase, memory, closing, worker, calls, spent, ghosts>>

Save(th) == LET c == call[th] IN
    /\ At(th, "save") /\ call' = [call EXCEPT ![th] = Idle]
    /\ IF c.kind = "delete"
       THEN listed' = c.view \ {c.p} ELSE listed' = c.view \cup {c.p}
    /\ UNCHANGED <<lock, issued, boards, phase, memory, closing, worker, calls, spent, ghosts>>

(***************************************************************************)
(* What a request for the list, for readiness or for the open board does.  *)
(***************************************************************************)
Reconcile(m) ==
    /\ phase[m] = "serving" /\ handle[m] # None /\ ~Running(handle[m]) /\ Reconciled(m)
    /\ UNCHANGED <<listed, issued, boards, phase, lifecycle, starting, cancel, glanced, closing, worker,
                   call, calls, spent, ghosts>>

\* The same, with other threads between its look at the worker and the rest.
Glance(m) ==
    /\ phase[m] = "serving" /\ handle[m] # None /\ ~Running(handle[m]) /\ ~glanced[m]
    /\ Happens("preempt") /\ glanced' = [glanced EXCEPT ![m] = TRUE]
    /\ UNCHANGED <<files, issued, boards, phase, handle, lifecycle, starting, cancel, closing, worker,
                   call, calls, ghosts>>

AfterGlance(m) ==
    /\ glanced[m] /\ glanced' = [glanced EXCEPT ![m] = FALSE]
    /\ handle' = [handle EXCEPT ![m] = None]
    /\ lock' = IF handle[m] # None /\ IsActive(worker[handle[m]].project) THEN None ELSE lock
    /\ UNCHANGED <<listed, issued, boards, phase, lifecycle, starting, cancel, closing, worker, call,
                   calls, spent, ghosts>>

(***************************************************************************)
(* Workers, and the lives of the manager.                                  *)
(***************************************************************************)
\* It serves once it has its port, and exits when the port is taken.
Bind(w) ==
    /\ worker[w].state = "starting"
    /\ worker' = [worker EXCEPT ![w].state =
            IF \E v \in Workers : worker[v].state = "ready"
                    /\ Port[worker[v].manager] = Port[worker[w].manager]
            THEN "dead" ELSE "ready"]
    /\ UNCHANGED <<files, issued, boards, phase, memory, closing, call, calls, spent, ghosts>>

Dies(w) ==
    /\ Running(w) /\ Happens("die") /\ worker' = [worker EXCEPT ![w].state = "dead"]
    /\ UNCHANGED <<files, issued, boards, phase, memory, closing, call, calls, ghosts>>

\* serve(): adopt_held takes over what hold_for_restart kept.
Start(m) ==
    /\ phase[m] = "new" /\ \A n \in Managers : Port[n] = Port[m] => ~Lives(n)
    /\ phase' = [phase EXCEPT ![m] = "serving"]
    /\ IF lock # None /\ lock.held /\ ~Lives(lock.manager) /\ lock.project \in listed
       THEN /\ lock' = [lock EXCEPT !.manager = m, !.held = FALSE]
            /\ inherited' = [inherited EXCEPT ![m] = lock.project]
       ELSE UNCHANGED <<lock, inherited>>
    /\ standing' = None
    /\ UNCHANGED <<listed, issued, boards, memory, closing, worker, call, calls, spent>>

\* SIGTERM: shutdown() stops the worker while the threads go on.
Terminate(m) ==
    /\ phase[m] = "serving" /\ Happens("term") /\ phase' = [phase EXCEPT ![m] = "stopping"]
    /\ LET p == IF handle[m] # None THEN worker[handle[m]].project
                ELSE IF Active /\ lock.manager = m THEN lock.project ELSE None
           paused == p # None /\ p \in listed /\ board[p] = "paused"
       IN /\ closing' = [closing EXCEPT ![m] = [project |-> p, keep |-> paused]]
          /\ standing' = IF paused /\ Unlocked(p) /\ \A th \in Threads : call[th].m # m
                         THEN p ELSE None
    /\ worker' = Stopped(m) /\ handle' = [handle EXCEPT ![m] = None]
    /\ UNCHANGED <<files, issued, boards, lifecycle, starting, cancel, glanced, call, calls, inherited>>

Ends(m) ==
    /\ phase' = [phase EXCEPT ![m] = "dead"] /\ handle' = [handle EXCEPT ![m] = None]
    /\ lifecycle' = [lifecycle EXCEPT ![m] = None] /\ starting' = [starting EXCEPT ![m] = None]
    /\ cancel' = [cancel EXCEPT ![m] = FALSE] /\ glanced' = [glanced EXCEPT ![m] = FALSE]
    /\ closing' = [closing EXCEPT ![m] = None]
    /\ call' = [th \in Threads |-> IF call[th].m = m THEN Idle ELSE call[th]]

ShutdownBug(m) ==    \* Mutant: every activation is released.
    /\ phase[m] = "stopping" /\ Ends(m) /\ lock' = Released(closing[m].project)
    /\ UNCHANGED <<listed, issued, boards, worker, calls, spent, ghosts>>

\* hold_for_restart for a paused project, deactivate for another.
Shutdown(m) ==
    /\ phase[m] = "stopping" /\ Ends(m)
    /\ LET c == closing[m] IN
        lock' = IF ~Unlocked(c.project) THEN lock
                ELSE IF c.keep THEN [lock EXCEPT !.held = TRUE] ELSE None
    /\ UNCHANGED <<listed, issued, boards, worker, calls, spent, ghosts>>

Kill(m) ==
    /\ Lives(m) /\ Happens("kill") /\ Ends(m) /\ standing' = None
    /\ UNCHANGED <<files, issued, boards, worker, calls, inherited>>

Step(th) ==
    \/ Enter(th) \/ Begin(th) \/ Clear(th) \/ Look(th) \/ Switch(th) \/ Activate(th)
    \/ Touch(th) \/ Touched(th) \/ Spawn(th) \/ Fails(th) \/ Opens(th) \/ BeginResume(th)
    \/ Reuse(th) \/ FinishResume(th) \/ BeginPause(th) \/ FinishPause(th) \/ Close(th)
    \/ Release(th) \/ Load(th) \/ Save(th)

Next ==
    \/ \E th \in Threads :
        \/ \E m \in Managers, kind \in AllKinds, p \in Projects : Request(th, m, kind, p)
        \/ Step(th)
    \/ \E m \in Managers :
        Reconcile(m) \/ Glance(m) \/ AfterGlance(m) \/ Start(m) \/ Terminate(m) \/ Shutdown(m)
        \/ Kill(m)
    \/ \E w \in Workers : Bind(w) \/ Dies(w)

Spec == Init /\ [][Next]_vars

(***************************************************************************)
(* Properties.                                                             *)
(***************************************************************************)
TypeOK ==
    /\ listed \subseteq issued /\ issued \subseteq Projects
    /\ lock = None \/ lock \in [manager : Managers, project : Projects, held : BOOLEAN]
    /\ board \in [Projects -> {"active", "draining", "paused", "resuming"}]
    /\ resumed \subseteq Projects
    /\ phase \in [Managers -> {"new", "serving", "stopping", "dead"}]
    /\ handle \in [Managers -> Workers \cup {None}]
    /\ lifecycle \in [Managers -> Threads \cup {None}]
    /\ starting \in [Managers -> Projects \cup {None}]
    /\ cancel \in [Managers -> BOOLEAN] /\ glanced \in [Managers -> BOOLEAN]
    /\ \A m \in Managers : closing[m] = None
            \/ closing[m] \in [project : Projects \cup {None}, keep : BOOLEAN]
    /\ \A w \in Workers : worker[w] = NoWorker
            \/ worker[w] \in [project : Projects, manager : Managers,
                              state : {"starting", "ready", "dead"}]
    /\ inherited \in [Managers -> Projects \cup {None}] /\ standing \in Projects \cup {None}

Quiet(m) == phase[m] = "serving" /\ lifecycle[m] = None

\* Values have their types, and between the calls a running worker serves the
\* project whose activation its manager holds: two Resume clicks, a switch, a
\* failed start, an exit or a removal never leave the one without the other
\* (_open_project, resume_project, close_project).
ServesActive ==
    /\ TypeOK
    /\ \A m \in Managers : Quiet(m) /\ Running(handle[m]) =>
          lock # None /\ lock.manager = m /\ lock.project = worker[handle[m]].project

\* Between the calls no activation of a listed project is left without a worker,
\* but for the one its manager adopted when it started: "already active" would
\* refuse the next open (activate, _reconcile_worker).  The activation of a
\* project removed while it opened stays until another one is opened.
ActivationServed ==
    \A m \in Managers :
        Quiet(m) /\ Active /\ lock.manager = m /\ lock.project \in listed /\ handle[m] = None
            => inherited[m] = lock.project

\* No worker is orphaned on the board port: a live manager holds the handle of
\* every worker it started that still runs, unless a request for the list was
\* preempted in _reconcile_worker ("Never overwrite the handle of a worker that
\* still runs", _open_project).
NoOrphan ==
    spent["preempt"] = 0 =>
        \A w \in Workers : Running(w) /\ Lives(worker[w].manager) =>
            handle[worker[w].manager] = w

\* The owner's open paused project, if no call was running when its manager was
\* told to stop, is still open when the next one serves (shutdown,
\* hold_for_restart, adopt_held).
PausedStaysOpen ==
    [][\A m \in Managers : phase[m] = "new" /\ phase'[m] = "serving" /\ standing # None =>
        lock' = [manager |-> m, project |-> standing, held |-> FALSE]]_vars

=============================================================================
