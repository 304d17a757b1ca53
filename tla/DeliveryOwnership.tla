------------------------ MODULE DeliveryOwnership ------------------------
(***************************************************************************)
(* Which Delivery agent owns which task, and what the project pause does   *)
(* to that ownership (harness/board.py).                                   *)
(*                                                                         *)
(* A terminal registers an agent, the owner gives it a direction, it       *)
(* begins a task.  The agent may then be stopped by the owner, restarted   *)
(* or replaced by the harness, lose its terminal, be paused and resumed    *)
(* with the whole project, have its task cancelled, or be woken again      *)
(* because main moved or the owner did not accept the release.  A new      *)
(* agent takes a task over in two board transactions: register() picks     *)
(* the predecessor, resume_task() transfers the task.  Every action below  *)
(* is one transaction of locked_state, whose pause gate is `Open`.         *)
(*                                                                         *)
(* An agent has the session of its own terminal, and agents are given in   *)
(* the order they register.  Reviewers and reviews, the CTO, and the       *)
(* contents of the work are left out; what a review decides about a task   *)
(* appears as Complete.                                                    *)
(***************************************************************************)
EXTENDS Naturals, FiniteSets, SequencesExt

CONSTANTS
    Agents,         \* Delivery agents
    Tasks,
    Awaiting,       \* AWAITING_OWNER_DIRECTION
    None,
    MaxLive,        \* MAX_ACTIVE_SESSIONS of Delivery terminals
    MaxHandoffs,    \* bound: takeovers under way at the same time
    Budget,         \* bounds: how often the owner, the harness or the
                    \* outside world may do each of Kinds
    MaxEvents       \* bound: how often in all

Kinds == {"end", "stop", "restart", "replace", "pause", "cancel", "move", "reject"}

ASSUME OwnershipAssumption ==
    /\ IsFiniteSet(Agents) /\ None \notin Agents \cup Tasks
    /\ Awaiting \notin Tasks \cup {None}
    /\ MaxLive \in Nat \ {0} /\ MaxHandoffs \in Nat \ {0}
    /\ Budget \in [Kinds -> Nat] /\ MaxEvents \in Nat

VARIABLES
    agents,         \* state["agents"]
    roster,         \* the agents in the order they registered
    directions,     \* owner_directions, by the session of an agent
    stage,          \* how far each task is
    kept,           \* task_owner_directions: tasks whose direction is kept
    cancelled,      \* cancelled_tasks
    moved,          \* git_reintegration_required
    bindings,       \* replacement_bindings: whom a new terminal replaces
    project,        \* project_pause.status
    saved,          \* project_pause.agents
    staged,         \* resume_stage is past delivery_ownership_reconciled
    terminal,       \* the terminal of each agent's session
    continues,      \* continues_session, by agent
    handoff,        \* the takeover a register() call is about to make
    route,          \* the takeover route_owner_repairs is about to make
    given,          \* ghost: how many directions the owner has given
    begunFrom,      \* ghost: the directions tasks were begun from
    atPause,        \* ghost: agents and tasks when the pause closed the gate
    spent           \* bound: how often each of Kinds has happened

tasks == <<stage, kept, cancelled, moved>>
intake == <<roster, directions, bindings>>
pause == <<project, saved, staged, atPause>>
control == <<terminal, continues>>
calls == <<handoff, route>>
history == <<given, begunFrom>>
ghosts == <<history, spent>>
vars == <<agents, tasks, intake, pause, control, calls, ghosts>>

NewAgent ==
    [task |-> Awaiting, active |-> TRUE, writable |-> TRUE, status |-> "working",
     successor |-> None,    \* superseded_by_agent_id
     stopped |-> FALSE,     \* stopped_by_owner_at or stopped_by_harness_at
     restart |-> FALSE,     \* restart_requested_at
     replaced |-> FALSE]    \* replacement_requested_at

Unknown == [NewAgent EXCEPT !.task = None, !.active = FALSE, !.writable = FALSE,
                            !.status = "none"]

NoDirection == [state |-> "none", origin |-> 0]

Known(a) == agents[a].status # "none"
On(t) == {a \in Agents : agents[a].task = t}
Active == {a \in Agents : agents[a].active}

\* _require_writable_agent
Writable(a) == agents[a].writable /\ agents[a].successor = None

\* ACTIVE_STATUSES: a terminal that is stopping still runs its agent.
Running(a) == terminal[a] \in {"live", "stopping", "retiring"}

\* Ended by itself, closed on request, or retired (ended, and read-only since
\* its agent was superseded).
Gone(a) == terminal[a] \in {"ended", "closed", "retired"}

\* The liveness of an inactive agent.
Offline(a) == agents[a].status \in {"offline", "stopped", "cancelled", "superseded"}

Accepted == {t \in Tasks : stage[t] = "accepted"}

OpenBug == project # "paused"     \* Mutant: the gate opens when resuming starts.

\* The gate of locked_state for writes that do not name a saved session.
Open == project \in {"active", "draining"}

Spend(k) ==
    /\ spent[k] < Budget[k] /\ MapThenSumSet(LAMBDA j : spent[j], Kinds) < MaxEvents
    /\ spent' = [spent EXCEPT ![k] = @ + 1]

StopTerminals(A) ==
    terminal' = [a \in Agents |-> IF a \in A /\ terminal[a] = "live"
                                  THEN "stopping" ELSE terminal[a]]

Init ==
    /\ agents = [a \in Agents |-> Unknown] /\ roster = <<>>
    /\ directions = [a \in Agents |-> NoDirection]
    /\ bindings = [a \in Agents |-> None]
    /\ stage = [t \in Tasks |-> "new"] /\ kept = {} /\ cancelled = {} /\ moved = {}
    /\ project = "active" /\ saved = [a \in {} |-> Unknown] /\ staged = FALSE
    /\ atPause = [agents |-> agents, stage |-> stage, moved |-> moved]
    /\ terminal = [a \in Agents |-> "none"] /\ continues = [a \in Agents |-> None]
    /\ handoff = [a \in Agents |-> None] /\ route = None
    /\ given = 0 /\ begunFrom = <<>> /\ spent = [k \in Kinds |-> 0]

(***************************************************************************)
(* Terminals (harness/control.py).  A new one continues the conversation   *)
(* of an ended one that no live terminal continues.                        *)
(***************************************************************************)
Opened(a, p) ==
    /\ terminal[a] = "none" /\ Cardinality({b \in Agents : Running(b)}) < MaxLive
    /\ p # None => Gone(p)
                    /\ \A b \in Agents : Running(b) => continues[b] # p
    /\ terminal' = [terminal EXCEPT ![a] = "live"]
    /\ continues' = [continues EXCEPT ![a] = p]

OpenTerminal(a) ==
    /\ \E p \in Agents \cup {None} : Opened(a, p)
    /\ UNCHANGED <<agents, tasks, intake, pause, calls, ghosts>>

\* The pause stops every terminal; a register() call dies with its terminal.
TerminalEnds(a) ==
    /\ Running(a)
    /\ \/ /\ terminal[a] = "live" /\ Spend("end")
          /\ terminal' = [terminal EXCEPT ![a] = "ended"]
       \/ /\ terminal[a] = "stopping" \/ (terminal[a] = "live" /\ project = "paused")
          /\ terminal' = [terminal EXCEPT ![a] = "closed"] /\ UNCHANGED spent
       \/ /\ terminal[a] = "retiring"
          /\ terminal' = [terminal EXCEPT ![a] = "retired"] /\ UNCHANGED spent
    /\ handoff' = [handoff EXCEPT ![a] = None]
    /\ UNCHANGED <<agents, tasks, intake, pause, continues, route, history>>

\* offline(), and a poll that finds its terminal gone.
GoOffline(a) ==
    /\ Open /\ agents[a].active /\ Gone(a)
    /\ agents' = [agents EXCEPT ![a].active = FALSE, ![a].status = "offline"]
    /\ UNCHANGED <<tasks, intake, pause, control, calls, ghosts>>

(***************************************************************************)
(* register(): a new agent.  First choice is a direction stranded with an  *)
(* agent that is gone, then the agent this terminal was opened to replace, *)
(* then a task whose Delivery was stopped.  The task itself is transferred *)
(* by a second transaction, FinishHandoff.                                 *)
(***************************************************************************)
StrandedBug == {s \in Agents :     \* Mutant: also of an agent still there.
    agents[s].task = Awaiting /\ directions[s].state = "given"}

Stranded == {s \in Agents : /\ agents[s].task = Awaiting /\ ~agents[s].active
                            /\ directions[s].state = "given"}

CarryableBug == {s \in Agents :    \* Mutant: whoever took the task over is forgotten.
    /\ agents[s].stopped /\ ~agents[s].active
    /\ agents[s].task \in Tasks \ (Accepted \cup cancelled)
    /\ stage[agents[s].task] # "released"
    /\ \A b \in Active : agents[b].task # agents[s].task}

\* _stopped_task_to_resume
Carryable == {s \in Agents :
    /\ agents[s].stopped /\ ~agents[s].active /\ agents[s].successor = None
    /\ agents[s].task \in Tasks \ (Accepted \cup cancelled)
    /\ stage[agents[s].task] # "released"
    /\ \A b \in Active : agents[b].task # agents[s].task}

Takeover(s) == [source |-> s, task |-> agents[s].task]

UnderWay == Cardinality({a \in Agents : handoff[a] # None})
                + (IF route = None THEN 0 ELSE 1)

Registering(a) ==
    /\ Open /\ terminal[a] = "live" /\ ~Known(a)
    /\ agents' = [agents EXCEPT ![a] = NewAgent]
    /\ roster' = Append(roster, a)
    /\ UNCHANGED <<tasks, bindings, pause, control, route, ghosts>>

RegisterForDirection(a, s) ==
    /\ Registering(a) /\ s \in Stranded
    /\ directions' = [directions EXCEPT ![s].state = "transferred", ![a] = directions[s]]
    /\ UNCHANGED handoff

RegisterForTask(a) ==
    /\ Registering(a) /\ UnderWay < MaxHandoffs
    /\ \/ bindings[a] # None /\ handoff' = [handoff EXCEPT ![a] = bindings[a]]
       \/ /\ bindings[a] = None
          /\ \E s \in Carryable : handoff' = [handoff EXCEPT ![a] = Takeover(s)]
    /\ UNCHANGED directions

RegisterAwaiting(a) ==
    /\ Registering(a) /\ bindings[a] = None /\ Carryable = {}
    /\ UNCHANGED <<directions, handoff>>

\* The same session comes back.  Its agent is found again when the project is
\* being resumed with it, when it never went away, or when the harness
\* restarted it.
ReattachBug(a) ==       \* Mutant: with the authority of a new agent.
    /\ terminal[a] = "live" /\ Known(a) /\ project = "active"
    /\ agents[a].active \/ agents[a].restart
    /\ agents' = [agents EXCEPT ![a].active = TRUE, ![a].restart = FALSE,
                                ![a].writable = TRUE]
    /\ UNCHANGED <<tasks, intake, pause, control, calls, ghosts>>

Reattach(a) ==
    /\ terminal[a] = "live" /\ Known(a)
    /\ \/ project = "resuming" /\ a \in DOMAIN saved
       \/ project = "active" /\ (agents[a].active \/ agents[a].restart)
    /\ agents' = [agents EXCEPT ![a].active = TRUE, ![a].restart = FALSE,
            ![a].status = IF @ # "offline" THEN @
                          ELSE IF a \in DOMAIN saved THEN saved[a].status
                          ELSE "working"]
    /\ UNCHANGED <<tasks, intake, pause, control, calls, ghosts>>

(***************************************************************************)
(* resume_task(): a takes task t over from s.  What a cancelled task's     *)
(* removal left in the event log may still count as its direction.         *)
(***************************************************************************)
CanTakeOver(a, s, t) ==
    /\ Open /\ Writable(a) /\ agents[a].task = Awaiting
    /\ agents[s].task = t /\ ~agents[s].active

TakesOver(a, s, t) ==
    /\ CanTakeOver(a, s, t)
    /\ agents' = [agents EXCEPT
            ![a].task = t, ![a].status = "working", ![a].writable = TRUE,
            ![s].writable = FALSE, ![s].successor = a, ![s].status = "superseded",
            ![s].active = FALSE]
    /\ cancelled' = cancelled \ {t}
    /\ UNCHANGED <<stage, kept, moved>>

\* control.supersede, called once the task was transferred, if its caller
\* lives.
Supersede(s) ==
    /\ agents[s].successor # None /\ terminal[s] \in {"live", "stopping", "ended", "closed"}
    /\ terminal' = [terminal EXCEPT ![s] = IF Running(s) THEN "retiring" ELSE "retired"]
    /\ UNCHANGED <<agents, tasks, intake, pause, continues, calls, ghosts>>

\* A refusal (the gate is closed, s is back, no direction) only drops it.
Refused(a, s, t) ==
    /\ ~CanTakeOver(a, s, t) \/ t \notin kept
    /\ UNCHANGED <<agents, tasks>>

FinishHandoff(a) ==
    /\ handoff[a] # None
    /\ LET h == handoff[a] IN
        TakesOver(a, h.source, h.task) \/ Refused(a, h.source, h.task)
    /\ handoff' = [handoff EXCEPT ![a] = None]
    /\ UNCHANGED <<intake, pause, control, route, ghosts>>

(***************************************************************************)
(* The work of one task.                                                   *)
(***************************************************************************)
Working(a) == Open /\ Running(a) /\ handoff[a] = None /\ Writable(a)

\* record_owner_direction
GiveDirection(a) ==
    /\ Open /\ Running(a) /\ agents[a].task = Awaiting
    /\ directions[a].state = "none"
    /\ given' = given + 1
    /\ directions' = [directions EXCEPT ![a] = [state |-> "given", origin |-> given + 1]]
    /\ UNCHANGED <<agents, tasks, roster, bindings, pause, control, calls, begunFrom, spent>>

BeginTask(a, t) ==
    /\ Working(a) /\ agents[a].task = Awaiting
    /\ directions[a].state \in {"given", "transferred"}
    /\ stage[t] = "new" /\ On(t) = {} /\ t \notin cancelled
    /\ agents' = [agents EXCEPT ![a].task = t, ![a].status = "working"]
    /\ directions' = [directions EXCEPT ![a].state = "consumed"]
    /\ stage' = [stage EXCEPT ![t] = "begun"] /\ kept' = kept \cup {t}
    /\ begunFrom' = Append(begunFrom, directions[a].origin)
    /\ UNCHANGED <<cancelled, moved, roster, bindings, pause, control, calls, given, spent>>

\* complete(), once the final review passed.
Complete(a, t) ==
    /\ Working(a) /\ agents[a].task = t
    /\ stage[t] \in {"begun", "complete", "repairing"} /\ t \notin moved
    /\ stage' = [stage EXCEPT ![t] = "complete"]
    /\ agents' = [agents EXCEPT ![a].active = FALSE, ![a].status = "done"]
    /\ UNCHANGED <<kept, cancelled, moved, intake, pause, control, calls, ghosts>>

\* The release waits for the owner, who accepts it or does not.
Release(t) ==
    /\ Open /\ stage[t] = "complete" /\ t \notin moved \cup cancelled
    /\ stage' = [stage EXCEPT ![t] = "released"]
    /\ UNCHANGED <<agents, kept, cancelled, moved, intake, pause, control, calls, ghosts>>

Answer(t) ==
    /\ Open /\ stage[t] = "released"
    /\ \/ stage' = [stage EXCEPT ![t] = "accepted"] /\ UNCHANGED spent
       \/ stage' = [stage EXCEPT ![t] = "rejected"] /\ Spend("reject")
    /\ UNCHANGED <<agents, kept, cancelled, moved, intake, pause, control, calls, history>>

(***************************************************************************)
(* Delivery is woken again: main moved under the task                      *)
(* (route_reintegration), or the owner did not accept                      *)
(* (claim_release_repair, route_owner_repairs).                            *)
(***************************************************************************)
Awake(a) == agents' = [agents EXCEPT ![a].active = TRUE, ![a].status = "working"]

\* Agents are looked at in the order of their ids.
First(A) == IF A = {} THEN None ELSE roster[SelectInSeq(roster, LAMBDA b : b \in A)]

Notified(t) == First({b \in On(t) : agents[b].writable /\ agents[b].status # "superseded"})

MainMoves(t) ==
    /\ Open /\ stage[t] \in {"begun", "complete", "repairing"} /\ t \notin moved \cup cancelled
    /\ Spend("move") /\ moved' = moved \cup {t}
    /\ LET a == Notified(t) IN
        IF a # None /\ ~agents[a].active /\ ~Offline(a) /\ Running(a)
        THEN Awake(a) ELSE UNCHANGED agents
    /\ UNCHANGED <<stage, kept, cancelled, intake, pause, control, calls, history>>

Reintegrate(a, t) ==
    /\ Working(a) /\ agents[a].task = t /\ t \in moved
    /\ moved' = moved \ {t}
    /\ UNCHANGED <<agents, stage, kept, cancelled, intake, pause, control, calls, ghosts>>

ClaimRepair(a, t) ==
    /\ Open /\ Running(a) /\ agents[a].task = t /\ stage[t] \in {"rejected", "repairing"}
    /\ agents[a].active \/ ~Offline(a)
    /\ Awake(a) /\ stage' = [stage EXCEPT ![t] = "repairing"]
    /\ UNCHANGED <<kept, cancelled, moved, intake, pause, control, calls, ghosts>>

\* No agent of the task can claim the repair: one that awaits direction is to
\* take the task over.  This is read without the lock.
PlanRoute(t, a, s) ==
    /\ route = None /\ stage[t] = "rejected" /\ UnderWay < MaxHandoffs
    /\ \A b \in On(t) : Running(b) => Offline(b)
    /\ agents[a].active /\ agents[a].task = Awaiting /\ Running(a)
    /\ s = First({b \in On(t) : ~agents[b].active})
    /\ route' = [agent |-> a, source |-> s, task |-> t]
    /\ UNCHANGED <<agents, tasks, intake, pause, control, handoff, ghosts>>

FinishRoute ==
    /\ route # None /\ route' = None
    /\ \/ TakesOver(route.agent, route.source, route.task)
       \/ Refused(route.agent, route.source, route.task)
    /\ UNCHANGED <<intake, pause, control, handoff, ghosts>>

(***************************************************************************)
(* The owner and the harness end an agent's terminal.                      *)
(***************************************************************************)
\* stop_session() and the stop of its terminal.
OwnerStop(a) ==
    /\ Open /\ Running(a) /\ Known(a) /\ Spend("stop")
    /\ LET t == agents[a].task
           keeps == t \in Tasks \ cancelled /\ stage[t] \notin {"released", "accepted"}
       IN agents' = [agents EXCEPT ![a].active = FALSE, ![a].writable = FALSE,
                        ![a].status = "stopped", ![a].stopped = @ \/ keeps]
    /\ directions' = IF agents[a].task = Awaiting
                     THEN [directions EXCEPT ![a] = NoDirection] ELSE directions
    /\ StopTerminals({a})
    /\ UNCHANGED <<tasks, roster, bindings, pause, continues, calls, history>>

\* self_heal.plan: a frozen terminal, a silent agent, or a terminal that ended
\* with work left.
Restartable(a) ==
    \/ terminal[a] = "live"
    \/ /\ terminal[a] = "ended" /\ (agents[a].active \/ agents[a].status = "offline")
       /\ agents[a].task \in Tasks \ (cancelled \cup Accepted)
       /\ \A b \in On(agents[a].task) \ {a} : ~Running(b)

RequestRestart(a) ==
    /\ Open /\ Known(a) /\ ~agents[a].restart /\ Restartable(a) /\ Spend("restart")
    /\ agents' = [agents EXCEPT ![a].restart = TRUE]
    /\ StopTerminals({a})
    /\ UNCHANGED <<tasks, intake, pause, continues, calls, history>>

\* Phase two: the terminal has ended, the same session is launched again.
Relaunch(a) ==
    /\ project = "active" /\ agents[a].restart /\ terminal[a] \in {"ended", "closed"}
    /\ terminal' = [terminal EXCEPT ![a] = "live"]
    /\ UNCHANGED <<agents, tasks, intake, pause, continues, calls, ghosts>>

\* request_agent_replacement, for an agent the restart did not bring back.
RequestReplacement(a) ==
    /\ Open /\ agents[a].task \in Tasks /\ ~agents[a].replaced
    /\ agents[a].active \/ (agents[a].restart /\ agents[a].status # "stopped")
    /\ agents[a].task \notin cancelled \cup Accepted
    /\ terminal[a] \notin {"retiring", "retired"} /\ Spend("replace")
    /\ agents' = [agents EXCEPT ![a].active = FALSE, ![a].status = "offline",
                                ![a].stopped = TRUE, ![a].replaced = TRUE]
    /\ StopTerminals({a})
    /\ UNCHANGED <<tasks, intake, pause, continues, calls, history>>

\* Its new terminal is bound to the agent and task it replaces.
OpenReplacement(b, a) ==
    /\ project = "active" /\ agents[a].replaced /\ ~agents[a].restart
    /\ terminal[a] \in {"ended", "closed"} /\ agents[a].task \in Tasks
    /\ agents[a].successor = None /\ On(agents[a].task) \cap Active = {}
    /\ \A c \in Agents : bindings[c] # None => bindings[c].source # a
    /\ Opened(b, a) \/ Opened(b, None)
    /\ bindings' = [bindings EXCEPT ![b] = Takeover(a)]
    /\ UNCHANGED <<agents, tasks, roster, directions, pause, calls, ghosts>>

CancelBug(t) ==     \* Mutant: the agents the pause saved are kept.
    /\ stage[t] \notin {"new", "accepted", "released"} /\ t \notin cancelled
    /\ Spend("cancel")
    /\ agents' = [a \in Agents |-> IF a \notin On(t) THEN agents[a]
            ELSE [agents[a] EXCEPT !.active = FALSE, !.writable = FALSE,
                                   !.status = "cancelled", !.stopped = FALSE]]
    /\ directions' = [a \in Agents |-> IF a \in On(t) THEN NoDirection ELSE directions[a]]
    /\ cancelled' = cancelled \cup {t} /\ kept' = kept \ {t}
    /\ StopTerminals(On(t) \cap Active)
    /\ UNCHANGED <<stage, moved, roster, bindings, pause, continues, calls, history>>

\* cancel_task() passes the gate of the pause.
Cancel(t) ==
    /\ stage[t] \notin {"new", "accepted", "released"} /\ t \notin cancelled
    /\ Spend("cancel")
    /\ agents' = [a \in Agents |-> IF a \notin On(t) THEN agents[a]
            ELSE [agents[a] EXCEPT !.active = FALSE, !.writable = FALSE,
                                   !.status = "cancelled", !.stopped = FALSE]]
    /\ directions' = [a \in Agents |-> IF a \in On(t) THEN NoDirection ELSE directions[a]]
    /\ cancelled' = cancelled \cup {t} /\ kept' = kept \ {t}
    /\ stage' = [stage EXCEPT ![t] = IF @ \in {"rejected", "repairing"} THEN "complete" ELSE @]
    /\ saved' = Restrict(saved, {a \in DOMAIN saved : saved[a].task # t})
    /\ StopTerminals(On(t) \cap Active)
    /\ UNCHANGED <<moved, roster, bindings, project, staged, atPause, continues, calls, history>>

(***************************************************************************)
(* The pause of the project and its resumption.                            *)
(***************************************************************************)
BeginPause ==
    /\ project = "active" /\ Spend("pause") /\ project' = "draining"
    /\ saved' = Restrict(saved, {})
    /\ UNCHANGED <<agents, tasks, intake, staged, atPause, control, calls, history>>

\* Its conversation was carried on by the session of another active agent.
Continued(a) == \E b \in Active : continues[b] = a

SavedOwner(a, writable) ==
    [task |-> agents[a].task, status |-> agents[a].status, writable |-> writable]

FinishPause ==
    /\ project = "draining" /\ project' = "paused" /\ staged' = FALSE
    /\ LET owners == {a \in Active : ~Continued(a)} IN
        /\ saved' = [a \in owners |-> SavedOwner(a, agents[a].writable)]
        /\ agents' = [a \in Agents |->
            CASE a \in owners -> [agents[a] EXCEPT !.active = FALSE, !.writable = FALSE,
                                                   !.status = "paused"]
              [] a \in Active \ owners -> [agents[a] EXCEPT !.active = FALSE, !.status = "offline"]
              [] OTHER -> agents[a]]
    /\ atPause' = [agents |-> agents, stage |-> stage, moved |-> moved]
    /\ UNCHANGED <<tasks, intake, control, calls, ghosts>>

BeginResume ==
    /\ project = "paused" /\ project' = "resuming"
    /\ UNCHANGED <<agents, tasks, intake, saved, staged, atPause, control, calls, ghosts>>

\* stage_required_delivery_resumes: work that needs Delivery and has no saved
\* owner gets back the last agent that owned it.
Unserved == {t \in kept \ (cancelled \cup Accepted) :
    /\ stage[t] \in {"begun", "rejected", "repairing"} \/ t \in moved
    /\ \A a \in DOMAIN saved : saved[a].task # t}

Candidates(t) == {k \in DOMAIN roster : LET a == roster[k] IN
    /\ agents[a].task = t /\ agents[a].successor = None
    /\ agents[a].status \notin {"superseded", "cancelled"}}

StageDelivery ==
    /\ project = "resuming" /\ ~staged /\ staged' = TRUE
    /\ LET chosen == {roster[Max(Candidates(t))] : t \in {u \in Unserved : Candidates(u) # {}}}
       IN saved' = [a \in chosen \cup DOMAIN saved |->
            IF a \in chosen THEN SavedOwner(a, agents[a].task \in moved \/ agents[a].writable)
            ELSE saved[a]]
    /\ UNCHANGED <<agents, tasks, intake, project, atPause, control, calls, ghosts>>

\* prepare_resume_sessions: of two saved sessions in one conversation only the
\* later one.
ResumeTerminal(a) ==
    /\ project = "resuming" /\ staged /\ a \in DOMAIN saved /\ Gone(a)
    /\ \A b \in DOMAIN saved : continues[b] # a
    /\ terminal' = [terminal EXCEPT ![a] = "live"]
    /\ UNCHANGED <<agents, tasks, intake, pause, continues, calls, ghosts>>

FinishResume ==
    /\ project = "resuming" /\ staged /\ project' = "active"
    /\ agents' = [a \in Agents |-> IF a \notin DOMAIN saved THEN agents[a]
            ELSE [agents[a] EXCEPT !.active = TRUE, !.writable = saved[a].writable,
                                   !.status = saved[a].status]]
    /\ UNCHANGED <<tasks, intake, saved, staged, atPause, control, calls, ghosts>>

Next ==
    \/ \E a \in Agents :
        \/ OpenTerminal(a) \/ TerminalEnds(a) \/ GoOffline(a) \/ RegisterForTask(a)
        \/ RegisterAwaiting(a) \/ Reattach(a) \/ FinishHandoff(a) \/ Supersede(a)
        \/ GiveDirection(a) \/ OwnerStop(a) \/ RequestRestart(a) \/ Relaunch(a)
        \/ RequestReplacement(a) \/ ResumeTerminal(a)
        \/ \E b \in Agents : RegisterForDirection(a, b) \/ OpenReplacement(a, b)
        \/ \E t \in Tasks :
            \/ BeginTask(a, t) \/ Complete(a, t) \/ Reintegrate(a, t) \/ ClaimRepair(a, t)
            \/ \E s \in Agents : PlanRoute(t, a, s)
    \/ \E t \in Tasks : Release(t) \/ Answer(t) \/ MainMoves(t) \/ Cancel(t)
    \/ FinishRoute \/ BeginPause \/ FinishPause \/ BeginResume \/ StageDelivery \/ FinishResume

Spec == Init /\ [][Next]_vars

(***************************************************************************)
(* Properties.                                                             *)
(***************************************************************************)
Statuses == {"none", "working", "done", "offline", "stopped", "cancelled",
             "superseded", "paused"}

\* The variables have their types, and a session has one agent.
TypeOK ==
    /\ agents \in [Agents -> [task : Tasks \cup {Awaiting, None}, active : BOOLEAN,
            writable : BOOLEAN, status : Statuses, successor : Agents \cup {None},
            stopped : BOOLEAN, restart : BOOLEAN, replaced : BOOLEAN]]
    /\ IsInjective(roster) /\ ToSet(roster) = {a \in Agents : Known(a)}
    /\ directions \in [Agents -> [state : {"none", "given", "transferred", "consumed"},
                                  origin : 0..given]]
    /\ \A a \in Agents : bindings[a] = None \/ bindings[a] \in [source : Agents, task : Tasks]
    /\ stage \in [Tasks -> {"new", "begun", "complete", "released", "accepted",
                            "rejected", "repairing"}]
    /\ kept \subseteq Tasks /\ cancelled \subseteq Tasks /\ moved \subseteq Tasks
    /\ project \in {"active", "draining", "paused", "resuming"} /\ staged \in BOOLEAN
    /\ DOMAIN saved \subseteq ToSet(roster)
    /\ \A a \in DOMAIN saved : saved[a] \in
            [task : Tasks \cup {Awaiting}, status : Statuses, writable : BOOLEAN]
    /\ terminal \in [Agents -> {"none", "live", "stopping", "ended", "closed",
                                "retiring", "retired"}]
    /\ continues \in [Agents -> Agents \cup {None}]
    /\ \A a \in Agents : handoff[a] = None \/ handoff[a] \in [source : Agents, task : Tasks]

\* An agent whose task was taken over (resume_task) never gets its write
\* authority back: not by a restart, a pause and resume, or main moving.
SupersededReadOnly ==
    \A a \in Agents : agents[a].successor # None => ~agents[a].writable

\* Whatever was stopped, restarted, replaced or paused, and however many agents
\* a task has had, exactly one of them has not been superseded: the one that
\* carries it (_stopped_task_to_resume, resume_task).
OneCarrier ==
    /\ TypeOK
    /\ \A t \in Tasks : stage[t] # "new" =>
            \E a \in On(t) : \A b \in On(t) : agents[b].successor = None <=> a = b

\* A resume gives every agent that was working when the pause closed the gate
\* the task, status and authority it had, finds every task where it was, and
\* brings back nobody else on a task one of them holds (finish_project_pause,
\* stage_required_delivery_resumes, finish_project_resume).  Tasks the owner
\* cancelled meanwhile, and agents whose conversation another agent carries on,
\* are the exceptions.
PauseRoundTrip ==
    [][project = "resuming" /\ project' = "active" =>
        LET old == atPause.agents
            was == {a \in Agents : old[a].active /\ old[a].task \notin cancelled}
            kin == {a \in was : \E b \in Agents : old[b].active /\ continues[b] = a}
        IN /\ \A a \in was \ kin :
                /\ agents'[a].active /\ agents'[a].task = old[a].task
                /\ agents'[a].status = old[a].status
                /\ agents'[a].writable = old[a].writable
                /\ agents'[a].successor = old[a].successor
           /\ \A t \in Tasks \ cancelled :
                stage'[t] = atPause.stage[t] /\ (t \in moved' <=> t \in atPause.moved)
           /\ \A a \in Agents, b \in was \ kin :
                agents'[a].active /\ ~old[a].active => agents'[a].task # old[b].task]_vars

\* Nothing brings an agent of a cancelled task back, and no pause or resume
\* (cancel_task: "a later resume must not bring them back").
CancelledStaysDown ==
    \A a \in Active : agents[a].task \notin cancelled

\* One direction of the owner starts one task, also when its terminal ended and
\* another one recovered it (register, begin_task).
DirectionBegunOnce == IsInjective(begunFrom)
=============================================================================
