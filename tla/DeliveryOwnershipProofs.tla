---------------------- MODULE DeliveryOwnershipProofs ----------------------
(***************************************************************************)
(* Theorems about DeliveryOwnership, for any number of agents, tasks and   *)
(* events.  What a theorem assumes beyond the module's assumptions is a    *)
(* bound of Budget or MaxHandoffs, and is said where it is stated.         *)
(***************************************************************************)
EXTENDS DeliveryOwnership, FiniteSetTheorems, WellFoundedInduction, TLAPS

(***************************************************************************)
(* Helpers of the module.                                                  *)
(***************************************************************************)
LEMMA SpendStep ==
    ASSUME NEW k \in Kinds, Spend(k)
    PROVE  spent[k] < Budget[k] /\ spent' = [spent EXCEPT ![k] = @ + 1]
BY DEF Spend

\* A set of naturals that is not empty has a least element ...
LEMMA LeastNatural ==
    ASSUME NEW S \in SUBSET Nat, S # {}
    PROVE  \E m \in S : \A n \in S : m =< n
<1> DEFINE R == OpToRel(<, Nat)
<1>1. PICK m \in S : \A n \in S : <<n, m>> \notin R
  BY NatLessThanWellFounded, WFMin
<1>2. \A n \in S : ~(n < m)
  BY <1>1 DEF OpToRel
<1> QED BY <1>2

LEMMA MinimumIn ==
    ASSUME NEW S \in SUBSET Nat, S # {}
    PROVE  Min(S) \in S
BY LeastNatural, Zenon DEF Min

\* ... and one within bounds a greatest.
LEMMA MaximumIn ==
    ASSUME NEW n \in Nat, NEW S \in SUBSET (1..n), S # {}
    PROVE  Max(S) \in S
<1> DEFINE T == {n - x : x \in S}
<1>1. T \in SUBSET Nat /\ T # {}
  <2>1. PICK x \in S : TRUE
    OBVIOUS
  <2>2. n - x \in T
    BY <2>1
  <2>3. \A k \in T : k \in Nat
    OBVIOUS
  <2> QED BY <2>2, <2>3
<1>2. PICK m \in T : \A k \in T : m =< k
  <2> HIDE DEF T
  <2> QED BY <1>1, LeastNatural
<1>3. PICK x \in S : m = n - x
  OBVIOUS
<1>4. \A y \in S : x >= y
  <2> SUFFICES ASSUME NEW y \in S PROVE x >= y
    OBVIOUS
  <2>1. n - y \in T
    OBVIOUS
  <2>2. n - x =< n - y
    BY <1>2, <1>3, <2>1
  <2>3. x \in 1..n /\ y \in 1..n
    OBVIOUS
  <2> QED BY <2>2, <2>3
<1> QED BY <1>4, Zenon DEF Max

LEMMA FirstIn ==
    ASSUME NEW A \in SUBSET ToSet(roster), A # {}, roster \in Seq(Agents)
    PROVE  First(A) \in A
<1> DEFINE I == {i \in 1..Len(roster) : roster[i] \in A}
<1>1. I # {} /\ I \in SUBSET Nat
  BY DEF ToSet
<1>2. Min(I) \in I
  BY <1>1, MinimumIn
<1>3. SelectInSeq(roster, LAMBDA b : b \in A) = Min(I)
  BY <1>1 DEF SelectInSeq
<1> QED BY <1>2, <1>3 DEF First

(***************************************************************************)
(* Types.  An agent that never registered has nothing.                     *)
(***************************************************************************)
Agent ==
    [task : Tasks \cup {Awaiting, None}, active : BOOLEAN, writable : BOOLEAN,
     status : Statuses, successor : Agents \cup {None}, stopped : BOOLEAN,
     restart : BOOLEAN, replaced : BOOLEAN]

Handoff == [source : Agents, task : Tasks]
Direction == [state : {"none", "given", "transferred", "consumed"}, origin : 0..given]
SavedAgent == [task : Tasks \cup {Awaiting}, status : Statuses \ {"none"}, writable : BOOLEAN]

AgentTypes ==
    /\ agents \in [Agents -> Agent] /\ roster \in Seq(Agents)
    /\ \A a \in Agents :
        IF Known(a)
        THEN agents[a].task # None /\ terminal[a] # "none"
        ELSE /\ agents[a].task = None /\ ~agents[a].active /\ agents[a].successor = None
             /\ directions[a].state = "none"

RosterTypes ==
    /\ IsInjective(roster) /\ ToSet(roster) = {a \in Agents : Known(a)}

DirectionTypes ==
    /\ given \in Nat /\ directions \in [Agents -> Direction]
    /\ begunFrom \in Seq(Nat)

TaskTypes ==
    /\ stage \in [Tasks -> {"new", "begun", "complete", "released", "accepted",
                            "rejected", "repairing"}]
    /\ kept \subseteq Tasks /\ cancelled \subseteq Tasks /\ moved \subseteq Tasks

PauseTypes ==
    /\ project \in {"active", "draining", "paused", "resuming"} /\ staged \in BOOLEAN
    /\ DOMAIN saved \subseteq {a \in Agents : Known(a)}
    /\ \A a \in DOMAIN saved : saved[a] \in SavedAgent

ControlTypes ==
    /\ terminal \in [Agents -> {"none", "live", "stopping", "ended", "closed",
                                "retiring", "retired"}]
    /\ continues \in [Agents -> Agents \cup {None}]

CallTypes ==
    /\ \A a \in Agents : handoff[a] = None \/ handoff[a] \in Handoff
    /\ \A a \in Agents : bindings[a] = None \/ bindings[a] \in Handoff
    /\ DOMAIN handoff = Agents /\ DOMAIN bindings = Agents
    /\ route = None \/ route \in [agent : Agents, source : Agents, task : Tasks]
    /\ spent \in [Kinds -> Nat]

Types ==
    /\ AgentTypes /\ RosterTypes /\ DirectionTypes /\ TaskTypes /\ PauseTypes
    /\ ControlTypes /\ CallTypes

LEMMA TypesImply == Types => TypeOK
BY DEF Types, TypeOK, AgentTypes, RosterTypes, DirectionTypes, TaskTypes, PauseTypes,
       ControlTypes, CallTypes, Agent, Handoff, Direction, SavedAgent

LEMMA AgentRecords ==
    /\ NewAgent \in Agent /\ NewAgent.status = "working" /\ NewAgent.task = Awaiting
    /\ NewAgent.successor = None
    /\ Unknown \in Agent /\ Unknown.status = "none" /\ Unknown.task = None
    /\ ~Unknown.active /\ Unknown.successor = None /\ ~Unknown.writable
    /\ ~Unknown.restart /\ ~Unknown.replaced /\ ~NewAgent.restart /\ ~NewAgent.replaced
BY DEF NewAgent, Unknown, Agent, Statuses

LEMMA TypesInit == Init => Types
<1> SUFFICES ASSUME Init PROVE Types
  OBVIOUS
<1> USE DEF Init
<1>1. AgentTypes
  BY AgentRecords DEF AgentTypes, Known, NoDirection
<1>2. RosterTypes
  BY AgentRecords DEF RosterTypes, IsInjective, ToSet, Known
<1>3. DirectionTypes
  <2>1. given \in Nat /\ begunFrom \in Seq(Nat)
    OBVIOUS
  <2>2. NoDirection \in Direction
    BY DEF NoDirection, Direction
  <2> QED BY <2>1, <2>2 DEF DirectionTypes
<1>4. TaskTypes /\ PauseTypes /\ ControlTypes
  BY DEF TaskTypes, PauseTypes, ControlTypes
<1>5. CallTypes
  BY DEF CallTypes
<1> QED BY <1>1, <1>2, <1>3, <1>4, <1>5 DEF Types

(***************************************************************************)
(* What the actions do to the agents, field by field.                      *)
(***************************************************************************)
Others(A) == \A b \in Agents \ A : agents'[b] = agents[b]

LEMMA RegisteringAgents ==
    ASSUME AgentTypes, NEW a \in Agents, Registering(a)
    PROVE  /\ agents' \in [Agents -> Agent] /\ Others({a}) /\ agents'[a] = NewAgent
           /\ ~Known(a)
BY AgentRecords DEF AgentTypes, Registering, Others

LEMMA GoOfflineAgents ==
    ASSUME AgentTypes, NEW a \in Agents, GoOffline(a)
    PROVE  /\ agents' \in [Agents -> Agent] /\ Others({a})
           /\ agents[a].active /\ ~agents'[a].active /\ agents'[a].status = "offline"
           /\ agents'[a].task = agents[a].task /\ agents'[a].writable = agents[a].writable
           /\ agents'[a].successor = agents[a].successor
           /\ agents'[a].restart = agents[a].restart /\ agents'[a].replaced = agents[a].replaced
<1>1. [agents[a] EXCEPT !.active = FALSE, !.status = "offline"] \in Agent
  BY DEF AgentTypes, Agent, Statuses
<1> QED BY <1>1 DEF AgentTypes, GoOffline, Others, Agent

LEMMA ReattachAgents ==
    ASSUME AgentTypes, PauseTypes, NEW a \in Agents, Reattach(a)
    PROVE  /\ agents' \in [Agents -> Agent] /\ Others({a}) /\ Known(a)
           /\ agents'[a].active /\ ~agents'[a].restart
           /\ agents'[a].status = IF agents[a].status # "offline" THEN agents[a].status
                                  ELSE IF a \in DOMAIN saved THEN saved[a].status ELSE "working"
           /\ agents'[a].task = agents[a].task /\ agents'[a].writable = agents[a].writable
           /\ agents'[a].successor = agents[a].successor
           /\ agents'[a].replaced = agents[a].replaced
<1> DEFINE n == IF agents[a].status # "offline" THEN agents[a].status
                ELSE IF a \in DOMAIN saved THEN saved[a].status ELSE "working"
           r == [agents[a] EXCEPT !.active = TRUE, !.restart = FALSE, !.status = n]
<1>0. agents' = [agents EXCEPT ![a].active = TRUE, ![a].restart = FALSE, ![a].status = n]
  BY DEF Reattach, AgentTypes, Agent
<1>2. n \in Statuses
  BY DEF AgentTypes, Agent, PauseTypes, SavedAgent, Statuses
<1> HIDE DEF n
<1>1. agents' = [agents EXCEPT ![a] = r]
  BY <1>0 DEF AgentTypes
<1>3. r \in Agent
  BY <1>2 DEF AgentTypes, Agent
<1>4. /\ r.active /\ ~r.restart /\ r.status = n
      /\ r.task = agents[a].task /\ r.writable = agents[a].writable
      /\ r.successor = agents[a].successor /\ r.replaced = agents[a].replaced
  BY DEF AgentTypes, Agent
<1>5. Known(a)
  BY DEF Reattach
<1> HIDE DEF r
<1>6. /\ agents' \in [Agents -> Agent] /\ Others({a}) /\ agents'[a].status = n
      /\ agents'[a].active /\ ~agents'[a].restart
      /\ agents'[a].task = agents[a].task /\ agents'[a].writable = agents[a].writable
      /\ agents'[a].successor = agents[a].successor
      /\ agents'[a].replaced = agents[a].replaced
  BY <1>1, <1>3, <1>4 DEF AgentTypes, Others
<1> QED BY <1>5, <1>6 DEF n

LEMMA TakesOverAgents ==
    ASSUME AgentTypes, NEW a \in Agents, NEW s \in Agents, NEW t \in Tasks, TakesOver(a, s, t)
    PROVE  /\ agents' \in [Agents -> Agent] /\ Others({a, s}) /\ a # s
           /\ Open /\ Writable(a) /\ agents[a].task = Awaiting
           /\ agents[s].task = t /\ ~agents[s].active
           /\ agents'[a].task = t /\ agents'[a].status = "working" /\ agents'[a].writable
           /\ agents'[a].active = agents[a].active /\ agents'[a].successor = None
           /\ agents'[a].restart = agents[a].restart /\ agents'[a].replaced = agents[a].replaced
           /\ agents'[s].task = t /\ agents'[s].status = "superseded" /\ ~agents'[s].writable
           /\ ~agents'[s].active /\ agents'[s].successor = a
           /\ agents'[s].restart = agents[s].restart /\ agents'[s].replaced = agents[s].replaced
<1>1. /\ Open /\ Writable(a) /\ agents[a].task = Awaiting
      /\ agents[s].task = t /\ ~agents[s].active /\ a # s
  BY OwnershipAssumption DEF TakesOver, CanTakeOver
<1> DEFINE r == [agents[a] EXCEPT !.task = t, !.status = "working", !.writable = TRUE]
           q == [agents[s] EXCEPT !.writable = FALSE, !.successor = a, !.status = "superseded",
                                  !.active = FALSE]
<1>2. agents' = [agents EXCEPT ![a] = r, ![s] = q]
  BY <1>1 DEF TakesOver, AgentTypes
<1>3. r \in Agent /\ q \in Agent
  <2>1. r \in Agent
    BY DEF AgentTypes, Agent, Statuses
  <2>2. q \in Agent
    BY DEF AgentTypes, Agent, Statuses
  <2> QED BY <2>1, <2>2
<1>4. /\ r.task = t /\ r.status = "working" /\ r.writable
      /\ r.active = agents[a].active /\ r.successor = agents[a].successor
      /\ r.restart = agents[a].restart /\ r.replaced = agents[a].replaced
      /\ q.task = agents[s].task /\ q.status = "superseded" /\ ~q.writable
      /\ ~q.active /\ q.successor = a
      /\ q.restart = agents[s].restart /\ q.replaced = agents[s].replaced
  BY DEF AgentTypes, Agent
<1> HIDE DEF r, q
<1> QED BY <1>1, <1>2, <1>3, <1>4 DEF AgentTypes, Others, Writable

LEMMA OwnerStopAgents ==
    ASSUME AgentTypes, NEW a \in Agents, OwnerStop(a)
    PROVE  /\ agents' \in [Agents -> Agent] /\ Others({a}) /\ Known(a)
           /\ ~agents'[a].active /\ ~agents'[a].writable /\ agents'[a].status = "stopped"
           /\ agents'[a].task = agents[a].task /\ agents'[a].successor = agents[a].successor
           /\ agents'[a].restart = agents[a].restart /\ agents'[a].replaced = agents[a].replaced
<1> DEFINE k == agents[a].task \in Tasks \ cancelled
                    /\ stage[agents[a].task] \notin {"released", "accepted"}
           r == [agents[a] EXCEPT !.active = FALSE, !.writable = FALSE, !.status = "stopped",
                                  !.stopped = @ \/ k]
<1>1. agents' = [agents EXCEPT ![a] = r]
  BY DEF OwnerStop, AgentTypes
<1>2. (agents[a].stopped \/ k) \in BOOLEAN
  BY DEF AgentTypes, Agent
<1> HIDE DEF k
<1>3. r \in Agent
  BY <1>2 DEF AgentTypes, Agent, Statuses
<1>4. /\ ~r.active /\ ~r.writable /\ r.status = "stopped" /\ r.task = agents[a].task
      /\ r.successor = agents[a].successor /\ r.restart = agents[a].restart
      /\ r.replaced = agents[a].replaced
  BY DEF AgentTypes, Agent
<1>5. Known(a)
  BY DEF OwnerStop
<1> HIDE DEF r
<1> QED BY <1>1, <1>3, <1>4, <1>5 DEF AgentTypes, Others

LEMMA RequestRestartAgents ==
    ASSUME AgentTypes, NEW a \in Agents, RequestRestart(a)
    PROVE  /\ agents' \in [Agents -> Agent] /\ Others({a}) /\ Known(a) /\ agents'[a].restart
           /\ agents'[a].active = agents[a].active /\ agents'[a].status = agents[a].status
           /\ agents'[a].task = agents[a].task /\ agents'[a].writable = agents[a].writable
           /\ agents'[a].successor = agents[a].successor
           /\ agents'[a].replaced = agents[a].replaced
<1>1. [agents[a] EXCEPT !.restart = TRUE] \in Agent
  BY DEF AgentTypes, Agent
<1> QED BY <1>1 DEF AgentTypes, RequestRestart, Others, Agent

LEMMA RequestReplacementAgents ==
    ASSUME AgentTypes, NEW a \in Agents, RequestReplacement(a)
    PROVE  /\ agents' \in [Agents -> Agent] /\ Others({a}) /\ agents[a].task \in Tasks
           /\ ~agents'[a].active /\ agents'[a].status = "offline"
           /\ agents'[a].task = agents[a].task /\ agents'[a].writable = agents[a].writable
           /\ agents'[a].successor = agents[a].successor
           /\ agents'[a].restart = agents[a].restart
<1> DEFINE r == [agents[a] EXCEPT !.active = FALSE, !.status = "offline", !.stopped = TRUE,
                                  !.replaced = TRUE]
<1>1. agents' = [agents EXCEPT ![a] = r]
  BY DEF RequestReplacement, AgentTypes
<1>2. r \in Agent
  BY DEF AgentTypes, Agent, Statuses
<1>3. /\ ~r.active /\ r.status = "offline" /\ r.task = agents[a].task
      /\ r.writable = agents[a].writable /\ r.successor = agents[a].successor
      /\ r.restart = agents[a].restart
  BY DEF AgentTypes, Agent
<1>4. agents[a].task \in Tasks
  BY DEF RequestReplacement
<1> HIDE DEF r
<1> QED BY <1>1, <1>2, <1>3, <1>4 DEF AgentTypes, Others

LEMMA BeginTaskAgents ==
    ASSUME AgentTypes, NEW a \in Agents, NEW t \in Tasks, BeginTask(a, t)
    PROVE  /\ agents' \in [Agents -> Agent] /\ Others({a}) /\ agents[a].task = Awaiting
           /\ agents'[a].task = t /\ agents'[a].status = "working"
           /\ agents'[a].active = agents[a].active /\ agents'[a].writable = agents[a].writable
           /\ agents'[a].successor = agents[a].successor
           /\ agents'[a].restart = agents[a].restart /\ agents'[a].replaced = agents[a].replaced
<1>1. [agents[a] EXCEPT !.task = t, !.status = "working"] \in Agent
  BY DEF AgentTypes, Agent, Statuses
<1> QED BY <1>1 DEF AgentTypes, BeginTask, Others, Agent

LEMMA CompleteAgents ==
    ASSUME AgentTypes, NEW a \in Agents, NEW t \in Tasks, Complete(a, t)
    PROVE  /\ agents' \in [Agents -> Agent] /\ Others({a}) /\ agents[a].task = t
           /\ ~agents'[a].active /\ agents'[a].status = "done"
           /\ agents'[a].task = agents[a].task /\ agents'[a].writable = agents[a].writable
           /\ agents'[a].successor = agents[a].successor
           /\ agents'[a].restart = agents[a].restart /\ agents'[a].replaced = agents[a].replaced
<1>1. [agents[a] EXCEPT !.active = FALSE, !.status = "done"] \in Agent
  BY DEF AgentTypes, Agent, Statuses
<1> QED BY <1>1 DEF AgentTypes, Complete, Others, Agent

LEMMA AwakeAgents ==
    ASSUME AgentTypes, NEW a \in Agents, Awake(a)
    PROVE  /\ agents' \in [Agents -> Agent] /\ Others({a})
           /\ agents'[a].active /\ agents'[a].status = "working"
           /\ agents'[a].task = agents[a].task /\ agents'[a].writable = agents[a].writable
           /\ agents'[a].successor = agents[a].successor
           /\ agents'[a].restart = agents[a].restart /\ agents'[a].replaced = agents[a].replaced
<1>1. [agents[a] EXCEPT !.active = TRUE, !.status = "working"] \in Agent
  BY DEF AgentTypes, Agent, Statuses
<1> QED BY <1>1 DEF AgentTypes, Awake, Others, Agent

LEMMA CancelAgents ==
    ASSUME AgentTypes, NEW t \in Tasks, Cancel(t)
    PROVE  /\ agents' \in [Agents -> Agent] /\ Others(On(t))
           /\ \A a \in On(t) :
                /\ ~agents'[a].active /\ ~agents'[a].writable /\ agents'[a].status = "cancelled"
                /\ agents'[a].task = t /\ agents'[a].successor = agents[a].successor
                /\ agents'[a].restart = agents[a].restart
                /\ agents'[a].replaced = agents[a].replaced
<1> DEFINE r(a) == [agents[a] EXCEPT !.active = FALSE, !.writable = FALSE,
                                     !.status = "cancelled", !.stopped = FALSE]
<1>1. agents' = [a \in Agents |-> IF a \notin On(t) THEN agents[a] ELSE r(a)]
  BY DEF Cancel
<1>2. \A a \in Agents :
        /\ r(a) \in Agent /\ ~r(a).active /\ ~r(a).writable /\ r(a).status = "cancelled"
        /\ r(a).task = agents[a].task /\ r(a).successor = agents[a].successor
        /\ r(a).restart = agents[a].restart /\ r(a).replaced = agents[a].replaced
  BY DEF AgentTypes, Agent, Statuses
<1> HIDE DEF r
<1> QED BY <1>1, <1>2 DEF AgentTypes, Others, On

LEMMA FinishPauseAgents ==
    ASSUME AgentTypes, FinishPause
    PROVE  /\ agents' \in [Agents -> Agent] /\ Others(Active)
           /\ \A a \in Active :
                /\ ~agents'[a].active /\ agents'[a].task = agents[a].task
                /\ agents'[a].successor = agents[a].successor
                /\ agents'[a].restart = agents[a].restart
                /\ agents'[a].replaced = agents[a].replaced
                /\ IF Continued(a)
                   THEN agents'[a].status = "offline" /\ agents'[a].writable = agents[a].writable
                   ELSE agents'[a].status = "paused" /\ ~agents'[a].writable
           /\ DOMAIN saved' = {a \in Active : ~Continued(a)}
           /\ \A a \in DOMAIN saved' : saved'[a] = SavedOwner(a, agents[a].writable)
<1> DEFINE O == {a \in Active : ~Continued(a)}
           r(a) == [agents[a] EXCEPT !.active = FALSE, !.writable = FALSE, !.status = "paused"]
           q(a) == [agents[a] EXCEPT !.active = FALSE, !.status = "offline"]
<1>1. /\ agents' = [a \in Agents |-> CASE a \in O -> r(a) [] a \in Active \ O -> q(a)
                                       [] OTHER -> agents[a]]
      /\ saved' = [a \in O |-> SavedOwner(a, agents[a].writable)]
  BY DEF FinishPause
<1>2. \A a \in Agents :
        /\ r(a) \in Agent /\ ~r(a).active /\ ~r(a).writable /\ r(a).status = "paused"
        /\ r(a).task = agents[a].task /\ r(a).successor = agents[a].successor
        /\ r(a).restart = agents[a].restart /\ r(a).replaced = agents[a].replaced
  BY DEF AgentTypes, Agent, Statuses
<1>3. \A a \in Agents :
        /\ q(a) \in Agent /\ ~q(a).active /\ q(a).writable = agents[a].writable
        /\ q(a).status = "offline"
        /\ q(a).task = agents[a].task /\ q(a).successor = agents[a].successor
        /\ q(a).restart = agents[a].restart /\ q(a).replaced = agents[a].replaced
  BY DEF AgentTypes, Agent, Statuses
<1>4. \A a \in O : a \in Active /\ ~Continued(a) /\ a \in Agents
  BY DEF Active
<1>5. \A a \in Active : a \in Agents /\ (a \in O <=> ~Continued(a))
  BY DEF Active
<1> HIDE DEF r, q, O
<1>6. \A a \in Agents : agents'[a] = IF a \in O THEN r(a)
                                     ELSE IF a \in Active THEN q(a) ELSE agents[a]
  BY <1>1
<1>7. agents' \in [Agents -> Agent] /\ Others(Active)
  <2>1. \A a \in Agents : agents'[a] \in Agent
    BY <1>2, <1>3, <1>6 DEF AgentTypes
  <2>2. agents' = [a \in Agents |-> agents'[a]]
    BY <1>1
  <2>3. Others(Active)
    BY <1>4, <1>6 DEF Others
  <2> QED BY <2>1, <2>2, <2>3
<1>8. ASSUME NEW a \in Active
      PROVE  /\ ~agents'[a].active /\ agents'[a].task = agents[a].task
             /\ agents'[a].successor = agents[a].successor
             /\ agents'[a].restart = agents[a].restart
             /\ agents'[a].replaced = agents[a].replaced
             /\ IF Continued(a)
                THEN agents'[a].status = "offline" /\ agents'[a].writable = agents[a].writable
                ELSE agents'[a].status = "paused" /\ ~agents'[a].writable
  BY <1>2, <1>3, <1>5, <1>6
<1>9. DOMAIN saved' = O /\ \A a \in O : saved'[a] = SavedOwner(a, agents[a].writable)
  BY <1>1
<1> QED BY <1>7, <1>8, <1>9 DEF O

LEMMA FinishResumeAgents ==
    ASSUME AgentTypes, PauseTypes, FinishResume
    PROVE  /\ agents' \in [Agents -> Agent] /\ Others(DOMAIN saved)
           /\ \A a \in DOMAIN saved :
                /\ agents'[a].active /\ agents'[a].writable = saved[a].writable
                /\ agents'[a].status = saved[a].status
                /\ agents'[a].task = agents[a].task /\ agents'[a].successor = agents[a].successor
                /\ agents'[a].restart = agents[a].restart
                /\ agents'[a].replaced = agents[a].replaced
<1> DEFINE r(a) == [agents[a] EXCEPT !.active = TRUE, !.writable = saved[a].writable,
                                     !.status = saved[a].status]
<1>1. agents' = [a \in Agents |-> IF a \notin DOMAIN saved THEN agents[a] ELSE r(a)]
  BY DEF FinishResume
<1>2. \A a \in DOMAIN saved :
        /\ a \in Agents /\ saved[a].writable \in BOOLEAN /\ saved[a].status \in Statuses
  BY DEF PauseTypes, SavedAgent
<1>3. \A a \in DOMAIN saved :
        /\ r(a) \in Agent /\ r(a).active /\ r(a).writable = saved[a].writable
        /\ r(a).status = saved[a].status
        /\ r(a).task = agents[a].task /\ r(a).successor = agents[a].successor
        /\ r(a).restart = agents[a].restart /\ r(a).replaced = agents[a].replaced
  BY <1>2 DEF AgentTypes, Agent
<1> HIDE DEF r
<1> QED BY <1>1, <1>2, <1>3 DEF AgentTypes, Others

(***************************************************************************)
(* Which steps change the agents, and what else they may be.               *)
(***************************************************************************)
\* The agent whom MainMoves and ClaimRepair wake is on the task.
Woken(a, t) == /\ MainMoves(t) \/ ClaimRepair(a, t)
               /\ agents[a].task = t /\ ~(agents[a].status = "superseded" /\ ~agents[a].active)
               /\ Awake(a)

\* A takeover is the end of one that register() or route_owner_repairs planned.
TakenOver(a, s, t) ==
    /\ TakesOver(a, s, t)
    /\ \/ FinishHandoff(a) /\ handoff[a] # None /\ handoff[a].source = s /\ handoff[a].task = t
       \/ FinishRoute /\ route # None

LEMMA NotifiedOn ==
    ASSUME AgentTypes, RosterTypes, NEW t \in Tasks, Notified(t) # None
    PROVE  Notified(t) \in On(t)
<1>1. {b \in On(t) : agents[b].writable /\ agents[b].status # "superseded"} \subseteq ToSet(roster)
  BY OwnershipAssumption DEF AgentTypes, RosterTypes, On
<1>2. roster \in Seq(Agents)
  BY DEF AgentTypes
<1>3. Notified(t) \in {b \in On(t) : agents[b].writable /\ agents[b].status # "superseded"}
  <2>1. CASE {b \in On(t) : agents[b].writable /\ agents[b].status # "superseded"} = {}
    BY <2>1 DEF Notified, First
  <2>2. CASE {b \in On(t) : agents[b].writable /\ agents[b].status # "superseded"} # {}
    BY <1>1, <1>2, <2>2, FirstIn DEF Notified
  <2> QED BY <2>1, <2>2
<1> QED BY <1>3

LEMMA AgentFrame ==
    ASSUME Types, [Next]_vars
    PROVE  \/ UNCHANGED agents
           \/ \E a \in Agents : \/ Registering(a) \/ GoOffline(a) \/ Reattach(a) \/ OwnerStop(a)
                                \/ RequestRestart(a) \/ RequestReplacement(a)
           \/ \E a \in Agents, t \in Tasks : BeginTask(a, t) \/ Complete(a, t) \/ Woken(a, t)
           \/ \E a, s \in Agents, t \in Tasks : TakenOver(a, s, t)
           \/ \E t \in Tasks : Cancel(t)
           \/ FinishPause \/ FinishResume
<1> DEFINE Goal ==
        \/ UNCHANGED agents
        \/ \E a \in Agents : \/ Registering(a) \/ GoOffline(a) \/ Reattach(a) \/ OwnerStop(a)
                             \/ RequestRestart(a) \/ RequestReplacement(a)
        \/ \E a \in Agents, t \in Tasks : BeginTask(a, t) \/ Complete(a, t) \/ Woken(a, t)
        \/ \E a, s \in Agents, t \in Tasks : TakenOver(a, s, t)
        \/ \E t \in Tasks : Cancel(t)
        \/ FinishPause \/ FinishResume
<1> SUFFICES Goal
  OBVIOUS
<1>1. ASSUME NEW a \in Agents,
             \/ RegisterForTask(a) \/ RegisterAwaiting(a)
             \/ \E s \in Agents : RegisterForDirection(a, s)
      PROVE  Goal
  BY <1>1 DEF RegisterForTask, RegisterAwaiting, RegisterForDirection
<1>2. ASSUME NEW a \in Agents,
             \/ OpenTerminal(a) \/ TerminalEnds(a) \/ Supersede(a) \/ GiveDirection(a)
             \/ Relaunch(a) \/ ResumeTerminal(a) \/ \E b \in Agents : OpenReplacement(a, b)
      PROVE  Goal
  BY <1>2 DEF OpenTerminal, TerminalEnds, Supersede, GiveDirection, Relaunch,
              ResumeTerminal, OpenReplacement
<1>3. ASSUME NEW a \in Agents, NEW t \in Tasks,
             Reintegrate(a, t) \/ \E s \in Agents : PlanRoute(t, a, s)
      PROVE  Goal
  BY <1>3 DEF Reintegrate, PlanRoute
<1>4. ASSUME NEW t \in Tasks, Release(t) \/ Answer(t)
      PROVE  Goal
  BY <1>4 DEF Release, Answer
<1>5. CASE BeginPause \/ BeginResume \/ StageDelivery \/ UNCHANGED vars
  BY <1>5 DEF BeginPause, BeginResume, StageDelivery, vars
<1>6. ASSUME NEW a \in Agents, FinishHandoff(a) PROVE Goal
  <2>1. handoff[a].source \in Agents /\ handoff[a].task \in Tasks
    BY <1>6 DEF FinishHandoff, Types, CallTypes, Handoff
  <2> QED BY <1>6, <2>1 DEF FinishHandoff, Refused, TakenOver
<1>7. CASE FinishRoute
  <2>1. route.agent \in Agents /\ route.source \in Agents /\ route.task \in Tasks
    BY <1>7 DEF FinishRoute, Types, CallTypes
  <2> QED BY <1>7, <2>1 DEF FinishRoute, Refused, TakenOver
<1>8. ASSUME NEW t \in Tasks, MainMoves(t) PROVE Goal
  <2>1. CASE UNCHANGED agents
    BY <2>1
  <2>2. CASE ~UNCHANGED agents
    <3>1. Notified(t) # None /\ ~Offline(Notified(t)) /\ Awake(Notified(t))
      BY <1>8, <2>2 DEF MainMoves
    <3>2. Notified(t) \in On(t)
      BY <3>1, NotifiedOn DEF Types
    <3> QED BY <1>8, <3>1, <3>2 DEF Woken, On, Offline
  <2> QED BY <2>1, <2>2
<1>9. ASSUME NEW a \in Agents, NEW t \in Tasks, ClaimRepair(a, t) PROVE Goal
  BY <1>9 DEF ClaimRepair, Woken, Offline
<1>10. ASSUME NEW a \in Agents,
              \/ GoOffline(a) \/ Reattach(a) \/ OwnerStop(a)
              \/ RequestRestart(a) \/ RequestReplacement(a)
       PROVE  Goal
  BY <1>10
<1>11. ASSUME NEW a \in Agents, NEW t \in Tasks, BeginTask(a, t) \/ Complete(a, t) PROVE Goal
  BY <1>11
<1>12. ASSUME NEW t \in Tasks, Cancel(t) PROVE Goal
  BY <1>12
<1>13. CASE FinishPause \/ FinishResume
  BY <1>13
<1> HIDE DEF Goal
<1> QED
  BY <1>1, <1>2, <1>3, <1>4, <1>5, <1>6, <1>7, <1>8, <1>9, <1>10, <1>11, <1>12, <1>13, Zenon
     DEF Next

(***************************************************************************)
(* Every step keeps the types.                                             *)
(***************************************************************************)
\* A known agent stays known and keeps a task, and only Registering adds one.
AgentsStep ==
    /\ agents' \in [Agents -> Agent]
    /\ \A a \in Agents :
        \/ agents'[a] = agents[a]
        \/ Known(a) /\ agents'[a].task # None /\ agents'[a].status # "none"
        \/ Registering(a)

LEMMA AgentsStepHolds == ASSUME Types, [Next]_vars PROVE AgentsStep
<1>1. AgentTypes /\ PauseTypes
  BY DEF Types
<1>2. \A a \in Agents : agents[a].task # None <=> Known(a)
  BY <1>1 DEF AgentTypes
<1>3. \A a \in Agents : agents[a].active => Known(a)
  BY <1>1 DEF AgentTypes
<1>4. ASSUME UNCHANGED agents PROVE AgentsStep
  BY <1>1, <1>4 DEF AgentsStep, AgentTypes
<1>5. ASSUME NEW a \in Agents, Registering(a) PROVE AgentsStep
  BY <1>1, <1>5, RegisteringAgents DEF AgentsStep, Others
<1>6. ASSUME NEW a \in Agents, GoOffline(a) PROVE AgentsStep
  BY <1>1, <1>2, <1>3, <1>6, GoOfflineAgents DEF AgentsStep, Others
<1>7. ASSUME NEW a \in Agents, Reattach(a) PROVE AgentsStep
  BY <1>1, <1>2, <1>7, ReattachAgents DEF AgentsStep, Others, Known, PauseTypes, SavedAgent
<1>8. ASSUME NEW a \in Agents, OwnerStop(a) PROVE AgentsStep
  BY <1>1, <1>2, <1>8, OwnerStopAgents DEF AgentsStep, Others
<1>9. ASSUME NEW a \in Agents, RequestRestart(a) PROVE AgentsStep
  BY <1>1, <1>2, <1>9, RequestRestartAgents DEF AgentsStep, Others, Known
<1>10. ASSUME NEW a \in Agents, RequestReplacement(a) PROVE AgentsStep
  BY <1>1, <1>2, <1>10, RequestReplacementAgents, OwnershipAssumption DEF AgentsStep, Others
<1>11. ASSUME NEW a \in Agents, NEW t \in Tasks, BeginTask(a, t) PROVE AgentsStep
  BY <1>1, <1>2, <1>11, BeginTaskAgents, OwnershipAssumption DEF AgentsStep, Others
<1>12. ASSUME NEW a \in Agents, NEW t \in Tasks, Complete(a, t) PROVE AgentsStep
  BY <1>1, <1>2, <1>12, CompleteAgents, OwnershipAssumption DEF AgentsStep, Others
<1>13. ASSUME NEW a \in Agents, NEW t \in Tasks, Woken(a, t) PROVE AgentsStep
  BY <1>1, <1>2, <1>13, AwakeAgents, OwnershipAssumption DEF AgentsStep, Others, Woken
<1>14. ASSUME NEW a \in Agents, NEW s \in Agents, NEW t \in Tasks, TakesOver(a, s, t)
       PROVE AgentsStep
  BY <1>1, <1>2, <1>14, TakesOverAgents, OwnershipAssumption DEF AgentsStep, Others
<1>15. ASSUME NEW t \in Tasks, Cancel(t) PROVE AgentsStep
  BY <1>1, <1>2, <1>15, CancelAgents, OwnershipAssumption DEF AgentsStep, Others, On
<1>16. CASE FinishPause
  BY <1>1, <1>2, <1>3, <1>16, FinishPauseAgents DEF AgentsStep, Others, Active
<1>17. CASE FinishResume
  BY <1>1, <1>2, <1>17, FinishResumeAgents DEF AgentsStep, Others, PauseTypes, SavedAgent
<1> QED
  BY <1>4, <1>5, <1>6, <1>7, <1>8, <1>9, <1>10, <1>11, <1>12, <1>13, <1>14, <1>15, <1>16,
     <1>17, AgentFrame DEF TakenOver

\* Terminals are never unopened.
LEMMA ControlTypesStep ==
    ASSUME Types, [Next]_vars
    PROVE  ControlTypes' /\ \A a \in Agents : terminal[a] # "none" => terminal'[a] # "none"
<1> DEFINE Goal == ControlTypes' /\ \A a \in Agents : terminal[a] # "none" => terminal'[a] # "none"
<1> SUFFICES Goal
  OBVIOUS
<1> USE DEF Types, ControlTypes
<1>1. ASSUME UNCHANGED control PROVE Goal
  BY <1>1 DEF control
<1>2. ASSUME NEW A \in SUBSET Agents, StopTerminals(A), UNCHANGED continues PROVE Goal
  BY <1>2 DEF StopTerminals
<1>3. ASSUME NEW a \in Agents, NEW p \in Agents \cup {None}, Opened(a, p) PROVE Goal
  BY <1>3 DEF Opened
<1> HIDE DEF Goal
<1>4. ASSUME NEW a \in Agents, OwnerStop(a) \/ RequestRestart(a) \/ RequestReplacement(a)
      PROVE  Goal
  BY <1>2, <1>4 DEF OwnerStop, RequestRestart, RequestReplacement
<1>5. ASSUME NEW t \in Tasks, Cancel(t) PROVE Goal
  BY <1>2, <1>5 DEF Cancel, On, Active
<1>6. ASSUME NEW a \in Agents, OpenTerminal(a) \/ \E b \in Agents : OpenReplacement(a, b)
      PROVE  Goal
  BY <1>3, <1>6 DEF OpenTerminal, OpenReplacement
<1>7. ASSUME NEW a \in Agents, TerminalEnds(a) \/ Supersede(a) \/ Relaunch(a) \/ ResumeTerminal(a)
      PROVE  Goal
  BY <1>7 DEF TerminalEnds, Supersede, Relaunch, ResumeTerminal, Goal
<1>8. ASSUME NEW a \in Agents,
             \/ GoOffline(a) \/ RegisterForTask(a) \/ RegisterAwaiting(a) \/ Reattach(a)
             \/ FinishHandoff(a) \/ GiveDirection(a)
             \/ \E s \in Agents : RegisterForDirection(a, s)
      PROVE  Goal
  BY <1>1, <1>8 DEF GoOffline, RegisterForTask, RegisterAwaiting, Registering, Reattach,
                    FinishHandoff, GiveDirection, RegisterForDirection
<1>9. ASSUME NEW a \in Agents, NEW t \in Tasks,
             \/ BeginTask(a, t) \/ Complete(a, t) \/ Reintegrate(a, t) \/ ClaimRepair(a, t)
             \/ \E s \in Agents : PlanRoute(t, a, s)
      PROVE  Goal
  BY <1>1, <1>9 DEF BeginTask, Complete, Reintegrate, ClaimRepair, PlanRoute
<1>10. ASSUME NEW t \in Tasks, Release(t) \/ Answer(t) \/ MainMoves(t) PROVE Goal
  BY <1>1, <1>10 DEF Release, Answer, MainMoves
<1>11. CASE FinishRoute \/ BeginPause \/ FinishPause \/ BeginResume \/ StageDelivery \/ FinishResume
  BY <1>1, <1>11 DEF FinishRoute, BeginPause, FinishPause, BeginResume, StageDelivery, FinishResume
<1>12. CASE UNCHANGED vars
  BY <1>1, <1>12 DEF vars
<1> QED BY <1>4, <1>5, <1>6, <1>7, <1>8, <1>9, <1>10, <1>11, <1>12, Zenon DEF Next

LEMMA TaskTypesStep == ASSUME Types, [Next]_vars PROVE TaskTypes'
<1> USE DEF Types, TaskTypes, tasks
<1>1. ASSUME UNCHANGED tasks PROVE TaskTypes'
  BY <1>1
<1>2. ASSUME NEW a \in Agents, NEW s \in Agents, NEW t \in Tasks, TakesOver(a, s, t)
      PROVE TaskTypes'
  BY <1>2 DEF TakesOver
<1>3. ASSUME NEW a \in Agents, FinishHandoff(a) PROVE TaskTypes'
  BY <1>1, <1>2, <1>3 DEF FinishHandoff, Refused, CallTypes, Handoff
<1>4. CASE FinishRoute
  BY <1>1, <1>2, <1>4 DEF FinishRoute, Refused, CallTypes
<1>5. ASSUME NEW a \in Agents, NEW t \in Tasks, BeginTask(a, t) \/ Complete(a, t)
      PROVE  TaskTypes'
  BY <1>5 DEF BeginTask, Complete
<1>6. ASSUME NEW a \in Agents, NEW t \in Tasks, Reintegrate(a, t) \/ ClaimRepair(a, t)
      PROVE  TaskTypes'
  BY <1>6 DEF Reintegrate, ClaimRepair
<1>7. ASSUME NEW t \in Tasks, Release(t) \/ Answer(t) \/ MainMoves(t) PROVE TaskTypes'
  BY <1>7 DEF Release, Answer, MainMoves
<1>8. ASSUME NEW t \in Tasks, Cancel(t) PROVE TaskTypes'
  BY <1>8 DEF Cancel
<1>9. ASSUME NEW a \in Agents,
             \/ OpenTerminal(a) \/ TerminalEnds(a) \/ GoOffline(a) \/ RegisterForTask(a)
             \/ RegisterAwaiting(a) \/ Reattach(a) \/ Supersede(a) \/ GiveDirection(a)
      PROVE  TaskTypes'
  BY <1>1, <1>9 DEF OpenTerminal, TerminalEnds, GoOffline, RegisterForTask, RegisterAwaiting,
                    Registering, Reattach, Supersede, GiveDirection
<1>10. ASSUME NEW a \in Agents,
             \/ OwnerStop(a) \/ RequestRestart(a) \/ Relaunch(a) \/ RequestReplacement(a)
             \/ ResumeTerminal(a)
             \/ \E b \in Agents : RegisterForDirection(a, b) \/ OpenReplacement(a, b)
      PROVE  TaskTypes'
  BY <1>1, <1>10 DEF OwnerStop, RequestRestart, Relaunch, RequestReplacement, ResumeTerminal,
                     RegisterForDirection, Registering, OpenReplacement
<1>11. ASSUME NEW a \in Agents, NEW t \in Tasks, \E s \in Agents : PlanRoute(t, a, s)
       PROVE  TaskTypes'
  BY <1>1, <1>11 DEF PlanRoute
<1>12. CASE \/ BeginPause \/ FinishPause \/ BeginResume \/ StageDelivery \/ FinishResume
            \/ UNCHANGED vars
  BY <1>1, <1>12 DEF BeginPause, FinishPause, BeginResume, StageDelivery, FinishResume, vars
<1> QED
  BY <1>3, <1>4, <1>5, <1>6, <1>7, <1>8, <1>9, <1>10, <1>11, <1>12, Zenon DEF Next

LEMMA DirectionTypesStep ==
    ASSUME Types, [Next]_vars
    PROVE  /\ DirectionTypes'
           /\ \A a \in Agents : agents[a].task = None => \/ directions'[a] = directions[a]
                                                         \/ directions'[a] = NoDirection
                                                         \/ Registering(a)
<1> DEFINE Goal == DirectionTypes' /\ \A a \in Agents : agents[a].task = None =>
                        \/ directions'[a] = directions[a]
                        \/ directions'[a] = NoDirection
                        \/ Registering(a)
<1> SUFFICES Goal
  OBVIOUS
<1> USE DEF Types
<1>1. DirectionTypes /\ NoDirection \in Direction /\ Awaiting # None
  BY OwnershipAssumption DEF NoDirection, Direction, DirectionTypes
<1>2. ASSUME UNCHANGED <<directions, history>> PROVE Goal
  BY <1>2 DEF history, DirectionTypes, Direction
<1>3. ASSUME UNCHANGED history, directions' \in [Agents -> Direction],
             \A a \in Agents : \/ agents[a].task # None \/ directions'[a] = directions[a]
                               \/ directions'[a] = NoDirection \/ Registering(a)
      PROVE  Goal
  BY <1>3 DEF history, DirectionTypes, Direction
<1>4. ASSUME NEW a \in Agents, NEW s \in Agents, RegisterForDirection(a, s) PROVE Goal
  <2>1. UNCHANGED history /\ Registering(a)
    BY <1>4 DEF RegisterForDirection, Registering, ghosts
  <2>2. agents[s].task # None
    BY <1>1, <1>4 DEF RegisterForDirection, Stranded
  <2>3. directions' = [directions EXCEPT ![s].state = "transferred", ![a] = directions[s]]
    BY <1>4 DEF RegisterForDirection
  <2>4. directions' \in [Agents -> Direction]
    BY <1>1, <2>3 DEF DirectionTypes, Direction
  <2>5. \A b \in Agents \ {a, s} : directions'[b] = directions[b]
    BY <1>1, <2>3 DEF DirectionTypes
  <2> HIDE DEF Goal
  <2> QED BY <1>3, <2>1, <2>2, <2>4, <2>5
<1>5. ASSUME NEW a \in Agents, GiveDirection(a) PROVE Goal
  <2>1. /\ given' = given + 1 /\ UNCHANGED begunFrom /\ agents[a].task # None
        /\ directions' = [directions EXCEPT ![a] = [state |-> "given", origin |-> given + 1]]
    BY <1>1, <1>5 DEF GiveDirection
  <2>2. \A b \in Agents : directions[b] \in Direction'
    BY <1>1, <2>1 DEF DirectionTypes, Direction
  <2>3. [state |-> "given", origin |-> given + 1] \in Direction'
    BY <1>1, <2>1 DEF DirectionTypes, Direction
  <2>4. DirectionTypes'
    BY <1>1, <2>1, <2>2, <2>3 DEF DirectionTypes
  <2> QED BY <1>1, <2>1, <2>4 DEF DirectionTypes
<1>6. ASSUME NEW a \in Agents, NEW t \in Tasks, BeginTask(a, t) PROVE Goal
  <2>1. /\ given' = given /\ begunFrom' = Append(begunFrom, directions[a].origin)
        /\ directions' = [directions EXCEPT ![a].state = "consumed"] /\ agents[a].task # None
    BY <1>1, <1>6 DEF BeginTask
  <2>2. directions' \in [Agents -> Direction'] /\ directions[a].origin \in Nat
    BY <1>1, <2>1 DEF DirectionTypes, Direction
  <2>3. DirectionTypes'
    BY <1>1, <2>1, <2>2 DEF DirectionTypes
  <2> QED BY <1>1, <2>1, <2>3 DEF DirectionTypes
<1>7. ASSUME NEW a \in Agents, OwnerStop(a) PROVE Goal
  BY <1>1, <1>3, <1>7 DEF OwnerStop, DirectionTypes
<1>8. ASSUME NEW t \in Tasks, Cancel(t) PROVE Goal
  BY <1>1, <1>3, <1>8 DEF Cancel, DirectionTypes
<1> HIDE DEF Goal
<1>9. ASSUME NEW a \in Agents,
             \/ OpenTerminal(a) \/ TerminalEnds(a) \/ GoOffline(a) \/ RegisterForTask(a)
             \/ RegisterAwaiting(a) \/ Reattach(a) \/ FinishHandoff(a) \/ Supersede(a)
      PROVE  Goal
  BY <1>2, <1>9 DEF OpenTerminal, TerminalEnds, GoOffline, RegisterForTask, RegisterAwaiting,
                    Registering, Reattach, FinishHandoff, Supersede, intake, ghosts
<1>10. ASSUME NEW a \in Agents,
              \/ RequestRestart(a) \/ Relaunch(a) \/ RequestReplacement(a) \/ ResumeTerminal(a)
              \/ \E b \in Agents : OpenReplacement(a, b)
       PROVE  Goal
  BY <1>2, <1>10 DEF RequestRestart, Relaunch, RequestReplacement, ResumeTerminal,
                     OpenReplacement, intake, ghosts
<1>11. ASSUME NEW a \in Agents, NEW t \in Tasks,
              \/ Complete(a, t) \/ Reintegrate(a, t) \/ ClaimRepair(a, t)
              \/ \E s \in Agents : PlanRoute(t, a, s)
       PROVE  Goal
  BY <1>2, <1>11 DEF Complete, Reintegrate, ClaimRepair, PlanRoute, intake, ghosts
<1>12. ASSUME NEW t \in Tasks, Release(t) \/ Answer(t) \/ MainMoves(t) PROVE Goal
  BY <1>2, <1>12 DEF Release, Answer, MainMoves, intake, ghosts
<1>13. CASE \/ FinishRoute \/ BeginPause \/ FinishPause \/ BeginResume \/ StageDelivery
            \/ FinishResume \/ UNCHANGED vars
  BY <1>2, <1>13 DEF FinishRoute, BeginPause, FinishPause, BeginResume, StageDelivery,
                     FinishResume, vars, intake, ghosts
<1> QED
  BY <1>4, <1>5, <1>6, <1>7, <1>8, <1>9, <1>10, <1>11, <1>12, <1>13, Zenon DEF Next

LEMMA CallTypesStep == ASSUME Types, [Next]_vars PROVE CallTypes'
<1> USE DEF Types
<1>1. ASSUME UNCHANGED <<handoff, bindings, route, spent>> PROVE CallTypes'
  BY <1>1 DEF CallTypes
<1>2. ASSUME NEW k \in Kinds, Spend(k) PROVE spent' \in [Kinds -> Nat]
  BY <1>2, SpendStep DEF CallTypes
<1>3. ASSUME UNCHANGED <<handoff, bindings, route>>, spent' \in [Kinds -> Nat] PROVE CallTypes'
  BY <1>3 DEF CallTypes
<1>4. ASSUME NEW a \in Agents, UNCHANGED <<bindings, route, spent>>,
             \/ UNCHANGED handoff
             \/ \E h \in Handoff \cup {None} : handoff' = [handoff EXCEPT ![a] = h]
      PROVE  CallTypes'
  BY <1>4 DEF CallTypes
<1>5. ASSUME NEW a \in Agents, agents[a].task \in Tasks PROVE Takeover(a) \in Handoff
  BY <1>5 DEF Takeover, Handoff
<1>6. \A k \in {"end", "stop", "restart", "replace", "pause", "cancel", "move", "reject"} :
        k \in Kinds
  BY DEF Kinds
<1>7. ASSUME NEW a \in Agents, TerminalEnds(a) PROVE CallTypes'
  <2>1. spent' \in [Kinds -> Nat]
    BY <1>2, <1>6, <1>7 DEF TerminalEnds, CallTypes
  <2> QED BY <1>7, <2>1 DEF TerminalEnds, CallTypes, intake
<1>8. ASSUME NEW a \in Agents, RegisterForTask(a) PROVE CallTypes'
  <2>1. UNCHANGED <<bindings, route, spent>>
    BY <1>8 DEF RegisterForTask, Registering, ghosts
  <2>2. CASE bindings[a] # None /\ handoff' = [handoff EXCEPT ![a] = bindings[a]]
    BY <1>4, <2>1, <2>2 DEF CallTypes
  <2>3. CASE \E s \in Carryable : handoff' = [handoff EXCEPT ![a] = Takeover(s)]
    <3>1. PICK s \in Carryable : handoff' = [handoff EXCEPT ![a] = Takeover(s)]
      BY <2>3
    <3>2. Takeover(s) \in Handoff
      BY <1>5, <3>1 DEF Carryable
    <3> QED BY <1>4, <2>1, <3>1, <3>2
  <2> QED BY <1>8, <2>2, <2>3 DEF RegisterForTask
<1>9. ASSUME NEW a \in Agents, RegisterAwaiting(a) \/ \E s \in Agents : RegisterForDirection(a, s)
      PROVE  CallTypes'
  BY <1>1, <1>9 DEF RegisterAwaiting, RegisterForDirection, Registering, ghosts
<1>10. ASSUME NEW a \in Agents, FinishHandoff(a) PROVE CallTypes'
  BY <1>4, <1>10 DEF FinishHandoff, intake, ghosts
<1>11. ASSUME NEW a \in Agents, NEW b \in Agents, OpenReplacement(b, a) PROVE CallTypes'
  <2>1. Takeover(a) \in Handoff
    BY <1>5, <1>11 DEF OpenReplacement
  <2> QED BY <1>11, <2>1 DEF OpenReplacement, CallTypes, calls, ghosts
<1>12. ASSUME NEW t \in Tasks, NEW a \in Agents, NEW s \in Agents, PlanRoute(t, a, s)
       PROVE  CallTypes'
  BY <1>12 DEF PlanRoute, CallTypes, intake, ghosts
<1>13. CASE FinishRoute
  BY <1>13 DEF FinishRoute, CallTypes, intake, ghosts
<1>14. ASSUME NEW a \in Agents, OwnerStop(a) \/ RequestRestart(a) \/ RequestReplacement(a)
       PROVE  CallTypes'
  <2>1. UNCHANGED <<handoff, bindings, route>>
    BY <1>14 DEF OwnerStop, RequestRestart, RequestReplacement, calls, intake
  <2>2. spent' \in [Kinds -> Nat]
    BY <1>2, <1>6, <1>14 DEF OwnerStop, RequestRestart, RequestReplacement
  <2> QED BY <1>3, <2>1, <2>2
<1>15. ASSUME NEW t \in Tasks, Cancel(t) \/ MainMoves(t) PROVE CallTypes'
  <2>1. UNCHANGED <<handoff, bindings, route>>
    BY <1>15 DEF Cancel, MainMoves, calls, intake
  <2>2. spent' \in [Kinds -> Nat]
    BY <1>2, <1>6, <1>15 DEF Cancel, MainMoves
  <2> QED BY <1>3, <2>1, <2>2
<1>16. ASSUME NEW t \in Tasks, Answer(t) PROVE CallTypes'
  <2>1. UNCHANGED <<handoff, bindings, route>>
    BY <1>16 DEF Answer, calls, intake
  <2>2. spent' \in [Kinds -> Nat]
    BY <1>2, <1>6, <1>16 DEF Answer, CallTypes
  <2> QED BY <1>3, <2>1, <2>2
<1>17. CASE BeginPause
  <2>1. spent' \in [Kinds -> Nat]
    BY <1>2, <1>6, <1>17 DEF BeginPause
  <2> QED BY <1>3, <1>17, <2>1 DEF BeginPause, calls, intake
<1>18. ASSUME NEW a \in Agents,
              \/ OpenTerminal(a) \/ GoOffline(a) \/ Reattach(a) \/ Supersede(a) \/ GiveDirection(a)
              \/ Relaunch(a) \/ ResumeTerminal(a)
       PROVE  CallTypes'
  BY <1>1, <1>18 DEF OpenTerminal, GoOffline, Reattach, Supersede, GiveDirection, Relaunch,
                     ResumeTerminal, intake, calls, ghosts
<1>19. ASSUME NEW a \in Agents, NEW t \in Tasks,
              \/ BeginTask(a, t) \/ Complete(a, t) \/ Reintegrate(a, t) \/ ClaimRepair(a, t)
       PROVE  CallTypes'
  BY <1>1, <1>19 DEF BeginTask, Complete, Reintegrate, ClaimRepair, intake, calls, ghosts
<1>20. ASSUME NEW t \in Tasks, Release(t) PROVE CallTypes'
  BY <1>1, <1>20 DEF Release, intake, calls, ghosts
<1>21. CASE FinishPause \/ BeginResume \/ StageDelivery \/ FinishResume \/ UNCHANGED vars
  BY <1>1, <1>21 DEF FinishPause, BeginResume, StageDelivery, FinishResume, vars, intake,
                     calls, ghosts
<1> QED
  BY <1>7, <1>8, <1>9, <1>10, <1>11, <1>12, <1>13, <1>14, <1>15, <1>16, <1>17, <1>18, <1>19,
     <1>20, <1>21, Zenon DEF Next

\* The saved sessions: which StageDelivery adds, and what the other steps do.
Staged(C) ==
    /\ DOMAIN saved' = C \cup DOMAIN saved
    /\ \A a \in DOMAIN saved \ C : saved'[a] = saved[a]
    /\ \A a \in C : /\ saved'[a] = SavedOwner(a, agents[a].task \in moved \/ agents[a].writable)
                    /\ Known(a) /\ agents[a].task \in Unserved /\ agents[a].successor = None

LEMMA StageDeliverySaved ==
    ASSUME AgentTypes, RosterTypes, StageDelivery
    PROVE  \E C \in SUBSET Agents : Staged(C)
<1> DEFINE C == {roster[Max(Candidates(t))] : t \in {u \in Unserved : Candidates(u) # {}}}
<1>1. saved' = [a \in C \cup DOMAIN saved |->
        IF a \in C THEN SavedOwner(a, agents[a].task \in moved \/ agents[a].writable)
        ELSE saved[a]]
  BY DEF StageDelivery
<1>2. ASSUME NEW a \in C
      PROVE  a \in Agents /\ Known(a) /\ agents[a].task \in Unserved /\ agents[a].successor = None
  <2>1. PICK t \in Unserved : Candidates(t) # {} /\ a = roster[Max(Candidates(t))]
    OBVIOUS
  <2>2. roster \in Seq(Agents) /\ DOMAIN roster = 1..Len(roster) /\ Len(roster) \in Nat
    BY DEF AgentTypes
  <2>3. Candidates(t) \in SUBSET (1..Len(roster))
    BY <2>2 DEF Candidates
  <2>4. Max(Candidates(t)) \in Candidates(t)
    BY <2>1, <2>2, <2>3, MaximumIn
  <2>5. a \in ToSet(roster) /\ agents[a].task = t /\ agents[a].successor = None
    BY <2>1, <2>2, <2>3, <2>4 DEF Candidates, ToSet
  <2> QED BY <2>1, <2>5 DEF RosterTypes
<1> HIDE DEF C
<1>5. Staged(C)
  BY <1>1, <1>2 DEF Staged
<1>6. C \in SUBSET Agents
  BY <1>2
<1> QED BY <1>5, <1>6

LEMMA CancelSaved ==
    ASSUME NEW t \in Tasks, Cancel(t)
    PROVE  /\ DOMAIN saved' = {a \in DOMAIN saved : saved[a].task # t}
           /\ \A a \in DOMAIN saved' : saved'[a] = saved[a]
BY DEF Cancel, Restrict

LEMMA BeginPauseSaved ==
    ASSUME BeginPause
    PROVE  DOMAIN saved' = {}
BY DEF BeginPause, Restrict

\* Only these steps touch the pause.
LEMMA PauseFrame ==
    ASSUME [Next]_vars
    PROVE  \/ UNCHANGED pause
           \/ \E t \in Tasks : Cancel(t)
           \/ BeginPause \/ FinishPause \/ BeginResume \/ StageDelivery \/ FinishResume
<1>1. ASSUME NEW a \in Agents,
             \/ OpenTerminal(a) \/ TerminalEnds(a) \/ GoOffline(a) \/ RegisterForTask(a)
             \/ RegisterAwaiting(a) \/ Reattach(a) \/ FinishHandoff(a) \/ Supersede(a)
             \/ GiveDirection(a)
      PROVE  UNCHANGED pause
  BY <1>1 DEF OpenTerminal, TerminalEnds, GoOffline, RegisterForTask, RegisterAwaiting,
              Registering, Reattach, FinishHandoff, Supersede, GiveDirection
<1>2. ASSUME NEW a \in Agents,
             \/ OwnerStop(a) \/ RequestRestart(a) \/ Relaunch(a) \/ RequestReplacement(a)
             \/ ResumeTerminal(a)
             \/ \E b \in Agents : RegisterForDirection(a, b) \/ OpenReplacement(a, b)
      PROVE  UNCHANGED pause
  BY <1>2 DEF OwnerStop, RequestRestart, Relaunch, RequestReplacement, ResumeTerminal,
              RegisterForDirection, Registering, OpenReplacement
<1>3. ASSUME NEW a \in Agents, NEW t \in Tasks,
             \/ BeginTask(a, t) \/ Complete(a, t) \/ Reintegrate(a, t) \/ ClaimRepair(a, t)
             \/ \E s \in Agents : PlanRoute(t, a, s)
      PROVE  UNCHANGED pause
  BY <1>3 DEF BeginTask, Complete, Reintegrate, ClaimRepair, PlanRoute
<1>4. ASSUME NEW t \in Tasks, Release(t) \/ Answer(t) \/ MainMoves(t) PROVE UNCHANGED pause
  BY <1>4 DEF Release, Answer, MainMoves
<1>5. ASSUME FinishRoute \/ UNCHANGED vars PROVE UNCHANGED pause
  BY <1>5 DEF FinishRoute, vars
<1> QED BY <1>1, <1>2, <1>3, <1>4, <1>5, Zenon DEF Next

\* Only Registering adds to the roster.
LEMMA RosterFrame ==
    ASSUME [Next]_vars
    PROVE  UNCHANGED roster \/ \E a \in Agents : Registering(a)
<1>1. ASSUME NEW a \in Agents,
             \/ RegisterForTask(a) \/ RegisterAwaiting(a)
             \/ \E b \in Agents : RegisterForDirection(a, b)
      PROVE  Registering(a)
  BY <1>1 DEF RegisterForTask, RegisterAwaiting, RegisterForDirection
<1>2. ASSUME NEW a \in Agents,
             \/ OpenTerminal(a) \/ TerminalEnds(a) \/ GoOffline(a) \/ Reattach(a)
             \/ FinishHandoff(a) \/ Supersede(a) \/ GiveDirection(a)
      PROVE  UNCHANGED roster
  BY <1>2 DEF OpenTerminal, TerminalEnds, GoOffline, Reattach, FinishHandoff, Supersede,
              GiveDirection, intake
<1>3. ASSUME NEW a \in Agents,
             \/ OwnerStop(a) \/ RequestRestart(a) \/ Relaunch(a) \/ RequestReplacement(a)
             \/ ResumeTerminal(a) \/ \E b \in Agents : OpenReplacement(a, b)
      PROVE  UNCHANGED roster
  BY <1>3 DEF OwnerStop, RequestRestart, Relaunch, RequestReplacement, ResumeTerminal,
              OpenReplacement, intake
<1>4. ASSUME NEW a \in Agents, NEW t \in Tasks,
             \/ BeginTask(a, t) \/ Complete(a, t) \/ Reintegrate(a, t) \/ ClaimRepair(a, t)
             \/ \E s \in Agents : PlanRoute(t, a, s)
      PROVE  UNCHANGED roster
  BY <1>4 DEF BeginTask, Complete, Reintegrate, ClaimRepair, PlanRoute, intake
<1>5. ASSUME NEW t \in Tasks, Release(t) \/ Answer(t) \/ MainMoves(t) \/ Cancel(t)
      PROVE  UNCHANGED roster
  BY <1>5 DEF Release, Answer, MainMoves, Cancel, intake
<1>6. ASSUME \/ FinishRoute \/ BeginPause \/ FinishPause \/ BeginResume \/ StageDelivery
             \/ FinishResume \/ UNCHANGED vars
      PROVE  UNCHANGED roster
  BY <1>6 DEF FinishRoute, BeginPause, FinishPause, BeginResume, StageDelivery, FinishResume,
              vars, intake
<1> QED BY <1>1, <1>2, <1>3, <1>4, <1>5, <1>6, Zenon DEF Next

LEMMA TypesStep == ASSUME Types, [Next]_vars PROVE Types'
<1>1. AgentsStep /\ ControlTypes' /\ TaskTypes' /\ DirectionTypes' /\ CallTypes'
  BY AgentsStepHolds, ControlTypesStep, TaskTypesStep, DirectionTypesStep, CallTypesStep
<1>2. AgentTypes /\ RosterTypes /\ PauseTypes
  BY DEF Types
<1>3. ASSUME NEW a \in Agents, Registering(a)
      PROVE  /\ agents'[a] = NewAgent /\ roster' = Append(roster, a) /\ ~Known(a)
             /\ terminal[a] # "none" /\ Others({a})
  BY <1>2, <1>3, RegisteringAgents DEF Registering
<1>4. ASSUME NEW a \in Agents
      PROVE  Known(a)' <=> Known(a) \/ Registering(a)
  <2>1. CASE Registering(a)
    BY <1>3, <2>1, AgentRecords DEF Known
  <2>2. CASE ~Registering(a)
    BY <1>1, <2>2 DEF AgentsStep, Known
  <2> QED BY <2>1, <2>2
<1>5. roster' \in Seq(Agents)
  <2>1. roster \in Seq(Agents)
    BY <1>2 DEF AgentTypes
  <2>2. ASSUME NEW a \in Agents, Registering(a) PROVE roster' \in Seq(Agents)
    <3>1. roster' = Append(roster, a)
      BY <1>3, <2>2
    <3> QED BY <2>1, <3>1
  <2> QED BY <2>1, <2>2, RosterFrame
<1>6. AgentTypes'
  <2> SUFFICES ASSUME NEW a \in Agents
               PROVE  (IF Known(a)
                       THEN agents[a].task # None /\ terminal[a] # "none"
                       ELSE /\ agents[a].task = None /\ ~agents[a].active
                            /\ agents[a].successor = None /\ directions[a].state = "none")'
    BY <1>1, <1>5 DEF AgentTypes, AgentsStep
  <2>1. CASE Registering(a)
    BY <1>3, <1>4, <2>1, ControlTypesStep, AgentRecords, OwnershipAssumption
  <2>2. CASE ~Registering(a) /\ Known(a)
    <3>1. agents[a].task # None /\ terminal[a] # "none"
      BY <1>2, <2>2 DEF AgentTypes
    <3> QED BY <1>1, <1>4, <2>2, <3>1, ControlTypesStep DEF AgentsStep
  <2>3. CASE ~Registering(a) /\ ~Known(a)
    <3>1. agents'[a] = agents[a] /\ ~Known(a)'
      BY <1>1, <1>4, <2>3 DEF AgentsStep
    <3>2. /\ agents[a].task = None /\ ~agents[a].active
          /\ agents[a].successor = None /\ directions[a].state = "none"
      BY <1>2, <2>3 DEF AgentTypes
    <3>3. directions'[a] = directions[a] \/ directions'[a] = NoDirection
      BY <2>3, <3>2, DirectionTypesStep
    <3>4. directions'[a].state = "none"
      BY <3>2, <3>3 DEF NoDirection
    <3> QED BY <3>1, <3>2, <3>4
  <2> QED BY <2>1, <2>2, <2>3
<1>7. RosterTypes'
  <2>1. CASE \E a \in Agents : Registering(a)
    <3>1. PICK a \in Agents : Registering(a)
      BY <2>1
    <3>2. roster' = Append(roster, a) /\ a \notin ToSet(roster) /\ roster \in Seq(Agents)
      BY <1>2, <1>3, <3>1 DEF RosterTypes, AgentTypes
    <3>3. /\ Len(roster') = Len(roster) + 1 /\ roster'[Len(roster) + 1] = a
          /\ \A i \in 1..Len(roster) : roster'[i] = roster[i] /\ roster[i] # a
          /\ DOMAIN roster' = 1..(Len(roster) + 1) /\ DOMAIN roster = 1..Len(roster)
      BY <3>2 DEF ToSet
    <3>4. IsInjective(roster')
      BY <1>2, <3>2, <3>3 DEF RosterTypes, IsInjective
    <3>5. ToSet(roster') = ToSet(roster) \cup {a}
      BY <3>2, <3>3 DEF ToSet
    <3>6. \A b \in Agents : Registering(b) => b = a
      BY <1>3, <3>1 DEF Others, Known
    <3>7. {b \in Agents : Known(b)}' = {b \in Agents : Known(b)} \cup {a}
      BY <1>4, <3>1, <3>6
    <3> QED BY <1>2, <3>4, <3>5, <3>7 DEF RosterTypes
  <2>2. CASE ~ \E a \in Agents : Registering(a)
    <3>1. roster' = roster
      BY <2>2, RosterFrame
    <3>2. {b \in Agents : Known(b)}' = {b \in Agents : Known(b)}
      BY <1>4, <2>2
    <3> QED BY <1>2, <3>1, <3>2 DEF RosterTypes
  <2> QED BY <2>1, <2>2
<1>8. PauseTypes'
  <2>1. \A a \in Agents : Known(a) => Known(a)'
    BY <1>4
  <2>2. ASSUME UNCHANGED saved, project' \in {"active", "draining", "paused", "resuming"},
               staged' \in BOOLEAN
        PROVE  PauseTypes'
    BY <1>2, <2>1, <2>2 DEF PauseTypes
  <2>3. ASSUME NEW a \in Agents, Known(a), NEW w \in BOOLEAN
        PROVE  SavedOwner(a, w) \in SavedAgent
    <3>1. agents[a] \in Agent /\ agents[a].task # None /\ agents[a].status # "none"
      BY <1>2, <2>3 DEF AgentTypes, Known
    <3> QED BY <3>1 DEF SavedOwner, SavedAgent, Agent
  <2>4. ASSUME UNCHANGED pause PROVE PauseTypes'
    BY <1>2, <2>2, <2>4 DEF pause, PauseTypes
  <2>5. ASSUME NEW t \in Tasks, Cancel(t) PROVE PauseTypes'
    BY <1>2, <2>1, <2>5, CancelSaved DEF PauseTypes, Cancel
  <2>6. CASE BeginPause
    BY <1>2, <2>6, BeginPauseSaved DEF PauseTypes, BeginPause
  <2>7. CASE FinishPause
    <3>1. /\ DOMAIN saved' \subseteq Active
          /\ \A a \in DOMAIN saved' : saved'[a] = SavedOwner(a, agents[a].writable)
      BY <1>2, <2>7, FinishPauseAgents
    <3>2. \A a \in Active : a \in Agents /\ Known(a) /\ agents[a].writable \in BOOLEAN
      BY <1>2 DEF AgentTypes, Active, Agent
    <3> QED BY <2>1, <2>3, <2>7, <3>1, <3>2 DEF PauseTypes, FinishPause
  <2>8. CASE StageDelivery
    <3>1. PICK C \in SUBSET Agents : Staged(C)
      BY <1>2, <2>8, StageDeliverySaved
    <3>2. \A a \in C : (agents[a].task \in moved \/ agents[a].writable) \in BOOLEAN
      BY <1>2 DEF AgentTypes, Agent
    <3>3. \A a \in C : saved'[a] \in SavedAgent /\ Known(a)
      BY <2>3, <3>1, <3>2 DEF Staged
    <3>4. \A a \in DOMAIN saved' : saved'[a] \in SavedAgent /\ a \in Agents /\ Known(a)
      BY <1>2, <3>1, <3>3 DEF Staged, PauseTypes
    <3> QED BY <1>2, <2>1, <2>8, <3>4 DEF PauseTypes, StageDelivery
  <2>9. CASE BeginResume \/ FinishResume
    BY <1>2, <2>2, <2>9 DEF PauseTypes, BeginResume, FinishResume
  <2> QED BY <2>4, <2>5, <2>6, <2>7, <2>8, <2>9, PauseFrame
<1> QED BY <1>1, <1>6, <1>7, <1>8 DEF Types

(***************************************************************************)
(* The variables keep their types, and a session has one agent: register() *)
(* makes one only for a session that has none.                             *)
(***************************************************************************)
THEOREM TypeCorrect == Spec => []TypeOK
<1>1. Types /\ [Next]_vars => Types'
  BY TypesStep
<1> QED BY <1>1, TypesInit, TypesImply, PTL DEF Spec

(***************************************************************************)
(* Write authority.                                                        *)
(***************************************************************************)
Suspended == project \in {"paused", "resuming"}

\* Neither has the copy that a resume is to give back.
AuthorityKept ==
    /\ SupersededReadOnly
    /\ Suspended => \A a \in DOMAIN saved : agents[a].successor # None => ~saved[a].writable

\* The task of an agent, and who took it over, only change while the gate is open.
SameOwner(a) ==
    agents'[a].task = agents[a].task /\ agents'[a].successor = agents[a].successor

LEMMA OwnedFrame ==
    ASSUME Types, [Next]_vars
    PROVE  \/ \A a \in Agents : SameOwner(a)
           \/ \E a \in Agents : Registering(a) \/ \E t \in Tasks : BeginTask(a, t)
           \/ \E a, s \in Agents, t \in Tasks : TakenOver(a, s, t)
<1> DEFINE Same == \A a \in Agents : SameOwner(a)
<1>1. AgentTypes /\ PauseTypes
  BY DEF Types
<1>2. ASSUME NEW b \in Agents,
             GoOffline(b) \/ Reattach(b) \/ OwnerStop(b) \/ RequestRestart(b) \/ RequestReplacement(b)
      PROVE  Same
  <2>1. Others({b}) /\ SameOwner(b)
    BY <1>1, <1>2, GoOfflineAgents, ReattachAgents, OwnerStopAgents, RequestRestartAgents,
       RequestReplacementAgents DEF SameOwner
  <2> QED BY <2>1 DEF Others, SameOwner
<1>3. ASSUME NEW b \in Agents, NEW t \in Tasks, Complete(b, t) \/ Woken(b, t)
      PROVE  Same
  <2>1. Others({b}) /\ SameOwner(b)
    BY <1>1, <1>3, CompleteAgents, AwakeAgents DEF Woken, SameOwner
  <2> QED BY <2>1 DEF Others, SameOwner
<1>4. ASSUME NEW t \in Tasks, Cancel(t)
      PROVE  Same
  BY <1>1, <1>4, CancelAgents DEF Others, SameOwner, On
<1>5. ASSUME FinishPause \/ FinishResume
      PROVE  Same
  <2>1. CASE FinishPause
    BY <1>1, <2>1, FinishPauseAgents DEF Others, SameOwner
  <2>2. CASE FinishResume
    BY <1>1, <2>2, FinishResumeAgents DEF Others, SameOwner
  <2> QED BY <1>5, <2>1, <2>2
<1>6. ASSUME UNCHANGED agents PROVE Same
  BY <1>6 DEF SameOwner
<1> HIDE DEF Same
<1>7. \/ Same
      \/ \E a \in Agents : Registering(a) \/ \E t \in Tasks : BeginTask(a, t)
      \/ \E a, s \in Agents, t \in Tasks : TakenOver(a, s, t)
  BY <1>2, <1>3, <1>4, <1>5, <1>6, AgentFrame
<1> QED BY <1>7 DEF Same

LEMMA OwnedStep ==
    ASSUME Types, [Next]_vars, NEW a \in Agents
    PROVE  SameOwner(a) \/ Open
<1>1. ASSUME NEW b \in Agents, Registering(b) \/ \E t \in Tasks : BeginTask(b, t) PROVE Open
  BY <1>1 DEF Registering, BeginTask, Working
<1>2. ASSUME NEW b \in Agents, NEW s \in Agents, NEW t \in Tasks, TakenOver(b, s, t) PROVE Open
  BY <1>2 DEF TakenOver, TakesOver, CanTakeOver
<1> QED BY <1>1, <1>2, OwnedFrame

LEMMA AuthorityStep ==
    ASSUME Types, AuthorityKept, [Next]_vars
    PROVE  AuthorityKept'
<1>1. AgentTypes /\ PauseTypes
  BY DEF Types
<1>2. SupersededReadOnly
  BY DEF AuthorityKept
<1>3. SupersededReadOnly'
  <2> SUFFICES ASSUME NEW a \in Agents, agents'[a].successor # None
               PROVE  ~agents'[a].writable
    BY DEF SupersededReadOnly
  <2>1. agents[a].successor # None => ~agents[a].writable
    BY <1>2 DEF SupersededReadOnly
  <2>2. ASSUME NEW b \in Agents,
               GoOffline(b) \/ Reattach(b) \/ RequestRestart(b) \/ RequestReplacement(b)
        PROVE  ~agents'[a].writable
    <3>1. /\ Others({b}) /\ agents'[b].successor = agents[b].successor
          /\ agents'[b].writable = agents[b].writable
      BY <1>1, <2>2, GoOfflineAgents, ReattachAgents, RequestRestartAgents, RequestReplacementAgents
    <3> QED BY <2>1, <3>1 DEF Others
  <2>3. ASSUME NEW b \in Agents, OwnerStop(b) PROVE ~agents'[a].writable
    BY <1>1, <2>1, <2>3, OwnerStopAgents DEF Others
  <2>4. ASSUME NEW b \in Agents, NEW t \in Tasks, BeginTask(b, t) \/ Complete(b, t) \/ Woken(b, t)
        PROVE  ~agents'[a].writable
    <3>1. /\ Others({b}) /\ agents'[b].successor = agents[b].successor
          /\ agents'[b].writable = agents[b].writable
      BY <1>1, <2>4, BeginTaskAgents, CompleteAgents, AwakeAgents DEF Woken
    <3> QED BY <2>1, <3>1 DEF Others
  <2>5. ASSUME NEW b \in Agents, Registering(b) PROVE ~agents'[a].writable
    BY <1>1, <2>1, <2>5, RegisteringAgents, AgentRecords DEF Others
  <2>6. ASSUME NEW b \in Agents, NEW s \in Agents, NEW t \in Tasks, TakesOver(b, s, t)
        PROVE  ~agents'[a].writable
    BY <1>1, <2>1, <2>6, TakesOverAgents DEF Others
  <2>7. ASSUME NEW t \in Tasks, Cancel(t) PROVE ~agents'[a].writable
    BY <1>1, <2>1, <2>7, CancelAgents DEF Others
  <2>8. CASE FinishPause
    BY <1>1, <2>1, <2>8, FinishPauseAgents DEF Others
  <2>9. CASE FinishResume
    <3>1. a \in DOMAIN saved /\ agents[a].successor # None => ~saved[a].writable
      BY <2>9 DEF AuthorityKept, Suspended, FinishResume
    <3> QED BY <1>1, <2>1, <2>9, <3>1, FinishResumeAgents DEF Others
  <2>10. CASE UNCHANGED agents
    BY <2>1, <2>10
  <2> QED BY <2>2, <2>3, <2>4, <2>5, <2>6, <2>7, <2>8, <2>9, <2>10, AgentFrame DEF TakenOver
<1>4. ASSUME Suspended', NEW a \in DOMAIN saved', agents'[a].successor # None
      PROVE  ~saved'[a].writable
  <2>1. a \in Agents
    BY TypesStep DEF Types, PauseTypes
  <2>2. Suspended => agents[a].successor # None
    BY <1>4, <2>1, OwnedStep DEF Suspended, Open, SameOwner
  <2>3. ASSUME Suspended, a \in DOMAIN saved, saved'[a] = saved[a] PROVE ~saved'[a].writable
    BY <2>2, <2>3 DEF AuthorityKept
  <2>4. CASE UNCHANGED pause \/ BeginResume
    BY <1>4, <2>3, <2>4 DEF pause, Suspended, BeginResume
  <2>5. ASSUME NEW t \in Tasks, Cancel(t) PROVE ~saved'[a].writable
    BY <1>4, <2>3, <2>5, CancelSaved DEF Suspended, Cancel
  <2>6. CASE FinishPause
    <3>1. /\ saved'[a] = SavedOwner(a, agents[a].writable)
          /\ agents'[a].successor = agents[a].successor
      BY <1>1, <1>4, <2>6, FinishPauseAgents
    <3> QED BY <1>2, <1>4, <2>1, <3>1 DEF SupersededReadOnly, SavedOwner
  <2>7. CASE StageDelivery
    <3>1. PICK C \in SUBSET Agents : Staged(C)
      BY <2>7, StageDeliverySaved DEF Types
    <3>2. Suspended
      BY <2>7 DEF StageDelivery, Suspended
    <3> QED BY <1>4, <2>2, <2>3, <3>1, <3>2 DEF Staged
  <2>8. CASE BeginPause \/ FinishResume
    BY <1>4, <2>8 DEF Suspended, BeginPause, FinishResume
  <2> QED BY <2>4, <2>5, <2>6, <2>7, <2>8, PauseFrame
<1> QED BY <1>3, <1>4 DEF AuthorityKept

(***************************************************************************)
(* An agent whose task was taken over never gets its write authority back. *)
(* A pause keeps the authority of the agents it saves and a resume hands   *)
(* it out again, so the saved copy must be read-only too                   *)
(* (finish_project_pause, stage_required_delivery_resumes).                *)
(***************************************************************************)
THEOREM SupersededStaysReadOnly == Spec => []SupersededReadOnly
<1>1. Init => AuthorityKept
  BY AgentRecords DEF Init, AuthorityKept, SupersededReadOnly
<1>2. Types /\ AuthorityKept /\ [Next]_vars => Types' /\ AuthorityKept'
  BY TypesStep, AuthorityStep
<1>3. AuthorityKept => SupersededReadOnly
  BY DEF AuthorityKept
<1> QED BY <1>1, <1>2, <1>3, TypesInit, PTL DEF Spec

(***************************************************************************)
(* What the closed gate keeps.                                             *)
(***************************************************************************)
LEMMA TasksFrame ==
    ASSUME Types, [Next]_vars
    PROVE  \/ UNCHANGED tasks
           \/ \E a \in Agents, t \in Tasks :
                BeginTask(a, t) \/ Complete(a, t) \/ Reintegrate(a, t) \/ ClaimRepair(a, t)
           \/ \E t \in Tasks : Release(t) \/ Answer(t) \/ MainMoves(t) \/ Cancel(t)
           \/ \E a, s \in Agents, t \in Tasks : TakesOver(a, s, t)
<1> DEFINE Goal ==
        \/ UNCHANGED tasks
        \/ \E a \in Agents, t \in Tasks :
             BeginTask(a, t) \/ Complete(a, t) \/ Reintegrate(a, t) \/ ClaimRepair(a, t)
        \/ \E t \in Tasks : Release(t) \/ Answer(t) \/ MainMoves(t) \/ Cancel(t)
        \/ \E a, s \in Agents, t \in Tasks : TakesOver(a, s, t)
<1> SUFFICES Goal
  OBVIOUS
<1>1. ASSUME NEW a \in Agents,
             \/ OpenTerminal(a) \/ TerminalEnds(a) \/ GoOffline(a) \/ RegisterForTask(a)
             \/ RegisterAwaiting(a) \/ Reattach(a) \/ Supersede(a) \/ GiveDirection(a)
      PROVE  Goal
  BY <1>1 DEF OpenTerminal, TerminalEnds, GoOffline, RegisterForTask, RegisterAwaiting,
              Registering, Reattach, Supersede, GiveDirection
<1>2. ASSUME NEW a \in Agents,
             \/ OwnerStop(a) \/ RequestRestart(a) \/ Relaunch(a) \/ RequestReplacement(a)
             \/ ResumeTerminal(a)
             \/ \E b \in Agents : RegisterForDirection(a, b) \/ OpenReplacement(a, b)
      PROVE  Goal
  BY <1>2 DEF OwnerStop, RequestRestart, Relaunch, RequestReplacement, ResumeTerminal,
              RegisterForDirection, Registering, OpenReplacement
<1>3. ASSUME NEW a \in Agents, NEW t \in Tasks, NEW s \in Agents, PlanRoute(t, a, s)
      PROVE  Goal
  BY <1>3 DEF PlanRoute
<1>4. ASSUME NEW a \in Agents, FinishHandoff(a) PROVE Goal
  <2>1. handoff[a].source \in Agents /\ handoff[a].task \in Tasks
    BY <1>4 DEF FinishHandoff, Types, CallTypes, Handoff
  <2> QED BY <1>4, <2>1 DEF FinishHandoff, Refused
<1>5. CASE FinishRoute
  <2>1. route.agent \in Agents /\ route.source \in Agents /\ route.task \in Tasks
    BY <1>5 DEF FinishRoute, Types, CallTypes
  <2> QED BY <1>5, <2>1 DEF FinishRoute, Refused
<1>6. CASE \/ BeginPause \/ FinishPause \/ BeginResume \/ StageDelivery \/ FinishResume
           \/ UNCHANGED vars
  BY <1>6 DEF BeginPause, FinishPause, BeginResume, StageDelivery, FinishResume, vars
<1>7. ASSUME NEW a \in Agents, NEW t \in Tasks,
             BeginTask(a, t) \/ Complete(a, t) \/ Reintegrate(a, t) \/ ClaimRepair(a, t)
      PROVE  Goal
  BY <1>7
<1>8. ASSUME NEW t \in Tasks, Release(t) \/ Answer(t) \/ MainMoves(t) \/ Cancel(t) PROVE Goal
  BY <1>8
<1> HIDE DEF Goal
<1> QED BY <1>1, <1>2, <1>3, <1>4, <1>5, <1>6, <1>7, <1>8, Zenon DEF Next

LEMMA ClosedTasks ==
    ASSUME Types, [Next]_vars
    PROVE  UNCHANGED tasks \/ Open \/ \E t \in Tasks : Cancel(t)
<1>1. ASSUME NEW a \in Agents, NEW t \in Tasks,
             BeginTask(a, t) \/ Complete(a, t) \/ Reintegrate(a, t) \/ ClaimRepair(a, t)
      PROVE  Open
  BY <1>1 DEF BeginTask, Complete, Reintegrate, ClaimRepair, Working
<1>2. ASSUME NEW t \in Tasks, Release(t) \/ Answer(t) \/ MainMoves(t) PROVE Open
  BY <1>2 DEF Release, Answer, MainMoves
<1>3. ASSUME NEW a \in Agents, NEW s \in Agents, NEW t \in Tasks, TakesOver(a, s, t) PROVE Open
  BY <1>3 DEF TakesOver, CanTakeOver
<1> QED BY <1>1, <1>2, <1>3, TasksFrame

\* Only a session that the project is resumed with is brought back.
LEMMA ActiveStep ==
    ASSUME Types, [Next]_vars, NEW a \in Agents, agents'[a].active
    PROVE  agents[a].active \/ Open \/ a \in DOMAIN saved
<1>1. AgentTypes /\ PauseTypes
  BY DEF Types
<1>2. ASSUME NEW b \in Agents,
             GoOffline(b) \/ OwnerStop(b) \/ RequestReplacement(b) \/ Registering(b)
             \/ \E t \in Tasks : BeginTask(b, t) \/ Complete(b, t)
      PROVE  Open
  BY <1>2 DEF GoOffline, OwnerStop, RequestReplacement, Registering, BeginTask, Complete, Working
<1>3. ASSUME NEW b \in Agents, NEW t \in Tasks, Woken(b, t) PROVE Open
  BY <1>3 DEF Woken, MainMoves, ClaimRepair
<1>4. ASSUME NEW b \in Agents, NEW s \in Agents, NEW t \in Tasks, TakesOver(b, s, t) PROVE Open
  BY <1>1, <1>4, TakesOverAgents
<1>5. ASSUME NEW b \in Agents, Reattach(b) PROVE agents[a].active \/ Open \/ a \in DOMAIN saved
  <2>1. Others({b}) /\ (b \in DOMAIN saved \/ Open)
    BY <1>1, <1>5, ReattachAgents DEF Reattach, Open
  <2> QED BY <2>1 DEF Others
<1>6. ASSUME NEW b \in Agents, RequestRestart(b) PROVE Open
  BY <1>6 DEF RequestRestart
<1>7. ASSUME NEW t \in Tasks, Cancel(t) PROVE agents[a].active
  BY <1>1, <1>7, CancelAgents DEF Others
<1>8. ASSUME FinishPause PROVE Open
  BY <1>8 DEF FinishPause, Open
<1>9. ASSUME FinishResume PROVE agents[a].active \/ a \in DOMAIN saved
  BY <1>1, <1>9, FinishResumeAgents DEF Others
<1> QED BY <1>2, <1>3, <1>4, <1>5, <1>6, <1>7, <1>8, <1>9, AgentFrame DEF TakenOver

\* A terminal continues what it was opened to continue, and that was gone.
LEMMA ContinuesStep ==
    ASSUME Types, [Next]_vars, NEW a \in Agents
    PROVE  \/ continues'[a] = continues[a]
           \/ /\ terminal[a] = "none"
              /\ continues'[a] = None \/ (continues'[a] \in Agents /\ Gone(continues'[a]))
<1> DEFINE Goal ==
        \/ continues'[a] = continues[a]
        \/ /\ terminal[a] = "none"
           /\ continues'[a] = None \/ (continues'[a] \in Agents /\ Gone(continues'[a]))
<1> SUFFICES Goal
  OBVIOUS
<1>1. ASSUME NEW b \in Agents, NEW p \in Agents \cup {None}, Opened(b, p)
      PROVE  Goal
  <2>1. /\ terminal[b] = "none" /\ continues' = [continues EXCEPT ![b] = p]
        /\ p # None => Gone(p)
    BY <1>1 DEF Opened
  <2>2. continues \in [Agents -> Agents \cup {None}]
    BY DEF Types, ControlTypes
  <2>3. CASE a = b
    BY <2>1, <2>2, <2>3
  <2>4. CASE a # b
    BY <2>1, <2>2, <2>4
  <2> QED BY <2>3, <2>4
<1>9. ASSUME UNCHANGED continues PROVE Goal
  BY <1>9
<1> HIDE DEF Goal
<1>2. ASSUME NEW b \in Agents, OpenTerminal(b) \/ \E c \in Agents : OpenReplacement(b, c)
      PROVE  Goal
  BY <1>1, <1>2 DEF OpenTerminal, OpenReplacement
<1>3. ASSUME NEW b \in Agents,
             \/ TerminalEnds(b) \/ GoOffline(b) \/ RegisterForTask(b)
             \/ RegisterAwaiting(b) \/ Reattach(b) \/ FinishHandoff(b) \/ Supersede(b)
             \/ GiveDirection(b)
      PROVE  Goal
  BY <1>3, <1>9 DEF TerminalEnds, GoOffline, RegisterForTask, RegisterAwaiting,
              Registering, Reattach, FinishHandoff, Supersede, GiveDirection, control
<1>4. ASSUME NEW b \in Agents,
             \/ OwnerStop(b) \/ RequestRestart(b) \/ Relaunch(b) \/ RequestReplacement(b)
             \/ ResumeTerminal(b) \/ \E c \in Agents : RegisterForDirection(b, c)
      PROVE  Goal
  BY <1>4, <1>9 DEF OwnerStop, RequestRestart, Relaunch, RequestReplacement, ResumeTerminal,
              RegisterForDirection, Registering, control
<1>5. ASSUME NEW b \in Agents, NEW t \in Tasks,
             \/ BeginTask(b, t) \/ Complete(b, t) \/ Reintegrate(b, t) \/ ClaimRepair(b, t)
             \/ \E s \in Agents : PlanRoute(t, b, s)
      PROVE  Goal
  BY <1>5, <1>9 DEF BeginTask, Complete, Reintegrate, ClaimRepair, PlanRoute, control
<1>6. ASSUME NEW t \in Tasks, Release(t) \/ Answer(t) \/ MainMoves(t) \/ Cancel(t)
      PROVE  Goal
  BY <1>6, <1>9 DEF Release, Answer, MainMoves, Cancel, control
<1>7. ASSUME \/ FinishRoute \/ BeginPause \/ FinishPause \/ BeginResume \/ StageDelivery
             \/ FinishResume \/ UNCHANGED vars
      PROVE  Goal
  BY <1>7, <1>9 DEF FinishRoute, BeginPause, FinishPause, BeginResume, StageDelivery, FinishResume,
              vars, control
<1> QED BY <1>2, <1>3, <1>4, <1>5, <1>6, <1>7, Zenon DEF Next

(***************************************************************************)
(* The pause.  While the project is suspended, the saved sessions are those *)
(* of the agents that worked when the gate closed, but the ones that the   *)
(* owner cancelled or whose conversation another agent carries on.         *)
(***************************************************************************)
Kin == {a \in Agents : \E b \in Agents : atPause.agents[b].active /\ continues[b] = a}

Held == {a \in Agents \ Kin : atPause.agents[a].active /\ atPause.agents[a].task \notin cancelled}

OwnersFrozen ==
    \A a \in Agents :
        /\ agents[a].task = atPause.agents[a].task
        /\ agents[a].successor = atPause.agents[a].successor
        /\ atPause.agents[a].active => Known(a)

TasksFrozen ==
    \A t \in Tasks \ cancelled :
        stage[t] = atPause.stage[t] /\ (t \in moved <=> t \in atPause.moved)

HeldSaved ==
    \A a \in Held : /\ a \in DOMAIN saved
                    /\ saved[a].status = atPause.agents[a].status
                    /\ saved[a].writable = atPause.agents[a].writable

SavedTasks == \A a \in DOMAIN saved : saved[a].task = agents[a].task

OnlySaved == \A a \in Agents : agents[a].active => a \in DOMAIN saved

NoRival ==
    \A a \in DOMAIN saved, b \in Held :
        atPause.agents[a].active \/ agents[a].task # agents[b].task

PauseKept ==
    Suspended =>
        OwnersFrozen /\ TasksFrozen /\ HeldSaved /\ SavedTasks /\ OnlySaved /\ NoRival

LEMMA PauseBegins ==
    ASSUME Types, FinishPause
    PROVE  PauseKept'
<1>1. AgentTypes /\ atPause' = [agents |-> agents, stage |-> stage, moved |-> moved]
  BY DEF Types, FinishPause
<1>2. UNCHANGED <<stage, moved, cancelled, continues>>
  BY DEF FinishPause, tasks, control
<1>3. /\ Others(Active) /\ \A a \in Active : /\ ~agents'[a].active /\ agents'[a].task = agents[a].task
                                             /\ agents'[a].successor = agents[a].successor
      /\ DOMAIN saved' = {a \in Active : ~Continued(a)}
      /\ \A a \in DOMAIN saved' : saved'[a] = SavedOwner(a, agents[a].writable)
  BY <1>1, FinishPauseAgents
<1>4. \A a \in Agents : /\ agents'[a].task = agents[a].task /\ ~agents'[a].active
                        /\ agents'[a].successor = agents[a].successor
  BY <1>3 DEF Others, Active
<1>5. AgentsStep
  BY AgentsStepHolds DEF Next
<1>6. OwnersFrozen'
  <2> SUFFICES ASSUME NEW a \in Agents, agents[a].active PROVE Known(a)'
    BY <1>1, <1>4 DEF OwnersFrozen
  <2>1. Known(a)
    BY <1>1 DEF AgentTypes
  <2> QED BY <1>1, <1>5, <2>1, RegisteringAgents DEF AgentsStep, Known
<1>7. TasksFrozen'
  BY <1>1, <1>2 DEF TasksFrozen
<1>8. \A a \in DOMAIN saved' :
            /\ a \in Agents /\ saved'[a].task = agents[a].task
            /\ saved'[a].status = agents[a].status /\ saved'[a].writable = agents[a].writable
  <2> SUFFICES ASSUME NEW a \in DOMAIN saved'
               PROVE  /\ a \in Agents /\ saved'[a].task = agents[a].task
                      /\ saved'[a].status = agents[a].status
                      /\ saved'[a].writable = agents[a].writable
    OBVIOUS
  <2>1. saved'[a] = [task |-> agents[a].task, status |-> agents[a].status,
                     writable |-> agents[a].writable]
    BY <1>3 DEF SavedOwner
  <2>2. a \in Agents
    BY <1>3 DEF Active
  <2> QED BY <2>1, <2>2
<1>9. \A a \in Held' : a \in Active /\ ~Continued(a)
  BY <1>1, <1>2 DEF Held, Kin, Continued, Active
<1>10. HeldSaved'
  BY <1>1, <1>3, <1>8, <1>9 DEF HeldSaved
<1>11. SavedTasks' /\ OnlySaved'
  BY <1>4, <1>8 DEF SavedTasks, OnlySaved
<1>12. NoRival'
  BY <1>1, <1>3 DEF NoRival, Active
<1> QED BY <1>6, <1>7, <1>10, <1>11, <1>12 DEF PauseKept

LEMMA PauseKeptStep ==
    ASSUME Types, PauseKept, [Next]_vars
    PROVE  PauseKept'
<1>1. Types'
  BY TypesStep
<1>2. AgentTypes /\ RosterTypes /\ PauseTypes /\ PauseTypes'
  BY <1>1 DEF Types
<1>3. CASE FinishPause
  BY <1>3, PauseBegins
<1>4. CASE BeginPause \/ FinishResume
  BY <1>4 DEF BeginPause, FinishResume, PauseKept, Suspended
<1>5. CASE ~Suspended /\ ~FinishPause
  <2>1. ~Suspended'
    BY <1>5, PauseFrame DEF pause, Cancel, BeginPause, BeginResume, StageDelivery, FinishResume,
       Suspended
  <2> QED BY <2>1 DEF PauseKept
<1>6. ASSUME Suspended, ~BeginPause, ~FinishResume, ~FinishPause
      PROVE  PauseKept'
  <2>1. OwnersFrozen /\ TasksFrozen /\ HeldSaved /\ SavedTasks /\ OnlySaved /\ NoRival
    BY <1>6 DEF PauseKept
  <2>2. ~Open
    BY <1>6 DEF Open, Suspended
  <2>3. \A a \in Agents : SameOwner(a)
    BY <2>2, OwnedStep
  <2>4. UNCHANGED tasks \/ \E t \in Tasks : Cancel(t)
    BY <2>2, ClosedTasks
  <2>5. UNCHANGED atPause
    BY <1>6, PauseFrame DEF pause, Cancel, BeginResume, StageDelivery
  <2>6. \A a \in Agents : Known(a) => Known(a)'
    <3>1. AgentsStep
      BY AgentsStepHolds
    <3> QED BY <1>2, <3>1, RegisteringAgents DEF AgentsStep, Known
  <2>7. cancelled \subseteq cancelled'
    BY <2>4 DEF tasks, Cancel
  <2>8. Held' \subseteq Held
    <3> SUFFICES ASSUME NEW a \in Held', NEW b \in Agents, atPause.agents[b].active, continues[b] = a
                 PROVE  FALSE
      BY <2>5, <2>7 DEF Held, Kin
    <3>1. terminal[b] # "none"
      BY <1>2, <2>1 DEF OwnersFrozen, AgentTypes
    <3>2. continues'[b] = a
      BY <3>1, ContinuesStep
    <3> QED BY <2>5, <3>2 DEF Held, Kin
  <2>9. OwnersFrozen'
    BY <2>1, <2>3, <2>5, <2>6 DEF OwnersFrozen, SameOwner
  <2>10. TasksFrozen'
    <3>1. ASSUME NEW t \in Tasks, Cancel(t) PROVE TasksFrozen'
      BY <2>1, <2>5, <3>1 DEF TasksFrozen, Cancel, Types, TaskTypes
    <3>2. CASE UNCHANGED tasks
      BY <2>1, <2>5, <3>2 DEF TasksFrozen, tasks
    <3> QED BY <2>4, <3>1, <3>2
  <2>11. \A a \in DOMAIN saved : a \in Agents
    BY <1>2 DEF PauseTypes
  <2>12. ASSUME UNCHANGED saved PROVE PauseKept'
    <3>1. HeldSaved'
      BY <2>1, <2>5, <2>8, <2>12 DEF HeldSaved
    <3>2. SavedTasks'
      BY <2>1, <2>3, <2>11, <2>12 DEF SavedTasks, SameOwner
    <3>3. OnlySaved'
      BY <2>1, <2>2, <2>12, ActiveStep DEF OnlySaved
    <3>4. \A b \in Held' : b \in Held /\ b \in Agents
      BY <2>8 DEF Held
    <3>5. NoRival'
      BY <2>1, <2>3, <2>5, <2>11, <2>12, <3>4 DEF NoRival, SameOwner
    <3> QED BY <2>9, <2>10, <3>1, <3>2, <3>3, <3>5 DEF PauseKept
  <2>13. ASSUME NEW t \in Tasks, Cancel(t) PROVE PauseKept'
    <3>1. /\ DOMAIN saved' = {a \in DOMAIN saved : saved[a].task # t}
          /\ \A a \in DOMAIN saved' : saved'[a] = saved[a]
      BY <2>13, CancelSaved
    <3>2. t \in cancelled'
      BY <2>13 DEF Cancel
    <3>3. HeldSaved'
      <4> SUFFICES ASSUME NEW a \in Held'
                   PROVE  /\ a \in DOMAIN saved'
                          /\ saved'[a].status = atPause.agents[a].status
                          /\ saved'[a].writable = atPause.agents[a].writable
        BY <2>5 DEF HeldSaved
      <4>1. a \in Held /\ atPause.agents[a].task # t /\ a \in Agents
        BY <2>5, <2>8, <3>2 DEF Held
      <4>2. a \in DOMAIN saved /\ saved[a].task # t
        BY <2>1, <4>1 DEF HeldSaved, SavedTasks, OwnersFrozen
      <4> QED BY <2>1, <3>1, <4>1, <4>2 DEF HeldSaved
    <3>4. SavedTasks'
      BY <2>1, <2>3, <2>11, <3>1 DEF SavedTasks, SameOwner
    <3>5. OnlySaved'
      <4> SUFFICES ASSUME NEW a \in Agents, agents'[a].active PROVE a \in DOMAIN saved'
        BY DEF OnlySaved
      <4>1. a \notin On(t) /\ agents[a].active
        BY <1>2, <2>13, CancelAgents DEF Others
      <4>2. a \in DOMAIN saved /\ saved[a].task # t
        BY <2>1, <4>1 DEF OnlySaved, SavedTasks, On
      <4> QED BY <3>1, <4>2
    <3>6. \A b \in Held' : b \in Held /\ b \in Agents
      BY <2>8 DEF Held
    <3>7. NoRival'
      BY <2>1, <2>3, <2>5, <2>11, <3>1, <3>6 DEF NoRival, SameOwner
    <3> QED BY <2>9, <2>10, <3>3, <3>4, <3>5, <3>7 DEF PauseKept
  <2>14. CASE StageDelivery
    <3>1. PICK C \in SUBSET Agents : Staged(C)
      BY <1>2, <2>14, StageDeliverySaved
    <3>2. UNCHANGED agents
      BY <2>14 DEF StageDelivery
    <3>3. \A a \in C : \A b \in DOMAIN saved : saved[b].task # agents[a].task
      BY <3>1 DEF Staged, Unserved
    <3>4. \A a \in C : a \notin DOMAIN saved
      BY <2>1, <3>3 DEF SavedTasks
    <3>5. \A a \in DOMAIN saved : saved'[a] = saved[a] /\ a \in DOMAIN saved'
      BY <3>1, <3>4 DEF Staged
    <3>6. HeldSaved'
      BY <2>1, <2>5, <2>8, <3>5 DEF HeldSaved
    <3>7. SavedTasks'
      BY <2>1, <3>1, <3>2, <3>5 DEF SavedTasks, Staged, SavedOwner
    <3>8. OnlySaved'
      BY <2>1, <3>2, <3>5 DEF OnlySaved
    <3>9. \A b \in Held' : b \in Held /\ b \in DOMAIN saved /\ saved[b].task = agents[b].task
      BY <2>1, <2>8 DEF HeldSaved, SavedTasks
    <3>10. ASSUME NEW a \in DOMAIN saved', NEW b \in Held'
           PROVE  atPause.agents[a].active \/ agents[a].task # agents[b].task
      <4>1. CASE a \in C
        BY <3>3, <3>9, <4>1
      <4>2. CASE a \in DOMAIN saved
        BY <2>1, <3>9, <4>2 DEF NoRival
      <4> QED BY <3>1, <4>1, <4>2 DEF Staged
    <3>11. NoRival'
      BY <2>5, <3>2, <3>10 DEF NoRival
    <3> QED BY <2>9, <2>10, <3>6, <3>7, <3>8, <3>11 DEF PauseKept
  <2>15. CASE UNCHANGED pause \/ BeginResume
    BY <2>12, <2>15 DEF pause, BeginResume
  <2> QED BY <1>6, <2>13, <2>14, <2>15, PauseFrame
<1> QED BY <1>3, <1>4, <1>5, <1>6

(***************************************************************************)
(* A resume gives every agent that was working when the pause closed the   *)
(* gate the task, status and authority it had, finds every task where it   *)
(* was, and brings back no agent that was not working on a task one of     *)
(* them holds (finish_project_pause, stage_required_delivery_resumes,      *)
(* finish_project_resume).                                                 *)
(***************************************************************************)
THEOREM PauseIsUndone == Spec => PauseRoundTrip
<1> DEFINE RoundTrip ==
        project = "resuming" /\ project' = "active" =>
            LET old == atPause.agents
                was == {a \in Agents : old[a].active /\ old[a].task \notin cancelled}
                kin == {a \in was : \E b \in Agents : old[b].active /\ continues[b] = a}
            IN /\ \A a \in was \ kin :
                    /\ agents'[a].active /\ agents'[a].task = old[a].task
                    /\ agents'[a].status = old[a].status
                    /\ agents'[a].writable = old[a].writable
                    /\ agents'[a].successor = old[a].successor
               /\ \A t \in Tasks \ cancelled :
                    stage'[t] = atPause.stage[t] /\ (t \in moved' <=> t \in atPause.moved)
               /\ \A a \in Agents, b \in was \ kin :
                    agents'[a].active /\ ~old[a].active => agents'[a].task # old[b].task
<1>1. Init => PauseKept
  BY DEF Init, PauseKept, Suspended
<1>2. Types /\ PauseKept /\ [Next]_vars => Types' /\ PauseKept'
  BY TypesStep, PauseKeptStep
<1>3. ASSUME Types, PauseKept, [Next]_vars
      PROVE  [RoundTrip]_vars
  <2> SUFFICES ASSUME project = "resuming", project' = "active"
               PROVE  RoundTrip
    OBVIOUS
  <2>1. FinishResume
    BY <1>3, PauseFrame DEF pause, Cancel, BeginPause, FinishPause, BeginResume, StageDelivery
  <2>2. OwnersFrozen /\ TasksFrozen /\ HeldSaved /\ SavedTasks /\ OnlySaved /\ NoRival
    BY <1>3 DEF PauseKept, Suspended
  <2>3. UNCHANGED <<stage, moved>>
    BY <2>1 DEF FinishResume, tasks
  <2>4. Others(DOMAIN saved) /\ \A a \in DOMAIN saved :
            /\ agents'[a].active /\ agents'[a].writable = saved[a].writable
            /\ agents'[a].status = saved[a].status
            /\ agents'[a].task = agents[a].task /\ agents'[a].successor = agents[a].successor
    BY <1>3, <2>1, FinishResumeAgents DEF Types
  <2>5. ASSUME NEW a \in Held
        PROVE  /\ agents'[a].active /\ agents'[a].task = atPause.agents[a].task
               /\ agents'[a].status = atPause.agents[a].status
               /\ agents'[a].writable = atPause.agents[a].writable
               /\ agents'[a].successor = atPause.agents[a].successor
    BY <2>2, <2>4 DEF Held, HeldSaved, OwnersFrozen
  <2>6. ASSUME NEW a \in Agents, NEW b \in Held, agents'[a].active, ~atPause.agents[a].active
        PROVE  agents'[a].task # atPause.agents[b].task
    <3>1. a \in DOMAIN saved
      BY <2>2, <2>4, <2>6 DEF OnlySaved, Others
    <3>2. b \in Agents
      BY DEF Held
    <3> QED BY <2>2, <2>4, <2>6, <3>1, <3>2 DEF NoRival, OwnersFrozen
  <2>7. \A t \in Tasks \ cancelled :
            stage'[t] = atPause.stage[t] /\ (t \in moved' <=> t \in atPause.moved)
    BY <2>2, <2>3 DEF TasksFrozen
  <2> QED BY <2>5, <2>6, <2>7 DEF Held, Kin
<1> QED BY <1>1, <1>2, <1>3, TypesInit, PTL DEF Spec, PauseRoundTrip

(***************************************************************************)
(* Cancelled tasks.  A restart that was asked for before the cancellation  *)
(* brings the agent back (see the README), hence the hypothesis that the   *)
(* harness restarts nobody.                                                *)
(***************************************************************************)
NoRestart == \A a \in Agents : ~agents[a].restart

CancelledStages == \A t \in cancelled : stage[t] \in {"begun", "complete"}

CancelledUnsaved == Suspended => \A a \in DOMAIN saved : agents[a].task \notin cancelled

CancelKept == NoRestart /\ CancelledStages /\ CancelledUnsaved /\ CancelledStaysDown

LEMMA NoRestartStep ==
    ASSUME Types, NoRestart, Budget["restart"] = 0, [Next]_vars
    PROVE  NoRestart' /\ \A a \in Agents : ~RequestRestart(a)
<1>1. AgentTypes /\ PauseTypes /\ CallTypes
  BY DEF Types
<1>2. "restart" \in Kinds
  BY DEF Kinds
<1>3. ~Spend("restart")
  BY <1>1, <1>2, SpendStep DEF CallTypes
<1>4. \A a \in Agents : ~RequestRestart(a)
  BY <1>3 DEF RequestRestart
<1>5. ASSUME NEW a \in Agents PROVE ~agents'[a].restart
  <2>1. ~agents[a].restart
    BY DEF NoRestart
  <2>2. ASSUME NEW b \in Agents,
               GoOffline(b) \/ Reattach(b) \/ OwnerStop(b) \/ RequestReplacement(b)
        PROVE  ~agents'[a].restart
    <3>1. /\ Others({b}) /\ ~agents'[b].restart
      BY <1>1, <2>2, GoOfflineAgents, ReattachAgents, OwnerStopAgents, RequestReplacementAgents
         DEF NoRestart
    <3> QED BY <2>1, <3>1 DEF Others
  <2>3. ASSUME NEW b \in Agents, NEW t \in Tasks, BeginTask(b, t) \/ Complete(b, t) \/ Woken(b, t)
        PROVE  ~agents'[a].restart
    <3>1. /\ Others({b}) /\ ~agents'[b].restart
      BY <1>1, <2>3, BeginTaskAgents, CompleteAgents, AwakeAgents DEF Woken, NoRestart
    <3> QED BY <2>1, <3>1 DEF Others
  <2>4. ASSUME NEW b \in Agents, Registering(b) PROVE ~agents'[a].restart
    BY <1>1, <2>1, <2>4, RegisteringAgents DEF Others, NewAgent
  <2>5. ASSUME NEW b \in Agents, NEW s \in Agents, NEW t \in Tasks, TakesOver(b, s, t)
        PROVE  ~agents'[a].restart
    BY <1>1, <2>1, <2>5, TakesOverAgents DEF Others, NoRestart
  <2>6. ASSUME NEW t \in Tasks, Cancel(t) PROVE ~agents'[a].restart
    BY <1>1, <2>1, <2>6, CancelAgents DEF Others
  <2>7. CASE FinishPause
    BY <1>1, <2>1, <2>7, FinishPauseAgents DEF Others
  <2>8. CASE FinishResume
    BY <1>1, <2>1, <2>8, FinishResumeAgents DEF Others
  <2>9. CASE UNCHANGED agents
    BY <2>1, <2>9
  <2> QED BY <1>4, <2>2, <2>3, <2>4, <2>5, <2>6, <2>7, <2>8, <2>9, AgentFrame DEF TakenOver
<1> QED BY <1>4, <1>5 DEF NoRestart

LEMMA CancelledStep ==
    ASSUME Types, [Next]_vars
    PROVE  cancelled' \subseteq cancelled \/ \E t \in Tasks : Cancel(t)
<1>1. ASSUME UNCHANGED tasks PROVE cancelled' \subseteq cancelled
  BY <1>1 DEF tasks
<1>2. ASSUME NEW a \in Agents, NEW t \in Tasks,
             BeginTask(a, t) \/ Complete(a, t) \/ Reintegrate(a, t) \/ ClaimRepair(a, t)
      PROVE  cancelled' \subseteq cancelled
  BY <1>2 DEF BeginTask, Complete, Reintegrate, ClaimRepair
<1>3. ASSUME NEW t \in Tasks, Release(t) \/ Answer(t) \/ MainMoves(t)
      PROVE  cancelled' \subseteq cancelled
  BY <1>3 DEF Release, Answer, MainMoves
<1>4. ASSUME NEW a \in Agents, NEW s \in Agents, NEW t \in Tasks, TakesOver(a, s, t)
      PROVE  cancelled' \subseteq cancelled
  BY <1>4 DEF TakesOver
<1> QED BY <1>1, <1>2, <1>3, <1>4, TasksFrame

LEMMA CancelledStagesStep ==
    ASSUME Types, CancelledStages, [Next]_vars
    PROVE  CancelledStages'
<1> SUFFICES ASSUME NEW u \in cancelled' PROVE stage'[u] \in {"begun", "complete"}
  BY DEF CancelledStages
<1>1. TaskTypes
  BY DEF Types
<1>2. u \in cancelled => stage[u] \in {"begun", "complete"}
  BY DEF CancelledStages
<1>3. CASE UNCHANGED tasks
  BY <1>2, <1>3 DEF tasks
<1>4. ASSUME NEW a \in Agents, NEW t \in Tasks,
             BeginTask(a, t) \/ Complete(a, t) \/ Reintegrate(a, t) \/ ClaimRepair(a, t)
      PROVE  stage'[u] \in {"begun", "complete"}
  BY <1>1, <1>2, <1>4 DEF BeginTask, Complete, Reintegrate, ClaimRepair, TaskTypes
<1>5. ASSUME NEW t \in Tasks, Release(t) \/ Answer(t) \/ MainMoves(t)
      PROVE  stage'[u] \in {"begun", "complete"}
  BY <1>1, <1>2, <1>5 DEF Release, Answer, MainMoves, TaskTypes
<1>6. ASSUME NEW t \in Tasks, Cancel(t) PROVE stage'[u] \in {"begun", "complete"}
  <2>1. /\ stage[t] \in {"begun", "complete", "rejected", "repairing"}
        /\ stage' = [stage EXCEPT ![t] = IF @ \in {"rejected", "repairing"} THEN "complete" ELSE @]
        /\ cancelled' = cancelled \cup {t}
    BY <1>1, <1>6 DEF Cancel, TaskTypes
  <2> QED BY <1>1, <1>2, <2>1 DEF TaskTypes
<1>7. ASSUME NEW a \in Agents, NEW s \in Agents, NEW t \in Tasks, TakesOver(a, s, t)
      PROVE  stage'[u] \in {"begun", "complete"}
  BY <1>2, <1>7 DEF TakesOver
<1> QED BY <1>3, <1>4, <1>5, <1>6, <1>7, TasksFrame

LEMMA CancelledUnsavedStep ==
    ASSUME Types, PauseKept, CancelKept, [Next]_vars
    PROVE  CancelledUnsaved'
<1> SUFFICES ASSUME Suspended', NEW a \in DOMAIN saved'
             PROVE  agents'[a].task \notin cancelled'
  BY DEF CancelledUnsaved
<1>1. AgentTypes /\ RosterTypes /\ PauseTypes /\ a \in Agents /\ cancelled \subseteq Tasks
  BY TypesStep DEF Types, PauseTypes, TaskTypes
<1>2. Suspended => SameOwner(a)
  BY <1>1, OwnedStep DEF Suspended, Open
<1>3. ASSUME Suspended, a \in DOMAIN saved
      PROVE  agents'[a].task \notin cancelled
  BY <1>2, <1>3 DEF CancelKept, CancelledUnsaved, SameOwner
<1>4. Suspended /\ (~ \E t \in Tasks : Cancel(t)) => cancelled' \subseteq cancelled
  BY CancelledStep
<1>5. CASE UNCHANGED pause \/ BeginResume
  <2>1. Suspended /\ a \in DOMAIN saved
    BY <1>5 DEF Suspended, pause, BeginResume
  <2>2. ASSUME NEW t \in Tasks, Cancel(t) PROVE agents'[a].task # t
    <3>1. saved[a].task # t
      BY <1>5, <2>1, <2>2, CancelSaved DEF pause, BeginResume, Cancel
    <3> QED BY <1>2, <2>1, <3>1 DEF PauseKept, SavedTasks, SameOwner
  <2>3. ASSUME NEW t \in Tasks, Cancel(t) PROVE agents'[a].task \notin cancelled'
    <3>1. cancelled' = cancelled \cup {t}
      BY <2>3 DEF Cancel
    <3> QED BY <1>3, <2>1, <2>2, <2>3, <3>1
  <2> QED BY <1>3, <1>4, <2>1, <2>3
<1>6. ASSUME NEW t \in Tasks, Cancel(t) PROVE agents'[a].task \notin cancelled'
  <2>1. Suspended /\ a \in DOMAIN saved /\ saved[a].task # t
    BY <1>6, CancelSaved DEF Suspended, Cancel
  <2>2. agents'[a].task # t
    BY <1>2, <2>1 DEF PauseKept, SavedTasks, SameOwner
  <2>3. cancelled' = cancelled \cup {t}
    BY <1>6 DEF Cancel
  <2> QED BY <1>3, <2>1, <2>2, <2>3
<1>7. CASE FinishPause
  <2>1. a \in Active /\ agents'[a].task = agents[a].task /\ UNCHANGED cancelled
    BY <1>1, <1>7, FinishPauseAgents DEF FinishPause, tasks
  <2> QED BY <2>1 DEF CancelKept, CancelledStaysDown
<1>8. CASE StageDelivery
  <2>1. PICK C \in SUBSET Agents : Staged(C)
    BY <1>1, <1>8, StageDeliverySaved
  <2>2. UNCHANGED <<agents, cancelled>> /\ Suspended
    BY <1>8 DEF StageDelivery, tasks, Suspended
  <2>3. a \in C => agents[a].task \notin cancelled
    BY <2>1 DEF Staged, Unserved
  <2> QED BY <1>3, <2>1, <2>2, <2>3 DEF Staged
<1>9. CASE BeginPause \/ FinishResume
  BY <1>9 DEF Suspended, BeginPause, FinishResume
<1> QED BY <1>5, <1>6, <1>7, <1>8, <1>9, PauseFrame

LEMMA CancelledDownStep ==
    ASSUME Types, PauseKept, CancelKept, Budget["restart"] = 0, [Next]_vars
    PROVE  CancelledStaysDown'
<1> SUFFICES ASSUME NEW a \in Agents, agents'[a].active
             PROVE  agents'[a].task \notin cancelled'
  BY DEF CancelledStaysDown, Active
<1>1. AgentTypes /\ PauseTypes /\ cancelled \subseteq Tasks /\ Awaiting \notin Tasks
  BY OwnershipAssumption DEF Types, TaskTypes
<1>2. agents[a].active => agents[a].task \notin cancelled
  BY DEF CancelKept, CancelledStaysDown, Active
<1>3. ASSUME NEW t \in Tasks, Cancel(t) PROVE agents'[a].task \notin cancelled'
  <2>1. a \notin On(t) /\ agents'[a] = agents[a]
    BY <1>1, <1>3, CancelAgents DEF Others
  <2> QED BY <1>2, <1>3, <2>1 DEF On, Cancel
<1> SUFFICES ASSUME cancelled' \subseteq cancelled
             PROVE  agents'[a].task \notin cancelled'
  BY <1>3, CancelledStep
<1>4. ASSUME NEW b \in Agents, GoOffline(b) \/ OwnerStop(b) \/ RequestReplacement(b)
      PROVE  agents'[a].task \notin cancelled'
  <2>1. Others({b}) /\ ~agents'[b].active
    BY <1>1, <1>4, GoOfflineAgents, OwnerStopAgents, RequestReplacementAgents
  <2> QED BY <1>2, <2>1 DEF Others
<1>5. ASSUME NEW b \in Agents, Registering(b) PROVE agents'[a].task \notin cancelled'
  <2>1. Others({b}) /\ agents'[b].task = Awaiting
    BY <1>1, <1>5, RegisteringAgents, AgentRecords
  <2> QED BY <1>1, <1>2, <2>1 DEF Others
<1>6. ASSUME NEW b \in Agents, Reattach(b) PROVE agents'[a].task \notin cancelled'
  <2>1. Others({b}) /\ agents'[b].task = agents[b].task
    BY <1>1, <1>6, ReattachAgents
  <2>2. agents[b].task \notin cancelled
    <3>1. CASE project = "resuming" /\ b \in DOMAIN saved
      BY <3>1 DEF CancelKept, CancelledUnsaved, Suspended
    <3>2. CASE project = "active" /\ agents[b].active
      BY <3>2 DEF CancelKept, CancelledStaysDown, Active
    <3> QED BY <1>6, <3>1, <3>2 DEF Reattach, CancelKept, NoRestart
  <2> QED BY <1>2, <2>1, <2>2 DEF Others
<1>7. ASSUME NEW b \in Agents, NEW t \in Tasks, BeginTask(b, t)
      PROVE  agents'[a].task \notin cancelled'
  <2>1. Others({b}) /\ agents'[b].task = t /\ t \notin cancelled
    BY <1>1, <1>7, BeginTaskAgents DEF BeginTask
  <2> QED BY <1>2, <2>1 DEF Others
<1>8. ASSUME NEW b \in Agents, NEW t \in Tasks, Complete(b, t)
      PROVE  agents'[a].task \notin cancelled'
  <2>1. Others({b}) /\ ~agents'[b].active
    BY <1>1, <1>8, CompleteAgents
  <2> QED BY <1>2, <2>1 DEF Others
<1>9. ASSUME NEW b \in Agents, NEW t \in Tasks, Woken(b, t)
      PROVE  agents'[a].task \notin cancelled'
  <2>1. Others({b}) /\ agents'[b].task = t
    BY <1>1, <1>9, AwakeAgents DEF Woken
  <2>2. t \notin cancelled
    <3>1. ClaimRepair(b, t) => stage[t] \in {"rejected", "repairing"}
      BY DEF ClaimRepair
    <3>2. MainMoves(t) => t \notin cancelled
      BY DEF MainMoves
    <3> QED BY <1>9, <3>1, <3>2 DEF Woken, CancelKept, CancelledStages
  <2> QED BY <1>2, <2>1, <2>2 DEF Others
<1>10. ASSUME NEW b \in Agents, NEW s \in Agents, NEW t \in Tasks, TakesOver(b, s, t)
       PROVE  agents'[a].task \notin cancelled'
  <2>1. Others({b, s}) /\ agents'[b].task = t /\ ~agents'[s].active /\ t \notin cancelled'
    BY <1>1, <1>10, TakesOverAgents DEF TakesOver
  <2> QED BY <1>2, <2>1 DEF Others
<1>11. CASE FinishPause
  BY <1>1, <1>2, <1>11, FinishPauseAgents DEF Others
<1>12. CASE FinishResume
  <2>1. a \in DOMAIN saved => agents[a].task \notin cancelled
    BY <1>12 DEF FinishResume, CancelKept, CancelledUnsaved, Suspended
  <2> QED BY <1>1, <1>2, <1>12, <2>1, FinishResumeAgents DEF Others
<1>13. CASE UNCHANGED agents
  BY <1>2, <1>13
<1> QED
  BY <1>3, <1>4, <1>5, <1>6, <1>7, <1>8, <1>9, <1>10, <1>11, <1>12, <1>13, AgentFrame,
     NoRestartStep DEF CancelKept, TakenOver

(***************************************************************************)
(* Nothing brings an agent of a cancelled task back: not main moving, a    *)
(* repair, a reconnection, nor a pause and a resume, which must not save   *)
(* it either (cancel_task).                                                *)
(***************************************************************************)
THEOREM CancelledAreDown ==
    ASSUME Budget["restart"] = 0
    PROVE  Spec => []CancelledStaysDown
<1>1. Init => PauseKept /\ CancelKept
  BY AgentRecords DEF Init, PauseKept, Suspended, CancelKept, NoRestart, CancelledStages,
     CancelledUnsaved, CancelledStaysDown
<1>2. Types /\ PauseKept /\ CancelKept /\ [Next]_vars => Types' /\ PauseKept' /\ CancelKept'
  BY TypesStep, PauseKeptStep, NoRestartStep, CancelledStagesStep, CancelledUnsavedStep,
     CancelledDownStep DEF CancelKept
<1>3. CancelKept => CancelledStaysDown
  BY DEF CancelKept
<1> QED BY <1>1, <1>2, <1>3, TypesInit, PTL DEF Spec

(***************************************************************************)
(* Takeovers.  Two under way at once, a replacement beside a restart, and  *)
(* an owner's rejection can leave a task with two agents (see the README), *)
(* hence the hypotheses.                                                   *)
(***************************************************************************)
NoReplacement == \A a \in Agents : ~agents[a].replaced /\ bindings[a] = None

NoRejection == route = None /\ \A t \in Tasks : stage[t] # "rejected"

OneCall == \A a, b \in Agents : handoff[a] # None /\ handoff[b] # None => a = b

\* What a takeover is about to take is on its task and nobody took it yet.
CallSource ==
    \A a \in Agents : handoff[a] # None =>
        /\ agents[handoff[a].source].task = handoff[a].task
        /\ agents[handoff[a].source].successor = None

NewIsNobodys == \A t \in Tasks : stage[t] = "new" => On(t) = {}

Carried(t) == \E a \in On(t) : \A b \in On(t) : agents[b].successor = None <=> a = b

CarrierKept ==
    /\ NoReplacement /\ NoRejection /\ OneCall /\ CallSource /\ NewIsNobodys
    /\ \A t \in Tasks : stage[t] # "new" => Carried(t)

OneAtATime == MaxHandoffs = 1 /\ Budget["replace"] = 0 /\ Budget["reject"] = 0

LEMMA CallsFrame ==
    ASSUME [Next]_vars
    PROVE  \/ UNCHANGED <<handoff, bindings, route>>
           \/ \E a \in Agents : TerminalEnds(a) \/ RegisterForTask(a) \/ FinishHandoff(a)
           \/ \E a, b \in Agents : OpenReplacement(a, b)
           \/ \E a, s \in Agents, t \in Tasks : PlanRoute(t, a, s)
           \/ FinishRoute
<1>1. ASSUME NEW a \in Agents,
             \/ OpenTerminal(a) \/ GoOffline(a) \/ Reattach(a) \/ Supersede(a)
             \/ GiveDirection(a) \/ OwnerStop(a) \/ RequestRestart(a) \/ Relaunch(a)
             \/ RequestReplacement(a) \/ ResumeTerminal(a)
      PROVE  UNCHANGED <<handoff, bindings, route>>
  BY <1>1 DEF OpenTerminal, GoOffline, Reattach, Supersede, GiveDirection, OwnerStop,
              RequestRestart, Relaunch, RequestReplacement, ResumeTerminal, intake, calls
<1>2. ASSUME NEW a \in Agents, RegisterAwaiting(a) \/ \E b \in Agents : RegisterForDirection(a, b)
      PROVE  UNCHANGED <<handoff, bindings, route>>
  BY <1>2 DEF RegisterAwaiting, RegisterForDirection, Registering
<1>3. ASSUME NEW a \in Agents, NEW t \in Tasks,
             BeginTask(a, t) \/ Complete(a, t) \/ Reintegrate(a, t) \/ ClaimRepair(a, t)
      PROVE  UNCHANGED <<handoff, bindings, route>>
  BY <1>3 DEF BeginTask, Complete, Reintegrate, ClaimRepair, intake, calls
<1>4. ASSUME NEW t \in Tasks, Release(t) \/ Answer(t) \/ MainMoves(t) \/ Cancel(t)
      PROVE  UNCHANGED <<handoff, bindings, route>>
  BY <1>4 DEF Release, Answer, MainMoves, Cancel, intake, calls
<1>5. ASSUME \/ BeginPause \/ FinishPause \/ BeginResume \/ StageDelivery \/ FinishResume
             \/ UNCHANGED vars
      PROVE  UNCHANGED <<handoff, bindings, route>>
  BY <1>5 DEF BeginPause, FinishPause, BeginResume, StageDelivery, FinishResume, vars,
              intake, calls
<1> QED BY <1>1, <1>2, <1>3, <1>4, <1>5, Zenon DEF Next

LEMMA NoReplacementStep ==
    ASSUME Types, NoReplacement, Budget["replace"] = 0, [Next]_vars
    PROVE  NoReplacement'
<1>1. AgentTypes /\ PauseTypes /\ CallTypes
  BY DEF Types
<1>2. \A a \in Agents : ~RequestReplacement(a)
  BY <1>1, SpendStep DEF RequestReplacement, CallTypes, Kinds
<1>3. ASSUME NEW a \in Agents PROVE ~agents'[a].replaced
  <2>1. ~agents[a].replaced
    BY DEF NoReplacement
  <2>2. ASSUME NEW b \in Agents,
               GoOffline(b) \/ Reattach(b) \/ OwnerStop(b) \/ RequestRestart(b)
        PROVE  ~agents'[a].replaced
    <3>1. /\ Others({b}) /\ ~agents'[b].replaced
      BY <1>1, <2>2, GoOfflineAgents, ReattachAgents, OwnerStopAgents, RequestRestartAgents
         DEF NoReplacement
    <3> QED BY <2>1, <3>1 DEF Others
  <2>3. ASSUME NEW b \in Agents, NEW t \in Tasks, BeginTask(b, t) \/ Complete(b, t) \/ Woken(b, t)
        PROVE  ~agents'[a].replaced
    <3>1. /\ Others({b}) /\ ~agents'[b].replaced
      BY <1>1, <2>3, BeginTaskAgents, CompleteAgents, AwakeAgents DEF Woken, NoReplacement
    <3> QED BY <2>1, <3>1 DEF Others
  <2>4. ASSUME NEW b \in Agents, Registering(b) PROVE ~agents'[a].replaced
    BY <1>1, <2>1, <2>4, RegisteringAgents, AgentRecords DEF Others
  <2>5. ASSUME NEW b \in Agents, NEW s \in Agents, NEW t \in Tasks, TakenOver(b, s, t)
        PROVE  ~agents'[a].replaced
    BY <1>1, <2>1, <2>5, TakesOverAgents DEF Others, NoReplacement, TakenOver
  <2>6. ASSUME NEW t \in Tasks, Cancel(t) PROVE ~agents'[a].replaced
    BY <1>1, <2>1, <2>6, CancelAgents DEF Others
  <2>7. CASE FinishPause
    BY <1>1, <2>1, <2>7, FinishPauseAgents DEF Others
  <2>8. CASE FinishResume
    BY <1>1, <2>1, <2>8, FinishResumeAgents DEF Others
  <2>9. CASE UNCHANGED agents
    BY <2>1, <2>9
  <2> QED BY <1>2, <2>2, <2>3, <2>4, <2>5, <2>6, <2>7, <2>8, <2>9, AgentFrame
<1>4. UNCHANGED bindings
  <2>1. \A a, b \in Agents : ~OpenReplacement(a, b)
    BY DEF OpenReplacement, NoReplacement
  <2>2. ASSUME NEW a \in Agents, TerminalEnds(a) \/ RegisterForTask(a) \/ FinishHandoff(a)
        PROVE  UNCHANGED bindings
    BY <2>2 DEF TerminalEnds, RegisterForTask, Registering, FinishHandoff, intake
  <2>3. ASSUME NEW t \in Tasks, NEW a \in Agents, NEW s \in Agents, PlanRoute(t, a, s)
        PROVE  UNCHANGED bindings
    BY <2>3 DEF PlanRoute, intake
  <2>4. ASSUME FinishRoute PROVE UNCHANGED bindings
    BY <2>4 DEF FinishRoute, intake
  <2> QED BY <2>1, <2>2, <2>3, <2>4, CallsFrame
<1> QED BY <1>3, <1>4 DEF NoReplacement

\* What becomes of the stage of a task.
LEMMA StageStep ==
    ASSUME Types, NEW t \in Tasks, [Next]_vars
    PROVE  /\ stage'[t] = "new" => stage[t] = "new"
           /\ stage'[t] = "rejected" => stage[t] = "rejected" \/ Spend("reject")
           /\ stage[t] = "new" /\ stage'[t] # "new" => \E a \in Agents : BeginTask(a, t)
<1> DEFINE Goal ==
        /\ stage'[t] = "new" => stage[t] = "new"
        /\ stage'[t] = "rejected" => stage[t] = "rejected" \/ Spend("reject")
        /\ stage[t] = "new" /\ stage'[t] # "new" => \E a \in Agents : BeginTask(a, t)
<1> SUFFICES Goal
  OBVIOUS
<1>1. stage \in [Tasks -> {"new", "begun", "complete", "released", "accepted", "rejected",
                           "repairing"}]
  BY DEF Types, TaskTypes
<1>2. ASSUME stage'[t] = stage[t] PROVE Goal
  BY <1>2
<1>3. ASSUME NEW a \in Agents, NEW u \in Tasks, BeginTask(a, u) PROVE Goal
  <2>1. stage' = [stage EXCEPT ![u] = "begun"]
    BY <1>3 DEF BeginTask
  <2> QED BY <1>1, <1>3, <2>1
<1>4. ASSUME NEW a \in Agents, NEW u \in Tasks, Complete(a, u) \/ ClaimRepair(a, u) PROVE Goal
  <2>1. stage[u] # "new" /\ \E x \in {"complete", "repairing"} : stage' = [stage EXCEPT ![u] = x]
    BY <1>4 DEF Complete, ClaimRepair
  <2> QED BY <1>1, <2>1
<1>5. ASSUME NEW a \in Agents, NEW u \in Tasks, Reintegrate(a, u) PROVE Goal
  BY <1>2, <1>5 DEF Reintegrate
<1>6. ASSUME NEW u \in Tasks, Release(u) PROVE Goal
  <2>1. stage[u] = "complete" /\ stage' = [stage EXCEPT ![u] = "released"]
    BY <1>6 DEF Release
  <2> QED BY <1>1, <2>1
<1>7. ASSUME NEW u \in Tasks, Answer(u) PROVE Goal
  <2>1. CASE stage[u] = "released" /\ stage' = [stage EXCEPT ![u] = "accepted"]
    BY <1>1, <2>1
  <2>2. CASE stage[u] = "released" /\ stage' = [stage EXCEPT ![u] = "rejected"] /\ Spend("reject")
    BY <1>1, <2>2
  <2> QED BY <1>7, <2>1, <2>2 DEF Answer
<1>8. ASSUME NEW u \in Tasks, MainMoves(u) PROVE Goal
  BY <1>2, <1>8 DEF MainMoves
<1>9. ASSUME NEW u \in Tasks, Cancel(u) PROVE Goal
  <2>1. stage[u] # "new" /\ \E x \in {"complete", stage[u]} : stage' = [stage EXCEPT ![u] = x]
    BY <1>9 DEF Cancel
  <2> QED BY <1>1, <2>1
<1>10. ASSUME NEW a \in Agents, NEW s \in Agents, NEW u \in Tasks, TakesOver(a, s, u) PROVE Goal
  BY <1>2, <1>10 DEF TakesOver
<1>11. ASSUME UNCHANGED tasks PROVE Goal
  BY <1>2, <1>11 DEF tasks
<1> HIDE DEF Goal
<1> QED BY <1>3, <1>4, <1>5, <1>6, <1>7, <1>8, <1>9, <1>10, <1>11, TasksFrame

LEMMA NoRejectionStep ==
    ASSUME Types, NoRejection, Budget["reject"] = 0, [Next]_vars
    PROVE  NoRejection'
<1>1. ~Spend("reject")
  BY SpendStep DEF Types, CallTypes, Kinds
<1>2. \A t \in Tasks : stage'[t] # "rejected"
  BY <1>1, StageStep DEF NoRejection
<1>3. route' = None
  <2>1. \A a, s \in Agents, t \in Tasks : ~PlanRoute(t, a, s)
    BY DEF NoRejection, PlanRoute
  <2>2. ASSUME NEW a \in Agents, TerminalEnds(a) \/ RegisterForTask(a) \/ FinishHandoff(a)
        PROVE  UNCHANGED route
    BY <2>2 DEF TerminalEnds, RegisterForTask, Registering, FinishHandoff
  <2>3. ASSUME NEW a \in Agents, NEW b \in Agents, OpenReplacement(a, b) PROVE UNCHANGED route
    BY <2>3 DEF OpenReplacement, calls
  <2>4. ~FinishRoute
    BY DEF NoRejection, FinishRoute
  <2> QED BY <2>1, <2>2, <2>3, <2>4, CallsFrame DEF NoRejection
<1> QED BY <1>2, <1>3 DEF NoRejection

\* A new takeover starts while none is under way, from an agent that
\* _stopped_task_to_resume found.
LEMMA HandoffFrame ==
    ASSUME Types, NoReplacement, MaxHandoffs = 1, [Next]_vars
    PROVE  \/ UNCHANGED handoff
           \/ \E a \in Agents : handoff' = [handoff EXCEPT ![a] = None]
           \/ /\ \A b \in Agents : handoff[b] = None
              /\ UNCHANGED bindings
              /\ \E a \in Agents, s \in Carryable :
                    Registering(a) /\ handoff' = [handoff EXCEPT ![a] = Takeover(s)]
<1>1. ASSUME NEW a \in Agents, TerminalEnds(a) \/ FinishHandoff(a)
      PROVE  handoff' = [handoff EXCEPT ![a] = None]
  BY <1>1 DEF TerminalEnds, FinishHandoff
<1>2. ASSUME NEW a \in Agents, NEW b \in Agents,
             OpenReplacement(a, b) \/ \E t \in Tasks : PlanRoute(t, a, b)
      PROVE  UNCHANGED handoff
  BY <1>2 DEF OpenReplacement, PlanRoute, calls
<1>3. ASSUME NEW a \in Agents, RegisterForTask(a)
      PROVE  /\ \A b \in Agents : handoff[b] = None
             /\ UNCHANGED bindings
             /\ \E s \in Carryable :
                    Registering(a) /\ handoff' = [handoff EXCEPT ![a] = Takeover(s)]
  <2>1. UnderWay < 1 /\ Registering(a)
    BY <1>3 DEF RegisterForTask
  <2> DEFINE H == {b \in Agents : handoff[b] # None}
  <2>2. IsFiniteSet(H)
    BY FS_Subset, OwnershipAssumption
  <2>3. Cardinality(H) \in Nat
    BY <2>2, FS_CardinalityType
  <2>4. UnderWay = Cardinality(H) + (IF route = None THEN 0 ELSE 1)
    BY DEF UnderWay
  <2> HIDE DEF H
  <2>5. Cardinality(H) = 0
    BY <2>1, <2>3, <2>4
  <2>6. H = {}
    BY <2>2, <2>5, FS_EmptySet
  <2>7. \A b \in Agents : handoff[b] = None
    BY <2>6 DEF H
  <2>8. bindings[a] = None /\ UNCHANGED bindings
    BY <2>1 DEF NoReplacement, Registering
  <2> QED BY <1>3, <2>1, <2>7, <2>8 DEF RegisterForTask
<1>4. ASSUME FinishRoute PROVE UNCHANGED handoff
  BY <1>4 DEF FinishRoute
<1>5. ASSUME UNCHANGED <<handoff, bindings, route>> PROVE UNCHANGED handoff
  BY <1>5
<1> QED BY <1>1, <1>2, <1>3, <1>4, <1>5, CallsFrame, Zenon

LEMMA CarriedStep ==
    ASSUME Types, CarrierKept, [Next]_vars
    PROVE  NewIsNobodys' /\ \A t \in Tasks : stage'[t] # "new" => Carried(t)'
<1>1. AgentTypes /\ PauseTypes /\ Awaiting \notin Tasks /\ None \notin Tasks /\ None \notin Agents
  BY OwnershipAssumption DEF Types
<1>2. ASSUME NEW t \in Tasks,
             \A a \in Agents : agents'[a].task = t <=> agents[a].task = t,
             \A a \in On(t) : agents'[a].successor = agents[a].successor
      PROVE  /\ On(t)' = On(t)
             /\ Carried(t) => Carried(t)'
  BY <1>2 DEF On, Carried
<1>3. ASSUME NEW t \in Tasks, On(t)' = On(t), Carried(t) => Carried(t)',
             ~ \E a \in Agents : BeginTask(a, t)
      PROVE  (stage'[t] = "new" => On(t)' = {}) /\ (stage'[t] # "new" => Carried(t)')
  BY <1>3, StageStep DEF CarrierKept, NewIsNobodys
<1>4. ASSUME NEW t \in Tasks, ~ \E a \in Agents : BeginTask(a, t),
             \A a \in Agents : agents'[a].task = t <=> agents[a].task = t,
             \A a \in On(t) : agents'[a].successor = agents[a].successor
      PROVE  (stage'[t] = "new" => On(t)' = {}) /\ (stage'[t] # "new" => Carried(t)')
  BY <1>2, <1>3, <1>4
<1>5. ASSUME NEW t \in Tasks
      PROVE  (stage'[t] = "new" => On(t)' = {}) /\ (stage'[t] # "new" => Carried(t)')
  <2>1. ASSUME NEW a \in Agents, BeginTask(a, t)
        PROVE  (stage'[t] = "new" => On(t)' = {}) /\ (stage'[t] # "new" => Carried(t)')
    <3>1. On(t) = {} /\ stage'[t] = "begun" /\ agents[a].successor = None
      BY <2>1 DEF BeginTask, Working, Writable, Types, TaskTypes
    <3>2. Others({a}) /\ agents'[a].task = t /\ agents'[a].successor = None
      BY <1>1, <2>1, <3>1, BeginTaskAgents
    <3>3. On(t)' = {a}
      BY <3>1, <3>2 DEF On, Others
    <3> QED BY <3>1, <3>2, <3>3 DEF Carried
  <2>2. ASSUME ~ \E a \in Agents : BeginTask(a, t), NEW a \in Agents, NEW u \in Tasks,
               BeginTask(a, u)
        PROVE  (stage'[t] = "new" => On(t)' = {}) /\ (stage'[t] # "new" => Carried(t)')
    <3>1. /\ Others({a}) /\ agents'[a].task = u /\ agents[a].task = Awaiting /\ u # t
      BY <1>1, <2>2, BeginTaskAgents
    <3> QED BY <1>1, <1>4, <2>2, <3>1 DEF Others, On
  <2>3. ASSUME ~ \E a \in Agents : BeginTask(a, t), \A a \in Agents : SameOwner(a)
        PROVE  (stage'[t] = "new" => On(t)' = {}) /\ (stage'[t] # "new" => Carried(t)')
    BY <1>4, <2>3 DEF SameOwner, On
  <2>4. ASSUME ~ \E a \in Agents : BeginTask(a, t), NEW a \in Agents, Registering(a)
        PROVE  (stage'[t] = "new" => On(t)' = {}) /\ (stage'[t] # "new" => Carried(t)')
    <3>1. Others({a}) /\ agents'[a].task = Awaiting /\ agents[a].task = None
      BY <1>1, <2>4, RegisteringAgents, AgentRecords DEF AgentTypes
    <3> QED BY <1>1, <1>4, <2>4, <3>1 DEF Others, On
  <2>5. ASSUME ~ \E a \in Agents : BeginTask(a, t),
               NEW a \in Agents, NEW s \in Agents, NEW u \in Tasks, TakenOver(a, s, u)
        PROVE  (stage'[t] = "new" => On(t)' = {}) /\ (stage'[t] # "new" => Carried(t)')
    <3>1. TakesOver(a, s, u) /\ handoff[a] # None /\ handoff[a].source = s /\ handoff[a].task = u
      BY <2>5 DEF TakenOver, CarrierKept, NoRejection
    <3>2. agents[s].successor = None /\ agents[s].task = u
      BY <3>1 DEF CarrierKept, CallSource
    <3>3. /\ Others({a, s}) /\ a # s /\ agents[a].task = Awaiting
          /\ agents'[a].task = u /\ agents'[a].successor = None
          /\ agents'[s].task = u /\ agents'[s].successor = a
      BY <1>1, <3>1, TakesOverAgents
    <3>4. CASE t # u
      BY <1>1, <1>4, <2>5, <3>2, <3>3, <3>4 DEF Others, On
    <3>5. CASE t = u
      <4>1. s \in On(t) /\ stage[t] # "new" /\ stage'[t] # "new"
        BY <3>2, <3>5, StageStep DEF On, CarrierKept, NewIsNobodys
      <4>2. \A b \in On(t) : agents[b].successor = None <=> b = s
        BY <3>2, <4>1 DEF CarrierKept, Carried
      <4>3. a \in On(t)' /\ \A b \in On(t)' : b = a \/ b \in On(t)
        BY <3>3, <3>5, <4>1 DEF On, Others
      <4>4. \A b \in On(t)' : agents'[b].successor = None <=> a = b
        BY <1>1, <3>3, <4>2, <4>3 DEF Others, On
      <4> QED BY <4>1, <4>3, <4>4 DEF Carried
    <3> QED BY <3>4, <3>5
  <2> QED BY <2>1, <2>2, <2>3, <2>4, <2>5, OwnedFrame
<1> QED BY <1>5 DEF NewIsNobodys

LEMMA CallSourceStep ==
    ASSUME Types, CarrierKept, MaxHandoffs = 1, [Next]_vars
    PROVE  OneCall' /\ CallSource'
<1>1. AgentTypes /\ PauseTypes /\ CallTypes /\ Awaiting \notin Tasks /\ None \notin Tasks
  BY OwnershipAssumption DEF Types
<1>2. OneCall /\ CallSource
  BY DEF CarrierKept
<1>3. ASSUME NEW s \in Agents, agents[s].task \in Tasks, agents[s].successor = None
      PROVE  \/ SameOwner(s)
             \/ \E a \in Agents, u \in Tasks :
                    FinishHandoff(a) /\ TakenOver(a, s, u) /\ handoff[a] # None
  <2>1. ASSUME NEW b \in Agents, Registering(b) PROVE SameOwner(s)
    <3>1. Others({b}) /\ agents[b].task = None
      BY <1>1, <2>1, RegisteringAgents DEF AgentTypes
    <3> QED BY <1>1, <1>3, <3>1 DEF Others, SameOwner
  <2>2. ASSUME NEW b \in Agents, NEW t \in Tasks, BeginTask(b, t) PROVE SameOwner(s)
    <3>1. Others({b}) /\ agents[b].task = Awaiting
      BY <1>1, <2>2, BeginTaskAgents
    <3> QED BY <1>1, <1>3, <3>1 DEF Others, SameOwner
  <2>3. ASSUME NEW b \in Agents, NEW q \in Agents, NEW t \in Tasks, TakenOver(b, q, t)
        PROVE  SameOwner(s) \/ (q = s /\ FinishHandoff(b) /\ handoff[b] # None)
    <3>1. Others({b, q}) /\ agents[b].task = Awaiting
      BY <1>1, <2>3, TakesOverAgents DEF TakenOver
    <3> QED BY <1>1, <1>3, <2>3, <3>1 DEF Others, SameOwner, TakenOver, CarrierKept, NoRejection
  <2> QED BY <1>3, <2>1, <2>2, <2>3, OwnedFrame
<1>4. ASSUME NEW a \in Agents, handoff'[a] # None,
             handoff[a] # None, handoff'[a] = handoff[a]
      PROVE  /\ agents'[handoff'[a].source].task = handoff'[a].task
             /\ agents'[handoff'[a].source].successor = None
  <2> DEFINE s == handoff[a].source
  <2>1. s \in Agents /\ agents[s].task = handoff[a].task /\ agents[s].task \in Tasks
        /\ agents[s].successor = None
    BY <1>1, <1>2, <1>4 DEF CallTypes, Handoff, CallSource
  <2>2. ASSUME NEW b \in Agents, FinishHandoff(b), handoff[b] # None PROVE FALSE
    <3>1. b = a
      BY <1>2, <1>4, <2>2 DEF OneCall
    <3>2. handoff'[a] = None
      BY <1>1, <2>2, <3>1 DEF FinishHandoff, CallTypes
    <3> QED BY <1>4, <3>2
  <2>3. SameOwner(s)
    BY <1>3, <2>1, <2>2
  <2> QED BY <1>4, <2>1, <2>3 DEF SameOwner
<1>5. CASE UNCHANGED handoff
  BY <1>2, <1>4, <1>5 DEF OneCall, CallSource
<1>6. ASSUME NEW a \in Agents, handoff' = [handoff EXCEPT ![a] = None]
      PROVE  OneCall' /\ CallSource'
  <2>1. \A b \in Agents : handoff'[b] # None => handoff'[b] = handoff[b]
    BY <1>1, <1>6 DEF CallTypes
  <2> QED BY <1>2, <1>4, <2>1 DEF OneCall, CallSource
<1>7. ASSUME NEW a \in Agents, NEW s \in Carryable, Registering(a),
             handoff' = [handoff EXCEPT ![a] = Takeover(s)],
             \A b \in Agents : handoff[b] = None
      PROVE  OneCall' /\ CallSource'
  <2>1. \A b \in Agents : handoff'[b] # None => b = a
    BY <1>1, <1>7 DEF CallTypes
  <2>2. s \in Agents /\ agents[s].task \in Tasks /\ agents[s].successor = None
    BY DEF Carryable
  <2>3. SameOwner(s)
    BY <1>3, <1>7, <2>2
  <2>4. handoff'[a].source = s /\ handoff'[a].task = agents[s].task
    BY <1>1, <1>7 DEF CallTypes, Takeover
  <2> QED BY <2>1, <2>2, <2>3, <2>4 DEF OneCall, CallSource, SameOwner
<1> QED BY <1>5, <1>6, <1>7, HandoffFrame DEF CarrierKept

(***************************************************************************)
(* Exactly one of the agents a task has had was not superseded.  A second  *)
(* register() may pick the same predecessor while a takeover is under way, *)
(* so the theorem is about one takeover at a time; see the README.         *)
(***************************************************************************)
THEOREM ExactlyOneCarrier ==
    ASSUME OneAtATime
    PROVE  Spec => []OneCarrier
<1>1. Init => CarrierKept
  <2> SUFFICES ASSUME Init PROVE CarrierKept
    OBVIOUS
  <2>1. NoReplacement /\ NoRejection /\ OneCall /\ CallSource
    BY AgentRecords DEF Init, NoReplacement, NoRejection, OneCall, CallSource
  <2>2. \A t \in Tasks : On(t) = {} /\ stage[t] = "new"
    BY AgentRecords, OwnershipAssumption DEF Init, On
  <2> QED BY <2>1, <2>2 DEF CarrierKept, NewIsNobodys
<1>2. Types /\ CarrierKept /\ [Next]_vars => Types' /\ CarrierKept'
  BY TypesStep, NoReplacementStep, NoRejectionStep, CallSourceStep, CarriedStep
     DEF CarrierKept, OneAtATime
<1>3. Types /\ CarrierKept => OneCarrier
  BY TypesImply DEF CarrierKept, Carried, OneCarrier
<1> QED BY <1>1, <1>2, <1>3, TypesInit, PTL DEF Spec

(***************************************************************************)
(* Directions.  A terminal that the project is resumed with may be carried *)
(* on by another one by the time of a second pause, and a restart brings   *)
(* back an agent whose direction was recovered (see the README), hence the *)
(* hypotheses.                                                             *)
(***************************************************************************)
BegunGiven == \A i \in DOMAIN begunFrom : begunFrom[i] =< given

DistinctGiven ==
    \A a, b \in Agents : /\ directions[a].state = "given" /\ directions[b].state = "given"
                         /\ directions[a].origin = directions[b].origin
                         => a = b

GivenNotBegun ==
    \A a \in Agents : directions[a].state = "given" =>
        \A i \in DOMAIN begunFrom : begunFrom[i] # directions[a].origin

\* An agent that awaits a direction and whose direction another one recovered
\* is inactive, and no pause saved it ...
Recovered(a) == directions[a].state = "transferred" /\ agents[a].task = Awaiting

RecoveredInactive ==
    \A a \in Agents : Recovered(a) => /\ ~agents[a].active
                                      /\ Suspended => a \notin DOMAIN saved

\* ... and one that is inactive cannot write, or has no terminal.
Idle(a) == agents[a].task = Awaiting /\ ~agents[a].active

IdleMute ==
    \A a \in Agents : Idle(a) => /\ ~agents[a].writable \/ Gone(a)
                                 /\ Suspended /\ a \in DOMAIN saved => ~agents[a].writable

\* A terminal is continued after it is gone, and stays gone until the project
\* is resumed.
ContinuedGone ==
    /\ spent["pause"] = 0 => project = "active"
    /\ spent["pause"] = 0 \/ project = "draining" =>
        \A a \in Agents : continues[a] # None => Gone(continues[a])

DirectionsKept ==
    /\ NoRestart /\ BegunGiven /\ DistinctGiven /\ GivenNotBegun /\ DirectionBegunOnce
    /\ RecoveredInactive /\ IdleMute /\ ContinuedGone

PausedOnce == Budget["restart"] = 0 /\ Budget["pause"] =< 1

\* A terminal that is gone comes back by a restart or a resume.
LEMMA GoneStep ==
    ASSUME Types, [Next]_vars, NEW a \in Agents, Gone(a)
    PROVE  Gone(a)' \/ Relaunch(a) \/ ResumeTerminal(a)
<1> USE DEF Types, ControlTypes
<1>1. ASSUME UNCHANGED terminal PROVE Gone(a)'
  BY <1>1 DEF Gone
<1>2. ASSUME NEW A \in SUBSET Agents, StopTerminals(A) PROVE Gone(a)'
  BY <1>2 DEF StopTerminals, Gone
<1>3. ASSUME NEW b \in Agents, NEW p \in Agents \cup {None}, Opened(b, p) PROVE Gone(a)'
  BY <1>3 DEF Opened, Gone
<1>4. ASSUME NEW b \in Agents, OwnerStop(b) \/ RequestRestart(b) \/ RequestReplacement(b)
      PROVE  Gone(a)'
  BY <1>2, <1>4 DEF OwnerStop, RequestRestart, RequestReplacement
<1>5. ASSUME NEW t \in Tasks, Cancel(t) PROVE Gone(a)'
  BY <1>2, <1>5 DEF Cancel, On, Active
<1>6. ASSUME NEW b \in Agents, OpenTerminal(b) \/ \E c \in Agents : OpenReplacement(b, c)
      PROVE  Gone(a)'
  BY <1>3, <1>6 DEF OpenTerminal, OpenReplacement
<1>7. ASSUME NEW b \in Agents, TerminalEnds(b) \/ Supersede(b)
      PROVE  Gone(a)'
  BY <1>7 DEF TerminalEnds, Supersede, Gone, Running
<1>8. ASSUME NEW b \in Agents, b # a, Relaunch(b) \/ ResumeTerminal(b)
      PROVE  Gone(a)'
  BY <1>8 DEF Relaunch, ResumeTerminal, Gone
<1>9. ASSUME NEW b \in Agents,
             \/ GoOffline(b) \/ RegisterForTask(b) \/ RegisterAwaiting(b) \/ Reattach(b)
             \/ FinishHandoff(b) \/ GiveDirection(b)
             \/ \E s \in Agents : RegisterForDirection(b, s)
      PROVE  Gone(a)'
  BY <1>1, <1>9 DEF GoOffline, RegisterForTask, RegisterAwaiting, Registering, Reattach,
                    FinishHandoff, GiveDirection, RegisterForDirection, control
<1>10. ASSUME NEW b \in Agents, NEW t \in Tasks,
             \/ BeginTask(b, t) \/ Complete(b, t) \/ Reintegrate(b, t) \/ ClaimRepair(b, t)
             \/ \E s \in Agents : PlanRoute(t, b, s)
      PROVE  Gone(a)'
  BY <1>1, <1>10 DEF BeginTask, Complete, Reintegrate, ClaimRepair, PlanRoute, control
<1>11. ASSUME NEW t \in Tasks, Release(t) \/ Answer(t) \/ MainMoves(t) PROVE Gone(a)'
  BY <1>1, <1>11 DEF Release, Answer, MainMoves, control
<1>12. ASSUME \/ FinishRoute \/ BeginPause \/ FinishPause \/ BeginResume \/ StageDelivery
              \/ FinishResume \/ UNCHANGED vars
       PROVE  Gone(a)'
  BY <1>1, <1>12 DEF FinishRoute, BeginPause, FinishPause, BeginResume, StageDelivery,
                     FinishResume, vars, control
<1>13. Gone(a)' \/ \E b \in Agents : b = a /\ (Relaunch(b) \/ ResumeTerminal(b))
  BY <1>4, <1>5, <1>6, <1>7, <1>8, <1>9, <1>10, <1>11, <1>12, Zenon DEF Next
<1> QED BY <1>13

LEMMA DirectionFrame ==
    ASSUME [Next]_vars
    PROVE  \/ UNCHANGED <<directions, history>>
           \/ \E a \in Agents : GiveDirection(a) \/ OwnerStop(a)
           \/ \E a, s \in Agents : RegisterForDirection(a, s)
           \/ \E a \in Agents, t \in Tasks : BeginTask(a, t)
           \/ \E t \in Tasks : Cancel(t)
<1>1. ASSUME NEW a \in Agents,
             \/ OpenTerminal(a) \/ TerminalEnds(a) \/ GoOffline(a) \/ RegisterForTask(a)
             \/ RegisterAwaiting(a) \/ Reattach(a) \/ FinishHandoff(a) \/ Supersede(a)
      PROVE  UNCHANGED <<directions, history>>
  BY <1>1 DEF OpenTerminal, TerminalEnds, GoOffline, RegisterForTask, RegisterAwaiting,
              Registering, Reattach, FinishHandoff, Supersede, intake, ghosts
<1>2. ASSUME NEW a \in Agents,
             \/ RequestRestart(a) \/ Relaunch(a) \/ RequestReplacement(a) \/ ResumeTerminal(a)
             \/ \E b \in Agents : OpenReplacement(a, b)
      PROVE  UNCHANGED <<directions, history>>
  BY <1>2 DEF RequestRestart, Relaunch, RequestReplacement, ResumeTerminal, OpenReplacement,
              intake, ghosts
<1>3. ASSUME NEW a \in Agents, NEW t \in Tasks,
             \/ Complete(a, t) \/ Reintegrate(a, t) \/ ClaimRepair(a, t)
             \/ \E s \in Agents : PlanRoute(t, a, s)
      PROVE  UNCHANGED <<directions, history>>
  BY <1>3 DEF Complete, Reintegrate, ClaimRepair, PlanRoute, intake, ghosts
<1>4. ASSUME NEW t \in Tasks, Release(t) \/ Answer(t) \/ MainMoves(t)
      PROVE  UNCHANGED <<directions, history>>
  BY <1>4 DEF Release, Answer, MainMoves, intake, ghosts
<1>5. ASSUME \/ FinishRoute \/ BeginPause \/ FinishPause \/ BeginResume \/ StageDelivery
             \/ FinishResume \/ UNCHANGED vars
      PROVE  UNCHANGED <<directions, history>>
  BY <1>5 DEF FinishRoute, BeginPause, FinishPause, BeginResume, StageDelivery,
              FinishResume, vars, intake, ghosts
<1> QED BY <1>1, <1>2, <1>3, <1>4, <1>5, Zenon DEF Next

LEMMA SuspendedStep ==
    ASSUME Types, [Next]_vars, Suspended, ~FinishResume
    PROVE  \/ UNCHANGED agents
           \/ \E b \in Agents : Reattach(b)
           \/ \E t \in Tasks : Cancel(t)
<1>1. ~Open /\ project # "draining"
  BY DEF Open, Suspended
<1>2. \A b \in Agents : ~(\/ Registering(b) \/ GoOffline(b) \/ OwnerStop(b)
                          \/ RequestRestart(b) \/ RequestReplacement(b))
  BY <1>1 DEF Registering, GoOffline, OwnerStop, RequestRestart, RequestReplacement
<1>3. \A b \in Agents, t \in Tasks : ~(BeginTask(b, t) \/ Complete(b, t) \/ Woken(b, t))
  BY <1>1 DEF BeginTask, Complete, Working, Woken, MainMoves, ClaimRepair
<1>4. \A b, s \in Agents, t \in Tasks : ~TakenOver(b, s, t)
  BY <1>1 DEF TakenOver, TakesOver, CanTakeOver
<1>5. ~FinishPause
  BY <1>1 DEF FinishPause
<1> QED BY <1>2, <1>3, <1>4, <1>5, AgentFrame

\* Only BeginPause counts as a pause.
LEMMA PauseSpent ==
    ASSUME Types, [Next]_vars
    PROVE  spent'["pause"] = spent["pause"] \/ BeginPause
<1> DEFINE Goal == spent'["pause"] = spent["pause"]
<1>1. ASSUME UNCHANGED spent PROVE Goal
  BY <1>1
<1>2. ASSUME NEW k \in Kinds \ {"pause"}, Spend(k) PROVE Goal
  BY <1>2, SpendStep DEF Types, CallTypes, Kinds
<1>3. \A k \in {"end", "stop", "restart", "replace", "cancel", "move", "reject"} :
        k \in Kinds \ {"pause"}
  BY DEF Kinds
<1> HIDE DEF Goal
<1>4. ASSUME NEW a \in Agents,
             TerminalEnds(a) \/ OwnerStop(a) \/ RequestRestart(a) \/ RequestReplacement(a)
      PROVE  Goal
  BY <1>1, <1>2, <1>3, <1>4 DEF TerminalEnds, OwnerStop, RequestRestart, RequestReplacement
<1>5. ASSUME NEW t \in Tasks, Answer(t) \/ MainMoves(t) \/ Cancel(t) PROVE Goal
  BY <1>1, <1>2, <1>3, <1>5 DEF Answer, MainMoves, Cancel
<1>6. ASSUME NEW a \in Agents,
             \/ OpenTerminal(a) \/ GoOffline(a) \/ RegisterForTask(a) \/ RegisterAwaiting(a)
             \/ Reattach(a) \/ FinishHandoff(a) \/ Supersede(a) \/ GiveDirection(a)
             \/ Relaunch(a) \/ ResumeTerminal(a)
             \/ \E b \in Agents : RegisterForDirection(a, b) \/ OpenReplacement(a, b)
      PROVE  Goal
  BY <1>1, <1>6 DEF OpenTerminal, GoOffline, RegisterForTask, RegisterAwaiting, Registering,
                    Reattach, FinishHandoff, Supersede, GiveDirection, Relaunch, ResumeTerminal,
                    RegisterForDirection, OpenReplacement, ghosts
<1>7. ASSUME NEW a \in Agents, NEW t \in Tasks,
             \/ BeginTask(a, t) \/ Complete(a, t) \/ Reintegrate(a, t) \/ ClaimRepair(a, t)
             \/ \E s \in Agents : PlanRoute(t, a, s)
      PROVE  Goal
  BY <1>1, <1>7 DEF BeginTask, Complete, Reintegrate, ClaimRepair, PlanRoute, ghosts
<1>8. ASSUME NEW t \in Tasks, Release(t) PROVE Goal
  BY <1>1, <1>8 DEF Release, ghosts
<1>9. ASSUME \/ FinishRoute \/ FinishPause \/ BeginResume \/ StageDelivery \/ FinishResume
             \/ UNCHANGED vars
      PROVE  Goal
  BY <1>1, <1>9 DEF FinishRoute, FinishPause, BeginResume, StageDelivery, FinishResume, vars, ghosts
<1>10. Goal \/ BeginPause
  BY <1>4, <1>5, <1>6, <1>7, <1>8, <1>9, Zenon DEF Next
<1> QED BY <1>10 DEF Goal

LEMMA ContinuedGoneStep ==
    ASSUME Types, NoRestart, ContinuedGone, PausedOnce, [Next]_vars
    PROVE  ContinuedGone'
<1>1. spent["pause"] \in Nat /\ "pause" \in Kinds
  BY DEF Types, CallTypes, Kinds
<1>2. BeginPause => spent["pause"] = 0 /\ spent'["pause"] = 1
  BY <1>1, SpendStep, OwnershipAssumption DEF BeginPause, PausedOnce, Types, CallTypes
<1>3. spent'["pause"] = 0 => spent["pause"] = 0 /\ ~BeginPause
  BY <1>1, <1>2, PauseSpent
<1>4. spent["pause"] = 0 => project = "active"
  BY DEF ContinuedGone
<1>5. spent'["pause"] = 0 => project' = "active"
  <2> SUFFICES ASSUME spent'["pause"] = 0 PROVE project' = "active"
    OBVIOUS
  <2>1. project = "active" /\ ~BeginPause
    BY <1>3, <1>4
  <2> QED
    BY <2>1, PauseFrame DEF pause, Cancel, FinishPause, BeginResume, StageDelivery, FinishResume
<1>6. ASSUME spent'["pause"] = 0 \/ project' = "draining",
             NEW a \in Agents, NEW p \in Agents, continues'[a] = p
      PROVE  Gone(p)'
  <2>1. spent["pause"] = 0 \/ project = "draining"
    <3>1. CASE spent'["pause"] = 0
      BY <1>3, <3>1
    <3>2. CASE project' = "draining"
      BY <1>2, <3>2, PauseFrame DEF pause, Cancel, FinishPause, BeginResume, StageDelivery,
         FinishResume
    <3> QED BY <1>6, <3>1, <3>2
  <2>2. \A b \in Agents : continues[b] # None => Gone(continues[b])
    BY <2>1 DEF ContinuedGone
  <2>3. p # None
    BY OwnershipAssumption
  <2>4. Gone(p)
    BY <1>6, <2>2, <2>3, ContinuesStep DEF Types, ControlTypes
  <2>5. project # "resuming" /\ ~agents[p].restart
    BY <1>4, <2>1 DEF NoRestart
  <2> QED BY <2>4, <2>5, GoneStep DEF Relaunch, ResumeTerminal
<1>7. continues' \in [Agents -> Agents \cup {None}]
  BY TypesStep DEF Types, ControlTypes
<1>8. ASSUME spent'["pause"] = 0 \/ project' = "draining",
             NEW a \in Agents, continues'[a] # None
      PROVE  terminal'[continues'[a]] \in {"ended", "closed", "retired"}
  <2>1. PICK p \in Agents : continues'[a] = p
    BY <1>7, <1>8
  <2> QED BY <1>6, <1>8, <2>1 DEF Gone
<1> QED BY <1>5, <1>8 DEF ContinuedGone, Gone

\* The task of an agent that awaits a direction.
LEMMA AwaitingStep ==
    ASSUME Types, [Next]_vars, NEW a \in Agents, agents'[a].task = Awaiting
    PROVE  agents[a].task = Awaiting \/ Registering(a)
<1>1. AgentTypes /\ Awaiting \notin Tasks
  BY OwnershipAssumption DEF Types
<1>2. ASSUME NEW b \in Agents, Registering(b)
      PROVE  agents[a].task = Awaiting \/ Registering(a)
  BY <1>1, <1>2, RegisteringAgents DEF Others
<1>3. ASSUME NEW b \in Agents, NEW t \in Tasks, BeginTask(b, t)
      PROVE  agents[a].task = Awaiting
  BY <1>1, <1>3, BeginTaskAgents DEF Others
<1>4. ASSUME NEW b \in Agents, NEW s \in Agents, NEW t \in Tasks, TakenOver(b, s, t)
      PROVE  agents[a].task = Awaiting
  BY <1>1, <1>4, TakesOverAgents DEF Others, TakenOver
<1> QED BY <1>2, <1>3, <1>4, OwnedFrame DEF SameOwner

\* An agent that awaits a direction and is inactive: a resume brings it back,
\* if the pause saved it, and nothing else does.
LEMMA IdleStep ==
    ASSUME Types, NoRestart, [Next]_vars, NEW a \in Agents, Idle(a), agents'[a].active
    PROVE  project = "resuming" /\ a \in DOMAIN saved
<1>1. AgentTypes /\ PauseTypes /\ Awaiting \notin Tasks
  BY OwnershipAssumption DEF Types
<1>2. agents'[a] # agents[a] /\ agents[a].task = Awaiting /\ ~agents[a].active
  BY DEF Idle
<1>3. ASSUME NEW b \in Agents, GoOffline(b) \/ OwnerStop(b) \/ RequestReplacement(b) PROVE FALSE
  <2>1. Others({b}) /\ ~agents'[b].active
    BY <1>1, <1>3, GoOfflineAgents, OwnerStopAgents, RequestReplacementAgents
  <2> QED BY <1>2, <2>1 DEF Others
<1>4. ASSUME NEW b \in Agents, RequestRestart(b) PROVE FALSE
  BY <1>1, <1>2, <1>4, RequestRestartAgents DEF Others
<1>5. ASSUME NEW b \in Agents, Registering(b) PROVE FALSE
  <2>1. Others({b}) /\ agents[b].task = None /\ None # Awaiting
    BY <1>1, <1>5, RegisteringAgents, OwnershipAssumption DEF AgentTypes
  <2> QED BY <1>2, <2>1 DEF Others
<1>6. ASSUME NEW b \in Agents, Reattach(b) PROVE project = "resuming" /\ a \in DOMAIN saved
  <2>1. a = b
    BY <1>1, <1>2, <1>6, ReattachAgents DEF Others
  <2> QED BY <1>2, <1>6, <2>1 DEF Reattach, NoRestart
<1>7. ASSUME NEW b \in Agents, NEW t \in Tasks, BeginTask(b, t) PROVE FALSE
  BY <1>1, <1>2, <1>7, BeginTaskAgents DEF Others
<1>8. ASSUME NEW b \in Agents, NEW t \in Tasks, Complete(b, t) PROVE FALSE
  BY <1>1, <1>2, <1>8, CompleteAgents DEF Others
<1>9. ASSUME NEW b \in Agents, NEW t \in Tasks, Woken(b, t) PROVE FALSE
  BY <1>1, <1>2, <1>9, AwakeAgents DEF Others, Woken
<1>10. ASSUME NEW b \in Agents, NEW s \in Agents, NEW t \in Tasks, TakenOver(b, s, t) PROVE FALSE
  BY <1>1, <1>2, <1>10, TakesOverAgents DEF Others, TakenOver
<1>11. ASSUME NEW t \in Tasks, Cancel(t) PROVE FALSE
  BY <1>1, <1>2, <1>11, CancelAgents DEF Others
<1>12. ASSUME FinishPause PROVE FALSE
  BY <1>1, <1>2, <1>12, FinishPauseAgents DEF Others
<1>13. ASSUME FinishResume PROVE project = "resuming" /\ a \in DOMAIN saved
  BY <1>1, <1>2, <1>13, FinishResumeAgents DEF Others, FinishResume
<1> QED
  BY <1>2, <1>3, <1>4, <1>5, <1>6, <1>7, <1>8, <1>9, <1>10, <1>11, <1>12, <1>13, AgentFrame

LEMMA RecoveredStep ==
    ASSUME Types, NoRestart, RecoveredInactive, [Next]_vars
    PROVE  RecoveredInactive'
<1> SUFFICES ASSUME NEW a \in Agents, Recovered(a)'
             PROVE  (/\ ~agents[a].active
                     /\ Suspended => a \notin DOMAIN saved)'
  BY DEF RecoveredInactive
<1>1. /\ AgentTypes /\ RosterTypes /\ PauseTypes /\ DirectionTypes
      /\ Awaiting \notin Tasks /\ Awaiting # None /\ kept \subseteq Tasks
  BY OwnershipAssumption DEF Types, TaskTypes
<1>2. ASSUME NEW b \in Agents, RegisterForDirection(b, a)
      PROVE  (/\ ~agents[a].active
              /\ Suspended => a \notin DOMAIN saved)'
  <2>1. Registering(b) /\ agents[a].task = Awaiting /\ ~agents[a].active
    BY <1>2 DEF RegisterForDirection, Stranded
  <2>2. Others({b}) /\ b # a
    BY <1>1, <2>1, RegisteringAgents DEF AgentTypes
  <2>3. ~Suspended'
    BY <2>1 DEF Registering, Open, pause, Suspended
  <2> QED BY <2>1, <2>2, <2>3 DEF Others
<1>3. ASSUME ~ \E b \in Agents : RegisterForDirection(b, a)
      PROVE  directions[a].state = "transferred"
  <2>1. directions'[a].state = "transferred"
    BY DEF Recovered
  <2>2. ASSUME NEW b \in Agents, NEW s \in Agents, s # a, RegisterForDirection(b, s)
        PROVE  directions[a].state = "transferred"
    <3>1. directions[s].state = "given"
      BY <2>2 DEF RegisterForDirection, Stranded
    <3>2. directions' = [directions EXCEPT ![s].state = "transferred", ![b] = directions[s]]
      BY <2>2 DEF RegisterForDirection
    <3>3. a # b
      BY <1>1, <2>1, <3>1, <3>2 DEF DirectionTypes
    <3> QED BY <1>1, <2>1, <2>2, <3>2, <3>3 DEF DirectionTypes
  <2>3. ASSUME NEW b \in Agents, GiveDirection(b) \/ OwnerStop(b)
        PROVE  directions[a].state = "transferred"
    <3>1. \/ UNCHANGED directions
          \/ \E d \in {NoDirection, [state |-> "given", origin |-> given + 1]} :
                directions' = [directions EXCEPT ![b] = d]
      BY <2>3 DEF GiveDirection, OwnerStop
    <3> QED BY <1>1, <2>1, <3>1 DEF DirectionTypes, NoDirection
  <2>4. ASSUME NEW b \in Agents, NEW t \in Tasks, BeginTask(b, t)
        PROVE  directions[a].state = "transferred"
    <3>1. directions' = [directions EXCEPT ![b].state = "consumed"]
      BY <2>4 DEF BeginTask
    <3> QED BY <1>1, <2>1, <3>1 DEF DirectionTypes, Direction
  <2>5. ASSUME NEW t \in Tasks, Cancel(t) PROVE directions[a].state = "transferred"
    BY <1>1, <2>1, <2>5 DEF Cancel, NoDirection, DirectionTypes
  <2> QED BY <1>3, <2>1, <2>2, <2>3, <2>4, <2>5, DirectionFrame
<1>4. ASSUME directions[a].state = "transferred"
      PROVE  (/\ ~agents[a].active
              /\ Suspended => a \notin DOMAIN saved)'
  <2>1. Known(a)
    BY <1>1, <1>4 DEF AgentTypes
  <2>2. agents[a].task = Awaiting
    BY <1>1, <2>1, AwaitingStep DEF Recovered, Registering
  <2>3. Idle(a) /\ (Suspended => a \notin DOMAIN saved)
    BY <1>4, <2>2 DEF Idle, Recovered, RecoveredInactive
  <2>4. ~agents'[a].active
    BY <2>3, IdleStep DEF Suspended
  <2>5. ASSUME Suspended', a \in DOMAIN saved' PROVE FALSE
    <3>1. CASE UNCHANGED pause \/ BeginResume
      BY <2>3, <2>5, <3>1 DEF pause, BeginResume, Suspended
    <3>2. CASE \E t \in Tasks : Cancel(t)
      BY <2>3, <2>5, <3>2, CancelSaved DEF Cancel, Suspended
    <3>3. CASE FinishPause
      BY <1>1, <2>3, <2>5, <3>3, FinishPauseAgents DEF Idle, Active
    <3>4. CASE StageDelivery
      <4>1. PICK C \in SUBSET Agents : Staged(C)
        BY <1>1, <3>4, StageDeliverySaved
      <4>2. a \notin C
        BY <1>1, <2>2, <4>1 DEF Staged, Unserved
      <4> QED BY <2>3, <2>5, <3>4, <4>1, <4>2 DEF Staged, StageDelivery, Suspended
    <3>5. CASE BeginPause \/ FinishResume
      BY <2>5, <3>5 DEF BeginPause, FinishResume, Suspended
    <3> QED BY <3>1, <3>2, <3>3, <3>4, <3>5, PauseFrame
  <2> QED BY <2>4, <2>5
<1> QED BY <1>2, <1>3, <1>4

\* An agent that awaits a direction and turns inactive keeps its authority
\* only when its terminal is gone or the pause finds it continued.
LEMMA IdleComes ==
    ASSUME Types, [Next]_vars, NEW a \in Agents, Idle(a)', agents'[a].writable
    PROVE  /\ agents[a].writable /\ agents[a].task = Awaiting
           /\ \/ Idle(a) \/ GoOffline(a)
              \/ FinishPause /\ agents[a].active /\ Continued(a)
<1> DEFINE Goal == /\ agents[a].writable /\ agents[a].task = Awaiting
                   /\ \/ Idle(a) \/ GoOffline(a)
                      \/ FinishPause /\ agents[a].active /\ Continued(a)
<1>1. AgentTypes /\ PauseTypes /\ Awaiting \notin Tasks
  BY OwnershipAssumption DEF Types
<1>2. agents'[a].task = Awaiting /\ ~agents'[a].active
  BY DEF Idle
<1>3. ASSUME agents'[a] = agents[a] PROVE Goal
  BY <1>2, <1>3 DEF Idle
<1>4. ASSUME NEW b \in Agents, GoOffline(b) PROVE Goal
  <2>1. CASE a = b
    BY <1>1, <1>2, <1>4, <2>1, GoOfflineAgents
  <2>2. CASE a # b
    BY <1>1, <1>3, <1>4, <2>2, GoOfflineAgents DEF Others
  <2> QED BY <2>1, <2>2
<1>5. ASSUME NEW b \in Agents, Registering(b) \/ Reattach(b) PROVE Goal
  <2>1. Others({b}) /\ agents'[b].active
    BY <1>1, <1>5, RegisteringAgents, ReattachAgents DEF NewAgent
  <2> QED BY <1>2, <1>3, <2>1 DEF Others
<1>6. ASSUME NEW b \in Agents, OwnerStop(b) PROVE Goal
  BY <1>1, <1>3, <1>6, OwnerStopAgents DEF Others
<1>7. ASSUME NEW b \in Agents, RequestRestart(b) PROVE Goal
  <2>1. CASE a = b
    BY <1>1, <1>2, <1>7, <2>1, RequestRestartAgents DEF Idle
  <2>2. CASE a # b
    BY <1>1, <1>3, <1>7, <2>2, RequestRestartAgents DEF Others
  <2> QED BY <2>1, <2>2
<1>8. ASSUME NEW b \in Agents, RequestReplacement(b) PROVE Goal
  <2>1. Others({b}) /\ agents'[b].task \in Tasks
    BY <1>1, <1>8, RequestReplacementAgents
  <2> QED BY <1>1, <1>2, <1>3, <2>1 DEF Others
<1>9. ASSUME NEW b \in Agents, NEW t \in Tasks, BeginTask(b, t) \/ Complete(b, t) PROVE Goal
  <2>1. Others({b}) /\ agents'[b].task = t
    BY <1>1, <1>9, BeginTaskAgents, CompleteAgents
  <2> QED BY <1>1, <1>2, <1>3, <2>1 DEF Others
<1>10. ASSUME NEW b \in Agents, NEW t \in Tasks, Woken(b, t) PROVE Goal
  BY <1>1, <1>2, <1>3, <1>10, AwakeAgents DEF Others, Woken
<1>11. ASSUME NEW b \in Agents, NEW s \in Agents, NEW t \in Tasks, TakenOver(b, s, t) PROVE Goal
  BY <1>1, <1>2, <1>3, <1>11, TakesOverAgents DEF Others, TakenOver
<1>12. ASSUME NEW t \in Tasks, Cancel(t) PROVE Goal
  BY <1>1, <1>3, <1>12, CancelAgents DEF Others
<1>13. ASSUME FinishPause PROVE Goal
  <2>1. CASE a \in Active
    BY <1>1, <1>2, <1>13, <2>1, FinishPauseAgents DEF Active
  <2>2. CASE a \notin Active
    BY <1>1, <1>3, <1>13, <2>2, FinishPauseAgents DEF Others
  <2> QED BY <2>1, <2>2
<1>14. ASSUME FinishResume PROVE Goal
  BY <1>1, <1>2, <1>3, <1>14, FinishResumeAgents DEF Others
<1> HIDE DEF Goal
<1>15. Goal
  BY <1>3, <1>4, <1>5, <1>6, <1>7, <1>8, <1>9, <1>10, <1>11, <1>12, <1>13, <1>14, AgentFrame
<1> QED BY <1>15 DEF Goal

LEMMA IdleMuteStep ==
    ASSUME Types, NoRestart, ContinuedGone, IdleMute, [Next]_vars
    PROVE  IdleMute'
<1> SUFFICES ASSUME NEW a \in Agents, Idle(a)', agents'[a].writable
             PROVE  Gone(a)' /\ ~(Suspended' /\ a \in DOMAIN saved')
  BY DEF IdleMute
<1>1. AgentTypes /\ PauseTypes /\ RosterTypes /\ kept \subseteq Tasks /\ Awaiting \notin Tasks
  BY OwnershipAssumption DEF Types, TaskTypes
<1>2. agents[a].writable /\ agents[a].task = Awaiting
  BY IdleComes
<1>3. CASE Idle(a)
  <2>1. Gone(a) /\ ~(Suspended /\ a \in DOMAIN saved)
    BY <1>2, <1>3 DEF IdleMute
  <2>2. ~Relaunch(a) /\ ~ResumeTerminal(a)
    BY <2>1 DEF NoRestart, Relaunch, ResumeTerminal, Suspended
  <2>3. Gone(a)'
    BY <2>1, <2>2, GoneStep
  <2>4. ASSUME Suspended', a \in DOMAIN saved' PROVE FALSE
    <3>1. CASE UNCHANGED pause \/ BeginResume
      BY <2>1, <2>4, <3>1 DEF pause, BeginResume, Suspended
    <3>2. CASE \E t \in Tasks : Cancel(t)
      BY <2>1, <2>4, <3>2, CancelSaved DEF Cancel, Suspended
    <3>3. CASE FinishPause
      BY <1>1, <1>3, <2>4, <3>3, FinishPauseAgents DEF Idle, Active
    <3>4. CASE StageDelivery
      <4>1. PICK C \in SUBSET Agents : Staged(C)
        BY <1>1, <3>4, StageDeliverySaved
      <4>2. a \notin C
        BY <1>1, <1>2, <4>1 DEF Staged, Unserved
      <4> QED BY <2>1, <2>4, <3>4, <4>1, <4>2 DEF Staged, StageDelivery, Suspended
    <3>5. CASE BeginPause \/ FinishResume
      BY <2>4, <3>5 DEF BeginPause, FinishResume, Suspended
    <3> QED BY <3>1, <3>2, <3>3, <3>4, <3>5, PauseFrame
  <2> QED BY <2>3, <2>4
<1>4. CASE GoOffline(a)
  <2>1. Gone(a) /\ terminal' = terminal /\ project' = project /\ ~Suspended
    BY <1>4 DEF GoOffline, control, pause, Open, Suspended
  <2> QED BY <2>1 DEF Gone, Suspended
<1>5. CASE FinishPause /\ agents[a].active /\ Continued(a)
  <2>1. PICK b \in Active : continues[b] = a
    BY <1>5 DEF Continued
  <2>2. b \in Agents /\ a # None /\ project = "draining" /\ terminal' = terminal
    BY <1>5, OwnershipAssumption DEF Active, FinishPause, control
  <2>3. Gone(a)
    BY <2>1, <2>2 DEF ContinuedGone
  <2>4. a \notin DOMAIN saved'
    BY <1>1, <1>5, FinishPauseAgents
  <2> QED BY <2>2, <2>3, <2>4 DEF Gone
<1> QED BY <1>3, <1>4, <1>5, IdleComes

\* A direction is given at most once at a time, and not after it was begun.
Fresh == BegunGiven /\ DistinctGiven /\ GivenNotBegun /\ DirectionBegunOnce

LEMMA FreshKept ==
    ASSUME DirectionTypes, Fresh, UNCHANGED history, directions' \in [Agents -> Direction]',
           \A a \in Agents : directions'[a].state = "given" => directions'[a] = directions[a]
    PROVE  Fresh'
<1>1. begunFrom' = begunFrom /\ given' = given
  BY DEF history
<1>2. BegunGiven' /\ DirectionBegunOnce'
  BY <1>1 DEF Fresh, BegunGiven, DirectionBegunOnce
<1>3. DistinctGiven'
  BY DEF Fresh, DistinctGiven
<1>4. GivenNotBegun'
  BY <1>1 DEF Fresh, GivenNotBegun
<1> QED BY <1>2, <1>3, <1>4 DEF Fresh

LEMMA FreshStep ==
    ASSUME Types, Fresh, RecoveredInactive, IdleMute, [Next]_vars
    PROVE  Fresh'
<1>1. DirectionTypes /\ DirectionTypes' /\ AgentTypes
  BY TypesStep DEF Types
<1>2. given \in Nat /\ begunFrom \in Seq(Nat)
      /\ \A a \in Agents : directions[a].origin \in 0..given
  BY <1>1 DEF DirectionTypes, Direction
<1>3. CASE UNCHANGED <<directions, history>>
  BY <1>1, <1>3, FreshKept DEF DirectionTypes
<1>4. ASSUME NEW a \in Agents, OwnerStop(a) PROVE Fresh'
  <2>1. directions' = [directions EXCEPT ![a] = NoDirection] \/ directions' = directions
    BY <1>4 DEF OwnerStop
  <2>2. \A b \in Agents : directions'[b].state = "given" => directions'[b] = directions[b]
    BY <1>1, <2>1 DEF NoDirection, DirectionTypes
  <2> QED BY <1>1, <1>4, <2>2, FreshKept DEF DirectionTypes, OwnerStop
<1>5. ASSUME NEW t \in Tasks, Cancel(t) PROVE Fresh'
  <2>1. directions' = [a \in Agents |-> IF a \in On(t) THEN NoDirection ELSE directions[a]]
    BY <1>5 DEF Cancel
  <2>2. \A b \in Agents : directions'[b].state = "given" => directions'[b] = directions[b]
    BY <2>1 DEF NoDirection
  <2> QED BY <1>1, <1>5, <2>2, FreshKept DEF DirectionTypes, Cancel
<1>6. ASSUME NEW a \in Agents, GiveDirection(a) PROVE Fresh'
  <2>1. /\ given' = given + 1 /\ begunFrom' = begunFrom
        /\ directions' = [directions EXCEPT ![a] = [state |-> "given", origin |-> given + 1]]
    BY <1>6 DEF GiveDirection
  <2>2. /\ directions'[a].origin = given + 1
        /\ \A b \in Agents \ {a} : directions'[b] = directions[b]
    BY <1>1, <2>1 DEF DirectionTypes
  <2>3. BegunGiven' /\ DirectionBegunOnce'
    BY <1>2, <2>1 DEF Fresh, BegunGiven, DirectionBegunOnce
  <2>4. DistinctGiven'
    <3>1. \A b \in Agents \ {a} : directions'[b].origin # given + 1
      BY <1>2, <2>2
    <3> QED BY <2>2, <3>1 DEF Fresh, DistinctGiven
  <2>5. GivenNotBegun'
    <3>1. \A i \in DOMAIN begunFrom : begunFrom[i] # given + 1
      BY <1>2 DEF Fresh, BegunGiven
    <3> QED BY <2>1, <2>2, <3>1 DEF Fresh, GivenNotBegun
  <2> QED BY <2>3, <2>4, <2>5 DEF Fresh
<1>7. ASSUME NEW a \in Agents, NEW s \in Agents, RegisterForDirection(a, s) PROVE Fresh'
  <2>1. /\ directions' = [directions EXCEPT ![s].state = "transferred", ![a] = directions[s]]
        /\ directions[s].state = "given" /\ ~Known(a) /\ UNCHANGED history
    BY <1>7 DEF RegisterForDirection, Registering, Stranded, ghosts
  <2>2. a # s
    BY <1>1, <2>1 DEF AgentTypes
  <2>3. /\ directions'[a] = directions[s] /\ directions'[s].state = "transferred"
        /\ \A b \in Agents \ {a, s} : directions'[b] = directions[b]
    BY <1>1, <2>1, <2>2 DEF DirectionTypes, Direction
  <2>4. BegunGiven' /\ DirectionBegunOnce'
    BY <2>1 DEF Fresh, BegunGiven, DirectionBegunOnce, history
  <2>5. DistinctGiven'
    <3>1. ASSUME NEW b \in Agents, b # a, directions'[b].state = "given"
          PROVE  directions'[b].origin # directions'[a].origin
      <4>1. b # s /\ directions'[b] = directions[b]
        BY <2>3, <3>1
      <4> QED BY <2>1, <2>3, <3>1, <4>1 DEF Fresh, DistinctGiven
    <3>2. ASSUME NEW b \in Agents \ {a}, NEW c \in Agents \ {a},
                 directions'[b].state = "given", directions'[c].state = "given",
                 directions'[b].origin = directions'[c].origin
          PROVE  b = c
      <4>1. b # s /\ c # s /\ directions'[b] = directions[b] /\ directions'[c] = directions[c]
        BY <2>3, <3>2
      <4> QED BY <3>2, <4>1 DEF Fresh, DistinctGiven
    <3> QED BY <3>1, <3>2 DEF DistinctGiven
  <2>6. GivenNotBegun'
    BY <2>1, <2>3 DEF Fresh, GivenNotBegun, history
  <2> QED BY <2>4, <2>5, <2>6 DEF Fresh
<1>8. ASSUME NEW a \in Agents, NEW t \in Tasks, BeginTask(a, t) PROVE Fresh'
  <2> DEFINE o == directions[a].origin
  <2>1. /\ given' = given /\ begunFrom' = Append(begunFrom, o)
        /\ directions' = [directions EXCEPT ![a].state = "consumed"]
        /\ directions[a].state \in {"given", "transferred"}
        /\ Running(a) /\ agents[a].writable /\ agents[a].task = Awaiting
    BY <1>8 DEF BeginTask, Working, Writable
  <2>2. directions[a].state = "given"
    <3>1. ~Idle(a)
      BY <2>1 DEF IdleMute, Running, Gone
    <3> QED BY <2>1, <3>1 DEF RecoveredInactive, Recovered, Idle
  <2>3. /\ directions'[a].state = "consumed"
        /\ \A b \in Agents \ {a} : directions'[b] = directions[b]
    BY <1>1, <2>1 DEF DirectionTypes, Direction
  <2>4. \A i \in DOMAIN begunFrom : begunFrom[i] # o
    BY <2>2 DEF Fresh, GivenNotBegun
  <2>5. /\ DOMAIN begunFrom' = DOMAIN begunFrom \cup {Len(begunFrom) + 1}
        /\ begunFrom'[Len(begunFrom) + 1] = o
        /\ \A i \in DOMAIN begunFrom : begunFrom'[i] = begunFrom[i]
    BY <1>2, <2>1
  <2> HIDE DEF o
  <2>6. BegunGiven'
    BY <1>2, <2>1, <2>5 DEF Fresh, BegunGiven, o
  <2>7. DirectionBegunOnce'
    BY <2>4, <2>5 DEF Fresh, DirectionBegunOnce, IsInjective
  <2>8. DistinctGiven'
    BY <2>3 DEF Fresh, DistinctGiven
  <2>9. GivenNotBegun'
    <3>1. \A b \in Agents \ {a} : directions[b].state = "given" => directions[b].origin # o
      BY <2>2 DEF Fresh, DistinctGiven, o
    <3> QED BY <2>3, <2>5, <3>1 DEF Fresh, GivenNotBegun
  <2> QED BY <2>6, <2>7, <2>8, <2>9 DEF Fresh
<1> QED BY <1>3, <1>4, <1>5, <1>6, <1>7, <1>8, DirectionFrame

(***************************************************************************)
(* One direction starts one task.  A terminal that ended leaves its        *)
(* direction to the next one that registers; what must not happen is that  *)
(* the first agent comes back and begins a task from it as well.           *)
(***************************************************************************)
THEOREM DirectionsBegunOnce ==
    ASSUME PausedOnce
    PROVE  Spec => []DirectionBegunOnce
<1>1. Init => DirectionsKept
  <2> SUFFICES ASSUME Init PROVE DirectionsKept
    OBVIOUS
  <2>1. \A a \in Agents : /\ agents[a] = Unknown /\ directions[a] = NoDirection
                          /\ continues[a] = None
    BY DEF Init
  <2>2. NoRestart /\ RecoveredInactive /\ IdleMute
    BY <2>1, AgentRecords, OwnershipAssumption
       DEF NoRestart, RecoveredInactive, Recovered, IdleMute, Idle, NoDirection
  <2>3. ContinuedGone
    BY <2>1 DEF Init, ContinuedGone
  <2>4. BegunGiven /\ DistinctGiven /\ GivenNotBegun
    BY <2>1 DEF Init, BegunGiven, DistinctGiven, GivenNotBegun, NoDirection
  <2>5. DirectionBegunOnce
    BY DEF Init, DirectionBegunOnce, IsInjective
  <2> QED BY <2>2, <2>3, <2>4, <2>5 DEF DirectionsKept
<1>2. Types /\ DirectionsKept /\ [Next]_vars => Types' /\ DirectionsKept'
  <2> SUFFICES ASSUME Types, DirectionsKept, [Next]_vars PROVE Types' /\ DirectionsKept'
    OBVIOUS
  <2>1. Budget["restart"] = 0 /\ NoRestart /\ ContinuedGone /\ RecoveredInactive /\ IdleMute
    BY DEF PausedOnce, DirectionsKept
  <2>2. NoRestart' /\ ContinuedGone' /\ RecoveredInactive' /\ IdleMute'
    BY <2>1, NoRestartStep, ContinuedGoneStep, RecoveredStep, IdleMuteStep
  <2>3. Fresh'
    BY <2>1, FreshStep DEF DirectionsKept, Fresh
  <2> QED BY <2>2, <2>3, TypesStep DEF DirectionsKept, Fresh
<1>3. DirectionsKept => DirectionBegunOnce
  BY DEF DirectionsKept
<1> QED BY <1>1, <1>2, <1>3, TypesInit, PTL DEF Spec
=============================================================================
