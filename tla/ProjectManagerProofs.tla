------------------------ MODULE ProjectManagerProofs ------------------------
(***************************************************************************)
(* Proofs about the manager of the projects (ProjectManager).              *)
(*                                                                         *)
(* Types and Callers hold of every instance: a thread that is in a call is *)
(* in a call of a living manager.  What ServesActive and ActivationServed  *)
(* rest on is that the calls of one life exclude one another: Holders says *)
(* that a call between Enter and Return is the one that holds lifecycle,   *)
(* so that Handles, about the handle and the activation, can be stated     *)
(* for every state and not only between the calls.                         *)
(***************************************************************************)
EXTENDS ProjectManager, TLAPS

Inside == {"begin", "clear", "look", "switch", "activate", "touch", "touched", "spawn",
           "wait", "resume", "reuse", "finish", "pause", "paused", "close", "release"}
Places == Inside \cup {"idle", "lock", "load", "save"}

Call == [at : Places, m : Managers \cup {None}, kind : AllKinds \cup {None},
         p : Projects \cup {None}, resuming : BOOLEAN, fresh : BOOLEAN,
         view : SUBSET Projects]
Lock == [manager : Managers, project : Projects, held : BOOLEAN]
Worker == {NoWorker} \cup [project : Projects, manager : Managers,
                           state : {"starting", "ready", "dead"}]
Closing == {None} \cup [project : Projects \cup {None}, keep : BOOLEAN]

\* The two phases of Lives.
Living == {"serving", "stopping"}

Types ==
    /\ listed \subseteq Projects /\ issued \subseteq Projects
    /\ lock = None \/ lock \in Lock
    /\ board \in [Projects -> {"active", "draining", "paused", "resuming"}]
    /\ resumed \subseteq Projects
    /\ phase \in [Managers -> {"new", "serving", "stopping", "dead"}]
    /\ handle \in [Managers -> Workers \cup {None}]
    /\ lifecycle \in [Managers -> Threads \cup {None}]
    /\ starting \in [Managers -> Projects \cup {None}]
    /\ cancel \in [Managers -> BOOLEAN] /\ glanced \in [Managers -> BOOLEAN]
    /\ closing \in [Managers -> Closing]
    /\ worker \in [Workers -> Worker]
    /\ inherited \in [Managers -> Projects \cup {None}] /\ standing \in Projects \cup {None}
    /\ call \in [Threads -> Call] /\ spent \in [Events -> Nat]

\* A call is a call of a manager that lives, for a project, and only those that
\* change the list read it.
Callers ==
    \A th \in Threads :
        IF call[th].at = "idle" THEN call[th] = Idle
        ELSE /\ call[th].m \in Managers /\ call[th].p \in Projects /\ call[th].kind \in Kinds
             /\ phase[call[th].m] \in Living
             /\ call[th].kind = "register" => call[th].at \in {"load", "save"}
             /\ call[th].at \in {"load", "save"} => call[th].kind \in {"register", "delete"}

\* A handle is that of a worker that was started.
Held == \A m \in Managers : handle[m] # None => worker[handle[m]] # NoWorker

Base == Types /\ Callers /\ Held

(***************************************************************************)
(* What a step does to the calls.                                          *)
(***************************************************************************)
\* The other calls are where they were.
Alone(th) == call' \in [Threads -> Call] /\ \A o \in Threads \ {th} : call'[o] = call[o]

\* The call goes on at one of the places given, or is over.
Goes(th, places) ==
    /\ Alone(th)
    /\ \/ /\ call'[th].at \in places \ {"idle"} /\ call'[th].m = call[th].m
          /\ call'[th].kind = call[th].kind /\ call'[th].p = call[th].p
          /\ call'[th].view = call[th].view
       \/ "idle" \in places /\ call'[th] = Idle

LEMMA IdleIsCall == Idle \in Call
  BY DEF Idle, Call, Places

\* A step of a call within the program text leaves the rest of its record.
LEMMA GoGoes ==
    ASSUME call \in [Threads -> Call], NEW th \in Threads, NEW there \in Places \ {"idle"},
           Go(th, there)
    PROVE  Goes(th, {there}) /\ call'[th].resuming = call[th].resuming
           /\ call'[th].fresh = call[th].fresh
  <1>1. call[th] \in Call
    OBVIOUS
  <1>2. [call[th] EXCEPT !.at = there] \in Call
    BY <1>1 DEF Call
  <1>3. call' = [call EXCEPT ![th] = [call[th] EXCEPT !.at = there]]
    BY DEF Go
  <1>4. call'[th] = [call[th] EXCEPT !.at = there]
    BY <1>3
  <1>5. Alone(th)
    BY <1>2, <1>3 DEF Alone
  <1> QED
    BY <1>1, <1>4, <1>5 DEF Goes, Call

\* A call that leaves the lifecycle lock is over, or goes on without it.
LEMMA LeavesGoes ==
    ASSUME call \in [Threads -> Call], NEW th \in Threads, NEW there \in Places,
           Leaves(th, there)
    PROVE  Goes(th, {there})
  <1>1. call[th] \in Call
    OBVIOUS
  <1>2. [call[th] EXCEPT !.at = there] \in Call
    BY <1>1 DEF Call
  <1>3. call' = [call EXCEPT ![th] = IF there = "idle" THEN Idle
                                     ELSE [call[th] EXCEPT !.at = there]]
    BY DEF Leaves
  <1>4. call'[th] = IF there = "idle" THEN Idle ELSE [call[th] EXCEPT !.at = there]
    BY <1>3
  <1>5. Alone(th)
    BY <1>2, <1>3, IdleIsCall DEF Alone
  <1>6. CASE there = "idle"
    BY <1>4, <1>5, <1>6 DEF Goes
  <1>7. CASE there # "idle"
    BY <1>1, <1>4, <1>5, <1>7 DEF Goes, Call
  <1> QED
    BY <1>6, <1>7

LEMMA ReturnGoes ==
    ASSUME call \in [Threads -> Call], NEW th \in Threads, Return(th)
    PROVE  Goes(th, {"idle"})
  BY LeavesGoes DEF Return, Places

\* What Leaves does to the lifecycle lock and to the mark of a start.
LEMMA LeavesMemory ==
    ASSUME Types, NEW th \in Threads, call[th].m \in Managers, NEW there, Leaves(th, there)
    PROVE  /\ lifecycle' = [lifecycle EXCEPT ![call[th].m] = None]
           /\ starting' = [starting EXCEPT ![call[th].m] = None]
           /\ lifecycle' \in [Managers -> Threads \cup {None}]
           /\ starting' \in [Managers -> Projects \cup {None}]
  BY DEF Leaves, Types

\* The worker of a handle stops; every other one is as it was.
LEMMA StoppedWorkers ==
    ASSUME Types, Held, NEW m \in Managers
    PROVE  /\ Stopped(m) \in [Workers -> Worker]
           /\ \A w \in Workers :
                /\ w # handle[m] => Stopped(m)[w] = worker[w]
                /\ w = handle[m] => /\ Stopped(m)[w].state = "dead" /\ worker[w] # NoWorker
                                    /\ Stopped(m)[w].project = worker[w].project
                                    /\ Stopped(m)[w].manager = worker[w].manager
                                    /\ Stopped(m)[w] # NoWorker
  <1> SUFFICES ASSUME NEW w \in Workers
               PROVE  /\ Stopped(m)[w] \in Worker
                      /\ w # handle[m] => Stopped(m)[w] = worker[w]
                      /\ w = handle[m] => /\ Stopped(m)[w].state = "dead" /\ worker[w] # NoWorker
                                          /\ Stopped(m)[w].project = worker[w].project
                                          /\ Stopped(m)[w].manager = worker[w].manager
                                          /\ Stopped(m)[w] # NoWorker
    BY DEF Stopped
  <1>1. None \notin Workers
    BY ManagerAssumption
  <1>2. worker[w] \in Worker
    BY DEF Types
  <1>3. CASE w # handle[m]
    BY <1>2, <1>3 DEF Stopped
  <1>4. CASE w = handle[m]
    <2>1. worker[w] # NoWorker
      BY <1>1, <1>4 DEF Held
    <2>2. worker[w] \in [project : Projects, manager : Managers,
                         state : {"starting", "ready", "dead"}]
      BY <1>2, <2>1 DEF Worker
    <2>3. Stopped(m)[w] = [worker[w] EXCEPT !.state = "dead"]
      BY <1>4 DEF Stopped
    <2>4. Stopped(m)[w] \in [project : Projects, manager : Managers,
                             state : {"starting", "ready", "dead"}]
      BY <2>2, <2>3
    <2>5. Stopped(m)[w].state = "dead" /\ Stopped(m)[w].project = worker[w].project
          /\ Stopped(m)[w].manager = worker[w].manager
      BY <2>2, <2>3
    <2> QED
      BY <1>4, <2>1, <2>4, <2>5 DEF Worker, NoWorker
  <1> QED
    BY <1>3, <1>4

\* Where a step of a call leads, and from where.
LEMMA StepGoes ==
    ASSUME Base, NEW th \in Threads
    PROVE  /\ Begin(th) => call[th].at = "begin" /\ Goes(th, {"clear"})
           /\ Clear(th) => call[th].at = "clear" /\ Goes(th, {"look"})
           /\ Look(th) => call[th].at = "look" /\ Goes(th, {"resume", "switch", "idle"})
           /\ Switch(th) => call[th].at = "switch" /\ Goes(th, {"activate"})
           /\ Activate(th) => call[th].at = "activate" /\ Goes(th, {"touch", "idle"})
           /\ Spawn(th) => call[th].at = "spawn" /\ Goes(th, {"wait"})
           /\ Touched(th) => call[th].at = "touched" /\ Goes(th, {"spawn"})
           /\ Fails(th) => call[th].at = "wait" /\ Goes(th, {"idle"})
           /\ Opens(th) => call[th].at = "wait" /\ Goes(th, {"finish", "idle"})
           /\ Reuse(th) => call[th].at = "reuse" /\ Goes(th, {"finish", "begin", "look", "idle"})
           /\ FinishResume(th) => call[th].at = "finish" /\ Goes(th, {"idle"})
           /\ BeginPause(th) => call[th].at = "pause" /\ Goes(th, {"paused", "idle"})
           /\ FinishPause(th) => call[th].at = "paused" /\ Goes(th, {"idle"})
           /\ Close(th) => call[th].at = "close" /\ Goes(th, {"release"})
           /\ Release(th) => call[th].at = "release" /\ Goes(th, {"load", "idle"})
  <1> USE DEF At
  <1>1. call \in [Threads -> Call]
    BY DEF Base, Types
  <1>2. Begin(th) => call[th].at = "begin" /\ Goes(th, {"clear"})
    BY <1>1, GoGoes, LeavesGoes, ReturnGoes DEF Begin, Goes, Places, Inside
  <1>3. Clear(th) => call[th].at = "clear" /\ Goes(th, {"look"})
    BY <1>1, GoGoes, LeavesGoes, ReturnGoes DEF Clear, Goes, Places, Inside
  <1>4. Look(th) => call[th].at = "look" /\ Goes(th, {"resume", "switch", "idle"})
    BY <1>1, GoGoes, LeavesGoes, ReturnGoes DEF Look, Goes, Places, Inside
  <1>5. Switch(th) => call[th].at = "switch" /\ Goes(th, {"activate"})
    BY <1>1, GoGoes, LeavesGoes, ReturnGoes DEF Switch, Goes, Places, Inside
  <1>6. Activate(th) => call[th].at = "activate" /\ Goes(th, {"touch", "idle"})
    BY <1>1, GoGoes, LeavesGoes, ReturnGoes DEF Activate, Goes, Places, Inside
  <1>7. Spawn(th) => call[th].at = "spawn" /\ Goes(th, {"wait"})
    BY <1>1, GoGoes, LeavesGoes, ReturnGoes DEF Spawn, Goes, Places, Inside
  <1>8. Touched(th) => call[th].at = "touched" /\ Goes(th, {"spawn"})
    BY <1>1, GoGoes, LeavesGoes, ReturnGoes DEF Touched, Goes, Places, Inside
  <1>9. Fails(th) => call[th].at = "wait" /\ Goes(th, {"idle"})
    BY <1>1, GoGoes, LeavesGoes, ReturnGoes DEF Fails, Goes, Places, Inside
  <1>10. Opens(th) => call[th].at = "wait" /\ Goes(th, {"finish", "idle"})
    BY <1>1, GoGoes, LeavesGoes, ReturnGoes DEF Opens, Goes, Places, Inside
  <1>11. Reuse(th) => call[th].at = "reuse" /\ Goes(th, {"finish", "begin", "look", "idle"})
    BY <1>1, GoGoes, LeavesGoes, ReturnGoes DEF Reuse, Goes, Places, Inside
  <1>12. FinishResume(th) => call[th].at = "finish" /\ Goes(th, {"idle"})
    BY <1>1, GoGoes, LeavesGoes, ReturnGoes DEF FinishResume, Goes, Places, Inside
  <1>13. BeginPause(th) => call[th].at = "pause" /\ Goes(th, {"paused", "idle"})
    BY <1>1, GoGoes, LeavesGoes, ReturnGoes DEF BeginPause, Goes, Places, Inside
  <1>14. FinishPause(th) => call[th].at = "paused" /\ Goes(th, {"idle"})
    BY <1>1, GoGoes, LeavesGoes, ReturnGoes DEF FinishPause, Goes, Places, Inside
  <1>15. Close(th) => call[th].at = "close" /\ Goes(th, {"release"})
    BY <1>1, GoGoes, LeavesGoes, ReturnGoes DEF Close, Goes, Places, Inside
  <1>16. Release(th) => call[th].at = "release" /\ Goes(th, {"load", "idle"})
    BY <1>1, GoGoes, LeavesGoes, ReturnGoes DEF Release, Goes, Places, Inside
  <1> QED
    BY <1>2, <1>3, <1>4, <1>5, <1>6, <1>7, <1>8, <1>9, <1>10, <1>11, <1>12, <1>13, <1>14, <1>15, <1>16

LEMMA EnterGoes ==
    ASSUME Base, NEW th \in Threads, Enter(th)
    PROVE  call[th].at = "lock" /\ Goes(th, {"begin", "resume", "close", "pause"})
  <1>1. call \in [Threads -> Call] /\ call[th].at = "lock"
    BY DEF Base, Types, Enter, At
  <1>2. call[th].kind \in {"open", "resume", "close", "pause", "delete"}
    BY <1>1, ManagerAssumption DEF Base, Callers, AllKinds
  <1>3. CASE call[th].kind = "open"
    <2>1. Go(th, "begin")
      BY <1>3 DEF Enter
    <2> QED
      BY <1>1, <2>1, GoGoes DEF Goes, Places, Inside
  <1>4. CASE call[th].kind = "delete"
    <2>1. Go(th, "close")
      BY <1>4 DEF Enter
    <2> QED
      BY <1>1, <2>1, GoGoes DEF Goes, Places, Inside
  <1>5. CASE call[th].kind \in {"resume", "close", "pause"}
    <2>1. Go(th, call[th].kind)
      BY <1>5 DEF Enter
    <2> QED
      BY <1>1, <1>5, <2>1, GoGoes DEF Goes, Places, Inside
  <1> QED
    BY <1>2, <1>3, <1>4, <1>5

\* The record of a call that reads the list.
LEMMA ReadGoes ==
    ASSUME call \in [Threads -> Call], listed \subseteq Projects, NEW th \in Threads,
           NEW there \in Places,
           call' = [call EXCEPT ![th].at = there, ![th].view = listed]
    PROVE  Alone(th) /\ call'[th].at = there /\ call'[th].m = call[th].m
           /\ call'[th].kind = call[th].kind /\ call'[th].p = call[th].p
           /\ call'[th].view = listed
  <1>1. call[th] \in Call
    OBVIOUS
  <1> DEFINE rec == [call[th] EXCEPT !.at = there, !.view = listed]
  <1>2. rec \in Call
    BY <1>1 DEF Call
  <1>3. call' = [call EXCEPT ![th] = rec]
    OBVIOUS
  <1>4. rec.at = there /\ rec.m = call[th].m /\ rec.kind = call[th].kind
        /\ rec.p = call[th].p /\ rec.view = listed
    BY <1>1 DEF Call
  <1> HIDE DEF rec
  <1> QED
    BY <1>2, <1>3, <1>4 DEF Alone

LEMMA TouchGoes ==
    ASSUME Base, NEW th \in Threads, Touch(th)
    PROVE  /\ call[th].at = "touch"
           /\ \/ call[th].p \notin listed /\ Return(th) /\ Goes(th, {"idle"})
              \/ /\ call[th].p \in listed
                 /\ Alone(th) /\ call'[th].at = "touched" /\ call'[th].m = call[th].m
                 /\ call'[th].kind = call[th].kind /\ call'[th].p = call[th].p
                 /\ call'[th].view = listed /\ lifecycle' = lifecycle /\ starting' = starting
  <1>1. call \in [Threads -> Call] /\ listed \subseteq Projects /\ call[th].at = "touch"
    BY DEF Base, Types, Touch, At
  <1>2. CASE call[th].p \notin listed
    BY <1>1, <1>2, ReturnGoes DEF Touch
  <1>3. CASE call[th].p \in listed
    BY <1>1, <1>3, ReadGoes DEF Touch, Places, Inside
  <1> QED
    BY <1>2, <1>3

LEMMA LoadGoes ==
    ASSUME Base, NEW th \in Threads, Load(th)
    PROVE  /\ call[th].at = "load"
           /\ \/ Alone(th) /\ call'[th] = Idle
              \/ /\ Alone(th) /\ call'[th].at = "save" /\ call'[th].m = call[th].m
                 /\ call'[th].kind = call[th].kind /\ call'[th].p = call[th].p
                 /\ call'[th].view = listed
                 /\ (call[th].p \in listed) = (call[th].kind = "delete")
  <1>1. call \in [Threads -> Call] /\ listed \subseteq Projects /\ call[th].at = "load"
    BY DEF Base, Types, Load, At
  <1>2. CASE (call[th].p \in listed) = (call[th].kind = "delete")
    BY <1>1, <1>2, ReadGoes DEF Load, Places
  <1>3. CASE (call[th].p \in listed) # (call[th].kind = "delete")
    <2>1. call' = [call EXCEPT ![th] = Idle]
      BY <1>3 DEF Load
    <2> QED
      BY <1>1, <2>1, IdleIsCall DEF Alone
  <1> QED
    BY <1>2, <1>3

LEMMA SaveGoes ==
    ASSUME Base, NEW th \in Threads, Save(th)
    PROVE  call[th].at = "save" /\ Alone(th) /\ call'[th] = Idle
  BY IdleIsCall DEF Base, Types, Save, At, Alone

LEMMA BeginResumeGoes ==
    ASSUME Base, NEW th \in Threads, BeginResume(th)
    PROVE  call[th].at = "resume" /\ Goes(th, {"reuse", "idle"})
  <1>1. call \in [Threads -> Call] /\ call[th].at = "resume" /\ call[th] \in Call
    BY DEF Base, Types, BeginResume, At
  <1>2. CASE Return(th)
    BY <1>1, <1>2, ReturnGoes DEF Goes
  <1>3. CASE ~Return(th)
    <2>1. PICK fresh \in BOOLEAN :
             call' = [call EXCEPT ![th].at = "reuse", ![th].resuming = TRUE,
                                  ![th].fresh = fresh]
      BY <1>3 DEF BeginResume
    <2> DEFINE rec == [call[th] EXCEPT !.at = "reuse", !.resuming = TRUE, !.fresh = fresh]
    <2>2. rec \in Call
      BY <1>1 DEF Call, Places, Inside
    <2>3. call' = [call EXCEPT ![th] = rec]
      BY <2>1
    <2>4. rec.at = "reuse" /\ rec.m = call[th].m /\ rec.kind = call[th].kind
          /\ rec.p = call[th].p /\ rec.view = call[th].view
      BY <1>1 DEF Call
    <2> HIDE DEF rec
    <2> QED
      BY <1>1, <2>2, <2>3, <2>4 DEF Alone, Goes
  <1> QED
    BY <1>2, <1>3

\* A request is a new call of a thread that had none.
LEMMA RequestGoes ==
    ASSUME Base, NEW th \in Threads, NEW m \in Managers, NEW kind \in AllKinds, NEW p \in Projects,
           Request(th, m, kind, p)
    PROVE  /\ call[th] = Idle /\ Alone(th) /\ call'[th].m = m /\ call'[th].kind = kind
           /\ call'[th].p = p
           /\ \/ kind \in {"open", "resume", "close", "pause", "delete"} /\ call'[th].at = "lock"
              \/ kind \in {"register", "delete"} /\ call'[th].at = "load"
  <1>1. call \in [Threads -> Call] /\ call[th] = Idle
    BY DEF Base, Types, Request
  <1>2. ASSUME NEW at \in {"lock", "load"},
               call' = [call EXCEPT ![th] = [Idle EXCEPT !.at = at, !.m = m, !.kind = kind,
                                                         !.p = p]]
        PROVE  /\ Alone(th) /\ call'[th].m = m /\ call'[th].kind = kind
               /\ call'[th].p = p /\ call'[th].at = at
    <2> DEFINE rec == [Idle EXCEPT !.at = at, !.m = m, !.kind = kind, !.p = p]
    <2>1. rec \in Call
      BY IdleIsCall DEF Call, Places
    <2>2. rec.at = at /\ rec.m = m /\ rec.kind = kind /\ rec.p = p
      BY DEF Idle
    <2>3. call' = [call EXCEPT ![th] = rec]
      BY <1>2
    <2> HIDE DEF rec
    <2> QED
      BY <1>1, <2>1, <2>2, <2>3 DEF Alone
  <1>3. \/ /\ kind \in {"open", "resume", "close", "pause", "delete"}
           /\ call' = [call EXCEPT ![th] = [Idle EXCEPT !.at = "lock", !.m = m, !.kind = kind,
                                                        !.p = p]]
        \/ /\ kind \in {"register", "delete"}
           /\ call' = [call EXCEPT ![th] = [Idle EXCEPT !.at = "load", !.m = m, !.kind = kind,
                                                        !.p = p]]
    BY DEF Request
  <1> QED
    BY <1>1, <1>2, <1>3

\* The calls of a life end with it.
LEMMA EndsGoes ==
    ASSUME Base, NEW m \in Managers, Ends(m)
    PROVE  /\ call' \in [Threads -> Call]
           /\ \A th \in Threads : IF call[th].m = m THEN call'[th] = Idle
                                                    ELSE call'[th] = call[th]
  BY IdleIsCall DEF Base, Types, Ends

(***************************************************************************)
(* The types, the callers and the handles are kept.                        *)
(***************************************************************************)
LEMMA BaseInitially == Init => Base
  <1> SUFFICES ASSUME Init PROVE Base
    OBVIOUS
  <1>1. None \notin Managers \cup Workers \cup Projects
    BY ManagerAssumption
  <1>2. listed \subseteq Projects
    BY ManagerAssumption DEF Init
  <1>3. Types
    BY <1>2, IdleIsCall DEF Init, Types, Worker, Closing
  <1>4. Callers
    BY DEF Init, Callers, Idle
  <1>5. Held
    BY DEF Init, Held
  <1> QED
    BY <1>3, <1>4, <1>5 DEF Base

\* The calls of living managers stay such while no manager dies.
LEMMA CallersFollow ==
    ASSUME Base, NEW th \in Threads, call[th].at # "idle",
           Alone(th),
           \/ /\ call'[th].m = call[th].m /\ call'[th].kind = call[th].kind
              /\ call'[th].p = call[th].p /\ call'[th].at # "idle"
              /\ call[th].kind = "register" => call'[th].at \in {"load", "save"}
              /\ call'[th].at \in {"load", "save"} => call[th].kind \in {"register", "delete"}
           \/ call'[th] = Idle,
           phase' = phase
    PROVE  Callers'
  <1> SUFFICES ASSUME NEW o \in Threads
               PROVE  IF call'[o].at = "idle" THEN call'[o] = Idle
                      ELSE /\ call'[o].m \in Managers /\ call'[o].p \in Projects
                           /\ call'[o].kind \in Kinds
                           /\ phase'[call'[o].m] \in Living
                           /\ call'[o].kind = "register" => call'[o].at \in {"load", "save"}
                           /\ call'[o].at \in {"load", "save"} =>
                                call'[o].kind \in {"register", "delete"}
    BY DEF Callers
  <1>1. CASE o = th
    BY <1>1 DEF Base, Callers, Idle
  <1>2. CASE o # th
    BY <1>2 DEF Base, Callers, Alone
  <1> QED
    BY <1>1, <1>2

LEMMA StepCallers == ASSUME Base, NEW th \in Threads, Step(th) PROVE Callers' /\ call' \in [Threads -> Call]
  <1>1. phase' = phase
    BY DEF Step, Enter, Begin, Clear, Look, Switch, Activate, Touch, Touched, Spawn, Fails, Opens,
           BeginResume, Reuse, FinishResume, BeginPause, FinishPause, Close, Release, Load, Save
  <1>2. ASSUME NEW from \in Inside, NEW places \in SUBSET (Inside \cup {"idle"}),
               call[th].at = from, Goes(th, places)
        PROVE  Callers' /\ call' \in [Threads -> Call]
    <2>1. call[th].kind # "register" /\ call[th].at # "idle"
      BY <1>2 DEF Base, Callers, Inside
    <2> QED
      BY <1>1, <1>2, <2>1, CallersFollow DEF Goes, Alone, Inside, Idle
  <1>3. CASE Enter(th)
    <2>1. call[th].kind # "register"
      BY <1>3, EnterGoes DEF Base, Callers
    <2> QED
      BY <1>1, <1>3, <2>1, EnterGoes, CallersFollow DEF Goes, Alone, Idle
  <1>4. CASE Touch(th)
    <2>1. call[th].kind # "register"
      BY <1>4, TouchGoes DEF Base, Callers
    <2> QED
      BY <1>1, <1>4, <2>1, TouchGoes, CallersFollow DEF Goes, Alone, Idle
  <1>5. CASE Load(th)
    <2>1. call[th].kind \in {"register", "delete"}
      BY <1>5, LoadGoes DEF Base, Callers
    <2> QED
      BY <1>1, <1>5, <2>1, LoadGoes, CallersFollow DEF Alone, Idle
  <1>6. CASE Save(th)
    BY <1>1, <1>6, SaveGoes, CallersFollow DEF Alone
  <1>7. CASE Release(th)
    <2>1. call[th].kind # "register" /\ call[th].at = "release" /\ Goes(th, {"load", "idle"})
      BY <1>7, StepGoes DEF Base, Callers
    <2>2. call[th].kind = "delete" \/ call'[th] = Idle
      BY <1>7, ReturnGoes, <2>1 DEF Release, Base, Types, Goes, Idle
    <2> QED
      BY <1>1, <2>1, <2>2, CallersFollow DEF Goes, Alone, Idle
  <1>8. CASE BeginResume(th)
    BY <1>2, <1>8, BeginResumeGoes DEF Inside
  <1>9. CASE \/ Begin(th) \/ Clear(th) \/ Look(th) \/ Switch(th) \/ Activate(th)
             \/ Touched(th) \/ Spawn(th) \/ Fails(th) \/ Opens(th)
             \/ Reuse(th) \/ FinishResume(th) \/ BeginPause(th) \/ FinishPause(th) \/ Close(th)
    <2>1. PICK from \in Inside, places \in SUBSET (Inside \cup {"idle"}) :
             call[th].at = from /\ Goes(th, places)
      BY <1>9, StepGoes DEF Inside
    <2> QED
      BY <1>2, <2>1
  <1> QED
    BY <1>3, <1>4, <1>5, <1>6, <1>7, <1>8, <1>9 DEF Step

\* Where a call of the program text stands, it is of a living manager.
LEMMA CallerFacts ==
    ASSUME Base, NEW th \in Threads, call[th].at # "idle"
    PROVE  /\ call[th].m \in Managers /\ call[th].p \in Projects /\ phase[call[th].m] \in Living
           /\ call[th].view \subseteq Projects /\ call[th] \in Call
           /\ handle[call[th].m] \in Workers \cup {None}
           /\ Stopped(call[th].m) \in [Workers -> Worker]
  BY StoppedWorkers DEF Base, Types, Callers, Call

LEMMA StepTypes == ASSUME Base, NEW th \in Threads, Step(th) PROVE Types'
  <1>1. call' \in [Threads -> Call]
    BY StepCallers
  <1>2. Types
    BY DEF Base
  <1>3. ASSUME call[th].at # "idle", NEW there \in Places, Leaves(th, there)
        PROVE  /\ lifecycle' \in [Managers -> Threads \cup {None}]
               /\ starting' \in [Managers -> Projects \cup {None}]
    BY <1>2, <1>3, CallerFacts, LeavesMemory
  <1>4. CASE Enter(th)
    BY <1>1, <1>2, <1>3, <1>4, CallerFacts DEF Enter, At, Types, files, boards, memory, ghosts, Return, Places, Lock
  <1>5. CASE Begin(th)
    BY <1>1, <1>2, <1>3, <1>5, CallerFacts DEF Begin, At, Types, files, boards, memory, ghosts, Return, Places, Lock
  <1>6. CASE Clear(th)
    BY <1>1, <1>2, <1>3, <1>6, CallerFacts DEF Clear, At, Types, files, boards, memory, ghosts, Return, Places, Lock
  <1>7. CASE Look(th)
    BY <1>1, <1>2, <1>3, <1>7, CallerFacts DEF Look, At, Types, files, boards, memory, ghosts, Reconciled, Return, Places, Lock
  <1>8. CASE Switch(th)
    BY <1>1, <1>2, <1>3, <1>8, CallerFacts DEF Switch, At, Types, files, boards, memory, ghosts, Return, Places, Lock
  <1>9. CASE Activate(th)
    <2>1. call[th].at # "idle" /\ "idle" \in Places
      BY <1>9 DEF Activate, At, Places
    <2>2. /\ lifecycle' \in [Managers -> Threads \cup {None}]
          /\ starting' \in [Managers -> Projects \cup {None}]
      BY <1>2, <1>3, <1>9, <2>1 DEF Activate, Return, Types
    <2>3. lock' = lock
          \/ lock' = [manager |-> call[th].m, project |-> call[th].p, held |-> FALSE]
      BY <1>9 DEF Activate
    <2>4. [manager |-> call[th].m, project |-> call[th].p, held |-> FALSE] \in Lock
      BY <2>1, CallerFacts DEF Lock
    <2>5. lock = None \/ lock \in Lock
      BY <1>2 DEF Types
    <2>6. lock' = None \/ lock' \in Lock
      BY <2>3, <2>4, <2>5
    <2> QED
      BY <1>1, <1>2, <1>9, <2>2, <2>6 DEF Activate, Types, boards, ghosts
  <1>10. CASE Touch(th)
    BY <1>1, <1>2, <1>3, <1>10, CallerFacts DEF Touch, At, Types, files, boards, memory, ghosts, Return, Places, Lock
  <1>11. CASE Touched(th)
    BY <1>1, <1>2, <1>3, <1>11, CallerFacts DEF Touched, At, Types, files, boards, memory, ghosts, Call, Return, Places, Lock
  <1>12. CASE Spawn(th)
    <2>1. call[th].at # "idle"
      BY <1>12 DEF Spawn, At
    <2>2. PICK w \in Workers :
             /\ worker' = [Stopped(call[th].m) EXCEPT ![w] =
                    [project |-> call[th].p, manager |-> call[th].m, state |-> "starting"]]
             /\ handle' = [handle EXCEPT ![call[th].m] = w]
      BY <1>12 DEF Spawn
    <2>3. worker' \in [Workers -> Worker]
      BY <2>1, <2>2, CallerFacts DEF Worker
    <2> QED
      BY <1>1, <1>2, <1>12, <2>2, <2>3 DEF Spawn, Types, files, boards, ghosts
  <1>13. CASE Fails(th)
    BY <1>1, <1>2, <1>3, <1>13, CallerFacts DEF Fails, At, Types, files, boards, memory, ghosts, Released, Return, Places, Lock
  <1>14. CASE Opens(th)
    BY <1>1, <1>2, <1>3, <1>14, CallerFacts DEF Opens, At, Types, files, boards, memory, ghosts, Return, Places, Lock
  <1>15. CASE BeginResume(th)
    BY <1>1, <1>2, <1>3, <1>15, CallerFacts DEF BeginResume, At, Types, files, boards, memory, ghosts, Return, Places, Lock
  <1>16. CASE Reuse(th)
    BY <1>1, <1>2, <1>3, <1>16, CallerFacts DEF Reuse, At, Types, files, boards, memory, ghosts, Return, Places, Lock
  <1>17. CASE FinishResume(th)
    BY <1>1, <1>2, <1>3, <1>17, CallerFacts DEF FinishResume, At, Types, files, boards, memory, ghosts, Return, Places, Lock
  <1>18. CASE BeginPause(th)
    BY <1>1, <1>2, <1>3, <1>18, CallerFacts DEF BeginPause, At, Types, files, boards, memory, ghosts, Return, Places, Lock
  <1>19. CASE FinishPause(th)
    BY <1>1, <1>2, <1>3, <1>19, CallerFacts DEF FinishPause, At, Types, files, boards, memory, ghosts, Return, Places, Lock
  <1>20. CASE Close(th)
    BY <1>1, <1>2, <1>3, <1>20, CallerFacts DEF Close, At, Types, files, boards, memory, ghosts, Return, Places, Lock
  <1>21. CASE Release(th)
    BY <1>1, <1>2, <1>3, <1>21, CallerFacts DEF Release, At, Types, files, boards, memory, ghosts, Released, Return, Places, Lock
  <1>22. CASE Load(th)
    BY <1>1, <1>2, <1>3, <1>22, CallerFacts DEF Load, At, Types, files, boards, memory, ghosts, Return, Places, Lock
  <1>23. CASE Save(th)
    BY <1>1, <1>2, <1>3, <1>23, CallerFacts DEF Save, At, Types, files, boards, memory, ghosts, Call, Return, Places, Lock
  <1> QED
    BY <1>4, <1>5, <1>6, <1>7, <1>8, <1>9, <1>10, <1>11, <1>12, <1>13, <1>14, <1>15, <1>16, <1>17, <1>18, <1>19, <1>20, <1>21, <1>22, <1>23 DEF Step

\* A call starts, stops and forgets workers; none is as if it had never started.
LEMMA StepHeld == ASSUME Base, NEW th \in Threads, Step(th) PROVE Held'
  <1> USE ManagerAssumption
  <1>1. Types /\ Held
    BY DEF Base
  <1>2. ASSUME worker' = worker, NEW m \in Managers,
               handle' = handle \/ handle' = [handle EXCEPT ![m] = None]
        PROVE  Held'
    BY <1>1, <1>2 DEF Types, Held
  <1>3. ASSUME NEW m \in Managers, worker' = Stopped(m), handle' = [handle EXCEPT ![m] = None]
        PROVE  Held'
    <2>1. \A w \in Workers : worker[w] # NoWorker => worker'[w] # NoWorker
      BY <1>1, <1>3, StoppedWorkers
    <2> QED
      BY <1>1, <1>3, <2>1 DEF Types, Held
  <1>4. call[th].at # "idle" /\ call[th].m \in Managers
    BY CallerFacts DEF Step, Enter, Begin, Clear, Look, Switch, Activate, Touch, Touched, Spawn, Fails,
           Opens, BeginResume, Reuse, FinishResume, BeginPause, FinishPause, Close, Release, Load,
           Save, At
  <1>5. CASE Spawn(th)
    <2>1. PICK w \in Workers :
             /\ worker' = [Stopped(call[th].m) EXCEPT ![w] =
                    [project |-> call[th].p, manager |-> call[th].m, state |-> "starting"]]
             /\ handle' = [handle EXCEPT ![call[th].m] = w]
      BY <1>5 DEF Spawn
    <2> DEFINE new == [project |-> call[th].p, manager |-> call[th].m, state |-> "starting"]
    <2>2. new # NoWorker
      BY DEF NoWorker
    <2> HIDE DEF new
    <2>3. worker' = [Stopped(call[th].m) EXCEPT ![w] = new]
      BY <2>1 DEF new
    <2>4. Stopped(call[th].m) \in [Workers -> Worker]
      BY <1>1, <1>4, StoppedWorkers
    <2>5. \A v \in Workers : worker[v] # NoWorker \/ v = w => worker'[v] # NoWorker
      <3> SUFFICES ASSUME NEW v \in Workers, worker[v] # NoWorker \/ v = w
                   PROVE  worker'[v] # NoWorker
        OBVIOUS
      <3>1. CASE v = w
        BY <2>2, <2>3, <2>4, <3>1
      <3>2. CASE v # w
        BY <1>1, <1>4, <2>3, <2>4, <3>2, StoppedWorkers
      <3> QED
        BY <3>1, <3>2
    <2> QED
      BY <1>1, <1>4, <2>1, <2>5 DEF Types, Held
  <1>6. CASE Fails(th)
    BY <1>3, <1>4, <1>6 DEF Fails
  <1>7. CASE Switch(th) \/ Close(th)
    BY <1>2, <1>3, <1>4, <1>7 DEF Switch, Close
  <1>8. CASE Look(th)
    BY <1>2, <1>4, <1>8 DEF Look, Reconciled
  <1>9. CASE Reuse(th)
    <2>1. handle' = handle \/ handle' = [handle EXCEPT ![call[th].m] = None]
      BY <1>1, <1>4, <1>9 DEF Reuse, Types
    <2> QED
      BY <1>2, <1>4, <1>9, <2>1 DEF Reuse
  <1>10. CASE \/ Enter(th) \/ Begin(th) \/ Clear(th) \/ Activate(th) \/ Touch(th) \/ Touched(th)
              \/ Opens(th) \/ BeginResume(th) \/ FinishResume(th) \/ BeginPause(th)
              \/ FinishPause(th) \/ Release(th) \/ Load(th) \/ Save(th)
    BY <1>2, <1>4, <1>10 DEF Enter, Begin, Clear, Activate, Touch, Touched, Opens, BeginResume,
           FinishResume, BeginPause, FinishPause, Release, Load, Save, memory
  <1> QED
    BY <1>5, <1>6, <1>7, <1>8, <1>9, <1>10 DEF Step

LEMMA RequestBase ==
    ASSUME Base, NEW th \in Threads, NEW m \in Managers, NEW kind \in AllKinds, NEW p \in Projects,
           Request(th, m, kind, p)
    PROVE  Base'
  <1>1. Types /\ Callers /\ Held
    BY DEF Base
  <1>2. call' \in [Threads -> Call] /\ kind \in Kinds /\ phase[m] = "serving" /\ phase' = phase
    BY RequestGoes DEF Alone, Request
  <1>3. Types'
    BY <1>1, <1>2 DEF Request, Queue, Types, files, boards
  <1>4. Callers'
    <2> SUFFICES ASSUME NEW o \in Threads
                 PROVE  IF call'[o].at = "idle" THEN call'[o] = Idle
                        ELSE /\ call'[o].m \in Managers /\ call'[o].p \in Projects
                             /\ call'[o].kind \in Kinds
                             /\ phase'[call'[o].m] \in Living
                             /\ call'[o].kind = "register" => call'[o].at \in {"load", "save"}
                             /\ call'[o].at \in {"load", "save"} =>
                                  call'[o].kind \in {"register", "delete"}
      BY DEF Callers
    <2>1. CASE o = th
      BY <1>2, <2>1, RequestGoes DEF Living
    <2>2. CASE o # th
      BY <1>1, <1>2, <2>2, RequestGoes DEF Callers, Alone
    <2> QED
      BY <2>1, <2>2
  <1>5. Held'
    BY <1>1 DEF Request, Held
  <1> QED
    BY <1>3, <1>4, <1>5 DEF Base

\* An event is counted.
LEMMA HappensTypes ==
    ASSUME spent \in [Events -> Nat], NEW e \in Events, Happens(e)
    PROVE  spent' \in [Events -> Nat]
  <1>1. spent' = [spent EXCEPT ![e] = @ + 1]
    BY DEF Happens
  <1> QED
    BY <1>1

\* A step of a manager outside the calls.
Own(m) == Reconcile(m) \/ Glance(m) \/ AfterGlance(m) \/ Start(m) \/ Terminate(m) \/ Shutdown(m)
          \/ Kill(m)

LEMMA OwnTypes == ASSUME Base, NEW m \in Managers, Own(m) PROVE Types'
  <1> USE ManagerAssumption
  <1>1. Types /\ Held /\ Stopped(m) \in [Workers -> Worker]
    BY StoppedWorkers DEF Base
  <1>2. CASE Reconcile(m)
    BY <1>1, <1>2 DEF Reconcile, Reconciled, Types, boards, ghosts
  <1>3. CASE Glance(m)
    BY <1>1, <1>3, HappensTypes DEF Glance, Events, Types, files, boards, ghosts
  <1>4. CASE AfterGlance(m)
    BY <1>1, <1>4 DEF AfterGlance, Types, boards, ghosts
  <1>5. CASE Start(m)
    <2>1. lock' = None \/ lock' \in Lock
      <3>1. CASE lock' = lock
        BY <1>1, <3>1 DEF Types
      <3>2. CASE lock' # lock
        <4>1. lock # None /\ lock' = [lock EXCEPT !.manager = m, !.held = FALSE]
          BY <1>5, <3>2 DEF Start
        <4> QED
          BY <1>1, <4>1 DEF Types, Lock
      <3> QED
        BY <3>1, <3>2
    <2>2. inherited' \in [Managers -> Projects \cup {None}]
      BY <1>1, <1>5 DEF Start, Types, Lock
    <2> QED
      BY <1>1, <1>5, <2>1, <2>2 DEF Start, Types, boards, memory
  <1>6. CASE Terminate(m)
    <2> DEFINE p == IF handle[m] # None THEN worker[handle[m]].project
                    ELSE IF Active /\ lock.manager = m THEN lock.project ELSE None
    <2> DEFINE paused == p # None /\ p \in listed /\ board[p] = "paused"
    <2>1. /\ closing' = [closing EXCEPT ![m] = [project |-> p, keep |-> paused]]
          /\ standing' = IF paused /\ Unlocked(p) /\ \A th \in Threads : call[th].m # m
                         THEN p ELSE None
      BY <1>6, Zenon DEF Terminate
    <2>2. p \in Projects \cup {None}
      <3>1. CASE handle[m] # None
        <4>1. handle[m] \in Workers
          BY <1>1, <3>1 DEF Types
        <4>2. worker[handle[m]] \in Worker
          BY <1>1, <4>1 DEF Types
        <4>3. worker[handle[m]].project \in Projects \cup {None}
          BY <4>2 DEF Worker, NoWorker
        <4> QED
          BY <3>1, <4>3
      <3>2. CASE handle[m] = None
        BY <1>1, <3>2 DEF Types, Lock, Active
      <3> QED
        BY <3>1, <3>2
    <2>3. paused \in BOOLEAN /\ (paused => p # None)
      OBVIOUS
    <2> HIDE DEF p, paused
    <2>4. [project |-> p, keep |-> paused] \in Closing
      BY <2>2, <2>3 DEF Closing
    <2>5. closing' \in [Managers -> Closing] /\ standing' \in Projects \cup {None}
      BY <1>1, <2>1, <2>2, <2>4 DEF Types
    <2>6. spent' \in [Events -> Nat]
      BY <1>1, <1>6, HappensTypes DEF Terminate, Types, Events
    <2> QED
      BY <1>1, <1>6, <2>5, <2>6 DEF Terminate, Types, files, boards
  <1>7. ASSUME Ends(m)
        PROVE  /\ phase' \in [Managers -> {"new", "serving", "stopping", "dead"}]
               /\ handle' \in [Managers -> Workers \cup {None}]
               /\ lifecycle' \in [Managers -> Threads \cup {None}]
               /\ starting' \in [Managers -> Projects \cup {None}]
               /\ cancel' \in [Managers -> BOOLEAN] /\ glanced' \in [Managers -> BOOLEAN]
               /\ closing' \in [Managers -> Closing] /\ call' \in [Threads -> Call]
    BY <1>1, <1>7, EndsGoes DEF Ends, Types, Closing
  <1>8. CASE Shutdown(m)
    <2>1. lock' = lock \/ lock' = None \/ (lock # None /\ lock' = [lock EXCEPT !.held = TRUE])
      BY <1>8 DEF Shutdown, Unlocked
    <2>2. ASSUME lock # None
          PROVE  [lock EXCEPT !.held = TRUE] \in Lock
      BY <1>1, <2>2 DEF Types, Lock
    <2>3. lock' = None \/ lock' \in Lock
      BY <1>1, <2>1, <2>2 DEF Types
    <2> QED
      BY <1>1, <1>7, <1>8, <2>3 DEF Shutdown, Types, boards, ghosts
  <1>9. CASE Kill(m)
    <2>1. spent' \in [Events -> Nat] /\ standing' = None
      BY <1>1, <1>9, HappensTypes DEF Kill, Types, Events
    <2> QED
      BY <1>1, <1>7, <1>9, <2>1 DEF Kill, Types, files, boards
  <1> QED
    BY <1>2, <1>3, <1>4, <1>5, <1>6, <1>8, <1>9 DEF Own

LEMMA OwnBase == ASSUME Base, NEW m \in Managers, Own(m) PROVE Base'
  <1> USE ManagerAssumption
  <1>1. Types /\ Held /\ Callers /\ Types'
    BY OwnTypes DEF Base
  <1>2. Callers'
    <2>1. CASE Ends(m)
      <3> SUFFICES ASSUME NEW o \in Threads
                   PROVE  IF call'[o].at = "idle" THEN call'[o] = Idle
                          ELSE /\ call'[o].m \in Managers /\ call'[o].p \in Projects
                               /\ call'[o].kind \in Kinds
                               /\ phase'[call'[o].m] \in Living
                               /\ call'[o].kind = "register" => call'[o].at \in {"load", "save"}
                               /\ call'[o].at \in {"load", "save"} =>
                                    call'[o].kind \in {"register", "delete"}
        BY DEF Callers
      <3>1. CASE call[o].m = m
        <4>1. call'[o] = Idle
          BY <2>1, <3>1, EndsGoes
        <4> QED
          BY <4>1 DEF Idle
      <3>2. CASE call[o].m # m
        <4>1. call'[o] = call[o]
          BY <2>1, <3>2, EndsGoes
        <4>2. call[o].m \in Managers => phase'[call[o].m] = phase[call[o].m]
          BY <1>1, <2>1, <3>2 DEF Ends, Types
        <4> QED
          BY <1>1, <4>1, <4>2 DEF Callers
      <3> QED
        BY <3>1, <3>2
    <2>2. CASE ~Ends(m)
      <3>1. call' = call
        BY <2>2 DEF Own, Reconcile, Glance, AfterGlance, Start, Terminate, Shutdown, Kill
      <3>2. \A n \in Managers : phase[n] \in Living => phase'[n] \in Living
        BY <1>1, <2>2 DEF Own, Reconcile, Glance, AfterGlance, Start, Terminate, Shutdown, Kill,
               Types, Living
      <3> QED
        BY <1>1, <3>1, <3>2 DEF Callers
    <2> QED
      BY <2>1, <2>2
  <1>3. Held'
    <2>1. \A w \in Workers : worker[w] # NoWorker => worker'[w] # NoWorker
      <3>1. CASE Terminate(m)
        BY <1>1, <3>1, StoppedWorkers DEF Terminate
      <3>2. CASE ~Terminate(m)
        BY <3>2 DEF Own, Reconcile, Glance, AfterGlance, Start, Shutdown, Kill
      <3> QED
        BY <3>1, <3>2
    <2>2. handle' = handle \/ handle' = [handle EXCEPT ![m] = None]
      BY DEF Own, Reconcile, Reconciled, Glance, AfterGlance, Start, Terminate, Shutdown, Kill,
             Ends, memory
    <2>3. ASSUME NEW n \in Managers, handle'[n] # None
          PROVE  worker'[handle'[n]] # NoWorker
      <3>1. handle'[n] = handle[n] /\ handle[n] \in Workers
        BY <1>1, <2>2, <2>3 DEF Types
      <3> QED
        BY <1>1, <2>1, <2>3, <3>1 DEF Held
    <2> QED
      BY <2>3 DEF Held
  <1> QED
    BY <1>1, <1>2, <1>3 DEF Base

\* What Bind and Dies do: a worker moves on.
LEMMA WorkerMoves ==
    ASSUME Base, NEW w \in Workers, Bind(w) \/ Dies(w)
    PROVE  /\ Running(w) /\ worker' \in [Workers -> Worker]
           /\ \A v \in Workers : /\ v # w => worker'[v] = worker[v]
                                 /\ worker'[v].project = worker[v].project
                                 /\ worker'[v].manager = worker[v].manager
                                 /\ worker[v] # NoWorker => worker'[v] # NoWorker
  <1> USE ManagerAssumption
  <1>1. worker \in [Workers -> Worker]
    BY DEF Base, Types
  <1>2. worker[w].state \in {"starting", "ready"}
    BY DEF Bind, Dies, Running
  <1>3. worker[w] \in [project : Projects, manager : Managers,
                       state : {"starting", "ready", "dead"}]
    BY <1>1, <1>2 DEF Worker, NoWorker
  <1>4. PICK state \in {"dead", "ready"} : worker' = [worker EXCEPT ![w].state = state]
    BY DEF Bind, Dies
  <1> DEFINE new == [worker[w] EXCEPT !.state = state]
  <1>5. /\ new \in Worker /\ new.project = worker[w].project /\ new.manager = worker[w].manager
        /\ new # NoWorker
    BY <1>3 DEF Worker, NoWorker
  <1>6. worker' = [worker EXCEPT ![w] = new]
    BY <1>4
  <1> HIDE DEF new
  <1>7. worker'[w] = new /\ \A v \in Workers : v # w => worker'[v] = worker[v]
    BY <1>1, <1>6
  <1> QED
    BY <1>1, <1>2, <1>5, <1>6, <1>7 DEF Running

LEMMA WorkerBase == ASSUME Base, NEW w \in Workers, Bind(w) \/ Dies(w) PROVE Base'
  <1>1. Types /\ Held /\ Callers
    BY DEF Base
  <1>2. Types'
    <2>1. spent' \in [Events -> Nat]
      BY <1>1, HappensTypes DEF Bind, Dies, Types, Events
    <2> QED
      BY <1>1, <2>1, WorkerMoves DEF Bind, Dies, Types, files, boards, memory, ghosts
  <1>3. Callers' /\ Held'
    BY <1>1, WorkerMoves DEF Bind, Dies, Callers, Held, Types, memory
  <1> QED
    BY <1>2, <1>3 DEF Base

LEMMA BaseStep == ASSUME Base, [Next]_vars PROVE Base'
  <1>1. CASE UNCHANGED vars
    BY <1>1 DEF Base, Types, Callers, Held, vars, files, boards, memory, ghosts
  <1>2. ASSUME NEW th \in Threads, Step(th)
        PROVE  Base'
    BY <1>2, StepTypes, StepCallers, StepHeld DEF Base
  <1>3. ASSUME NEW th \in Threads, NEW m \in Managers, NEW kind \in AllKinds, NEW p \in Projects,
               Request(th, m, kind, p)
        PROVE  Base'
    BY <1>3, RequestBase
  <1>4. ASSUME NEW m \in Managers, Own(m)
        PROVE  Base'
    BY <1>4, OwnBase
  <1>5. ASSUME NEW w \in Workers, Bind(w) \/ Dies(w)
        PROVE  Base'
    BY <1>5, WorkerBase
  <1> QED
    BY <1>1, <1>2, <1>3, <1>4, <1>5 DEF Next, Own

LEMMA BaseHolds == Spec => []Base
  BY BaseInitially, BaseStep, PTL DEF Spec

LEMMA RunningWorker ==
    ASSUME Types, NEW w \in Workers, Running(w)
    PROVE  /\ worker[w] # NoWorker /\ worker[w].manager \in Managers
           /\ worker[w].project \in Projects
  <1>1. worker[w] \in Worker /\ worker[w].state \in {"starting", "ready"}
    BY DEF Types, Running
  <1> QED
    BY <1>1 DEF Worker, NoWorker

(***************************************************************************)
(* No orphan.                                                              *)
(***************************************************************************)
Orphans ==
    /\ \A w \in Workers : Running(w) => phase[worker[w].manager] # "new"
    /\ \A m \in Managers : glanced[m] => spent["preempt"] # 0
    /\ \A m \in Managers : phase[m] \notin Living => handle[m] = None
    /\ NoOrphan

\* A life takes the handle away of a worker that stopped or that it stops.
LEMMA DropKeepsOrphans ==
    ASSUME Base, Base', Orphans, NEW m \in Managers,
           handle' = [handle EXCEPT ![m] = None],
           \/ worker' = Stopped(m)
           \/ worker' = worker /\ ~Running(handle[m])
           \/ worker' = worker /\ spent["preempt"] # 0,
           glanced' = glanced \/ glanced' = [glanced EXCEPT ![m] = FALSE],
           spent' = spent \/ (spent'["preempt"] = spent["preempt"]),
           phase' = phase \/ phase' = [phase EXCEPT ![m] = "stopping"],
           phase[m] \in Living
    PROVE  Orphans'
  <1> USE ManagerAssumption
  <1>1. Types /\ Held /\ Types' /\ Held'
    BY DEF Base
  <1>2. ASSUME NEW w \in Workers, Running(w)'
        PROVE  /\ Running(w) /\ worker'[w].manager = worker[w].manager
               /\ worker' = Stopped(m) => w # handle[m]
    BY <1>1, <1>2, StoppedWorkers DEF Running
  <1>3. ASSUME NEW w \in Workers, Running(w)
        PROVE  worker[w].manager \in Managers
    BY <1>1, <1>3, RunningWorker
  <1>4. \A n \in Managers : /\ phase'[n] = "new" => phase[n] = "new"
                            /\ phase'[n] \in Living => phase[n] \in Living
                            /\ phase'[n] \notin Living => phase[n] \notin Living
                            /\ handle'[n] = IF n = m THEN None ELSE handle[n]
                            /\ glanced'[n] => glanced[n]
    BY <1>1 DEF Types, Living
  <1>5. ASSUME NEW w \in Workers, Running(w)'
        PROVE  phase'[worker'[w].manager] # "new"
    BY <1>2, <1>3, <1>4, <1>5 DEF Orphans
  <1>6. ASSUME NEW n \in Managers, glanced'[n]
        PROVE  spent'["preempt"] # 0
    BY <1>4, <1>6 DEF Orphans
  <1>7. ASSUME NEW n \in Managers, phase'[n] \notin Living
        PROVE  handle'[n] = None
    BY <1>4, <1>7 DEF Orphans
  <1>8. ASSUME spent'["preempt"] = 0, NEW w \in Workers, Running(w)',
               phase'[worker'[w].manager] \in Living
        PROVE  handle'[worker'[w].manager] = w
    <2>1. Running(w) /\ worker'[w].manager = worker[w].manager
          /\ worker[w].manager \in Managers
      BY <1>2, <1>3, <1>8
    <2>2. handle[worker[w].manager] = w
      BY <1>4, <1>8, <2>1 DEF Orphans, NoOrphan, Lives, Living
    <2>3. worker[w].manager # m
      BY <1>2, <1>8, <2>1, <2>2
    <2> QED
      BY <1>4, <2>1, <2>2, <2>3
  <1> QED
    BY <1>5, <1>6, <1>7, <1>8 DEF Orphans, NoOrphan, Lives, Living

\* A step that leaves the handles and starts no worker.
LEMMA FrameKeepsOrphans ==
    ASSUME Base, Base', Orphans, handle' = handle, spent' = spent \/ spent'["preempt"] = spent["preempt"],
           glanced' = glanced, phase' = phase,
           \A w \in Workers : Running(w)' => Running(w) /\ worker'[w].manager = worker[w].manager
    PROVE  Orphans'
  BY DEF Orphans, NoOrphan, Lives

LEMMA StepOrphans == ASSUME Base, Base', Orphans, NEW th \in Threads, Step(th) PROVE Orphans'
  <1> USE ManagerAssumption
  <1>1. Types /\ Held
    BY DEF Base
  <1>2. call[th].at # "idle" /\ call[th].m \in Managers /\ phase[call[th].m] \in Living
    BY CallerFacts DEF Step, Enter, Begin, Clear, Look, Switch, Activate, Touch, Touched, Spawn, Fails,
           Opens, BeginResume, Reuse, FinishResume, BeginPause, FinishPause, Close, Release, Load,
           Save, At
  <1>3. glanced' = glanced /\ spent' = spent /\ phase' = phase
    BY DEF Step, Enter, Begin, Clear, Look, Switch, Activate, Touch, Touched, Spawn, Fails,
           Opens, BeginResume, Reuse, FinishResume, BeginPause, FinishPause, Close, Release, Load,
           Save, memory
  <1>4. ASSUME worker' = worker, handle' = handle
        PROVE  Orphans'
    BY <1>3, <1>4, FrameKeepsOrphans DEF Running
  <1>5. ASSUME handle' = [handle EXCEPT ![call[th].m] = None],
               worker' = Stopped(call[th].m)
               \/ (worker' = worker /\ ~Running(handle[call[th].m]))
        PROVE  Orphans'
    BY <1>2, <1>3, <1>5, DropKeepsOrphans
  <1>6. CASE Spawn(th)
    <2> DEFINE m == call[th].m
    <2> DEFINE new == [project |-> call[th].p, manager |-> m, state |-> "starting"]
    <2>1. PICK w \in Workers :
             /\ worker[w] = NoWorker
             /\ worker' = [Stopped(m) EXCEPT ![w] = new]
             /\ handle' = [handle EXCEPT ![m] = w]
      BY <1>6 DEF Spawn
    <2>2. new.manager = m /\ m \in Managers /\ phase[m] \in Living /\ phase[m] # "new"
      BY <1>2 DEF Living
    <2> HIDE DEF m, new
    <2>3. /\ worker'[w] = new
          /\ \A v \in Workers : v # w => worker'[v] = Stopped(m)[v]
      BY <1>1, <2>1, <2>2, StoppedWorkers
    <2>4. ASSUME NEW v \in Workers, v # w, Running(v)'
          PROVE  /\ Running(v) /\ worker'[v].manager = worker[v].manager /\ v # handle[m]
                 /\ worker[v].manager \in Managers
      BY <1>1, <2>2, <2>3, <2>4, StoppedWorkers DEF Running, Types, Worker, NoWorker
    <2>5. \A n \in Managers : handle'[n] = IF n = m THEN w ELSE handle[n]
      BY <1>1, <2>1 DEF Types
    <2>6. ASSUME NEW v \in Workers, Running(v)'
          PROVE  phase'[worker'[v].manager] # "new"
      BY <1>3, <2>2, <2>3, <2>4, <2>6 DEF Orphans
    <2>7. ASSUME spent'["preempt"] = 0, NEW v \in Workers, Running(v)',
                 phase'[worker'[v].manager] \in Living
          PROVE  handle'[worker'[v].manager] = v
      <3>1. CASE v = w
        BY <2>2, <2>3, <2>5, <3>1
      <3>2. CASE v # w
        <4>1. handle[worker[v].manager] = v
          BY <1>3, <2>4, <2>7, <3>2 DEF Orphans, NoOrphan, Lives, Living
        <4> QED
          BY <2>4, <2>5, <2>7, <3>2, <4>1
      <3> QED
        BY <3>1, <3>2
    <2>8. ASSUME NEW n \in Managers, phase'[n] \notin Living
          PROVE  handle'[n] = None
      BY <1>3, <2>2, <2>5, <2>8 DEF Orphans
    <2>9. \A n \in Managers : glanced'[n] => spent'["preempt"] # 0
      BY <1>3 DEF Orphans
    <2> QED
      BY <2>6, <2>7, <2>8, <2>9 DEF Orphans, NoOrphan, Lives, Living
  <1>7. CASE Fails(th)
    BY <1>5, <1>7 DEF Fails
  <1>8. CASE Switch(th) \/ Close(th)
    BY <1>4, <1>5, <1>8 DEF Switch, Close
  <1>9. CASE Look(th)
    BY <1>4, <1>5, <1>9 DEF Look, Reconciled
  <1>10. CASE Reuse(th)
    <2>1. \/ handle' = handle
          \/ /\ handle' = [handle EXCEPT ![call[th].m] = None]
             /\ ~Running(handle[call[th].m])
      BY <1>1, <1>2, <1>10 DEF Reuse, Types, Running
    <2> QED
      BY <1>4, <1>5, <1>10, <2>1 DEF Reuse
  <1>11. CASE \/ Enter(th) \/ Begin(th) \/ Clear(th) \/ Activate(th) \/ Touch(th) \/ Touched(th)
              \/ Opens(th) \/ BeginResume(th) \/ FinishResume(th) \/ BeginPause(th)
              \/ FinishPause(th) \/ Release(th) \/ Load(th) \/ Save(th)
    BY <1>4, <1>11 DEF Enter, Begin, Clear, Activate, Touch, Touched, Opens, BeginResume,
           FinishResume, BeginPause, FinishPause, Release, Load, Save, memory
  <1> QED
    BY <1>6, <1>7, <1>8, <1>9, <1>10, <1>11 DEF Step

LEMMA OrphansStep == ASSUME Base, Base', Orphans, [Next]_vars PROVE Orphans'
  <1> USE ManagerAssumption
  <1>1. Types /\ Held
    BY DEF Base
  <1>2. CASE UNCHANGED vars
    BY <1>2 DEF Orphans, NoOrphan, Running, Lives, vars, files, boards, memory, ghosts
  <1>3. ASSUME NEW th \in Threads, Step(th)
        PROVE  Orphans'
    BY <1>3, StepOrphans
  <1>4. ASSUME NEW th \in Threads, NEW m \in Managers, NEW kind \in AllKinds, NEW p \in Projects,
               Request(th, m, kind, p)
        PROVE  Orphans'
    BY <1>4, FrameKeepsOrphans DEF Request, Running
  <1>5. ASSUME NEW w \in Workers, Bind(w) \/ Dies(w)
        PROVE  Orphans'
    <2>1. \A v \in Workers : Running(v)' => Running(v) /\ worker'[v].manager = worker[v].manager
      BY <1>5, WorkerMoves DEF Running
    <2>2. handle' = handle /\ glanced' = glanced /\ phase' = phase
      BY <1>5 DEF Bind, Dies, memory
    <2>3. spent' = spent \/ spent'["preempt"] = spent["preempt"]
      BY <1>1, <1>5 DEF Bind, Dies, Happens, Types, Events
    <2> QED
      BY <2>1, <2>2, <2>3, FrameKeepsOrphans
  <1>6. ASSUME NEW m \in Managers, Reconcile(m)
        PROVE  Orphans'
    BY <1>6, DropKeepsOrphans DEF Reconcile, Reconciled, Living
  <1>7. ASSUME NEW m \in Managers, Glance(m)
        PROVE  Orphans'
    <2>1. spent'["preempt"] # 0
      BY <1>1, <1>7 DEF Glance, Happens, Types, Events
    <2> QED
      BY <1>7, <2>1 DEF Glance, Orphans, NoOrphan, Running
  <1>8. ASSUME NEW m \in Managers, AfterGlance(m)
        PROVE  Orphans'
    <2>1. spent["preempt"] # 0
      BY <1>8 DEF AfterGlance, Orphans
    <2>2. CASE phase[m] \in Living
      BY <1>8, <2>1, <2>2, DropKeepsOrphans DEF AfterGlance
    <2>3. CASE phase[m] \notin Living
      BY <1>1, <1>8, <2>1, <2>3 DEF AfterGlance, Orphans, NoOrphan, Running, Types
    <2> QED
      BY <2>2, <2>3
  <1>9. ASSUME NEW m \in Managers, Start(m)
        PROVE  Orphans'
    <2>1. /\ phase[m] = "new" /\ phase' = [phase EXCEPT ![m] = "serving"]
          /\ handle' = handle /\ glanced' = glanced /\ worker' = worker /\ spent' = spent
      BY <1>9 DEF Start, memory
    <2>2. ASSUME NEW w \in Workers, Running(w)
          PROVE  /\ worker[w].manager \in Managers /\ worker[w].manager # m
                 /\ phase'[worker[w].manager] = phase[worker[w].manager]
      BY <1>1, <2>1, <2>2 DEF Types, Worker, NoWorker, Running, Orphans
    <2>3. \A n \in Managers : phase'[n] \notin Living => phase[n] \notin Living
      BY <1>1, <2>1 DEF Types, Living
    <2> QED
      BY <2>1, <2>2, <2>3 DEF Orphans, NoOrphan, Running, Lives
  <1>10. ASSUME NEW m \in Managers, Terminate(m)
         PROVE  Orphans'
    <2>1. spent'["preempt"] = spent["preempt"]
      BY <1>1, <1>10 DEF Terminate, Happens, Types, Events
    <2> QED
      BY <1>10, <2>1, DropKeepsOrphans DEF Terminate, Living
  <1>11. ASSUME NEW m \in Managers, Shutdown(m) \/ Kill(m)
         PROVE  Orphans'
    <2>1. /\ phase' = [phase EXCEPT ![m] = "dead"] /\ handle' = [handle EXCEPT ![m] = None]
          /\ glanced' = [glanced EXCEPT ![m] = FALSE] /\ worker' = worker
      BY <1>11 DEF Shutdown, Kill, Ends
    <2>2. spent'["preempt"] = spent["preempt"]
      BY <1>1, <1>11 DEF Shutdown, Kill, Happens, Types, Events
    <2>3. ASSUME NEW w \in Workers, Running(w)
          PROVE  worker[w].manager \in Managers
      BY <1>1, <2>3, RunningWorker
    <2>4. \A n \in Managers : /\ phase'[n] = IF n = m THEN "dead" ELSE phase[n]
                              /\ handle'[n] = IF n = m THEN None ELSE handle[n]
                              /\ glanced'[n] => glanced[n]
      BY <1>1, <2>1 DEF Types
    <2>5. \A w \in Workers : Running(w)' <=> Running(w)
      BY <2>1 DEF Running
    <2>6. ASSUME spent'["preempt"] = 0, NEW w \in Workers, Running(w),
                 phase'[worker[w].manager] \in Living
          PROVE  handle'[worker[w].manager] = w
      BY <2>2, <2>3, <2>4, <2>6 DEF Orphans, NoOrphan, Lives, Living
    <2>7. ASSUME NEW w \in Workers, Running(w)
          PROVE  phase'[worker[w].manager] # "new"
      BY <2>3, <2>4, <2>7 DEF Orphans
    <2>8. \A n \in Managers : /\ glanced'[n] => spent'["preempt"] # 0
                              /\ phase'[n] \notin Living => handle'[n] = None
      BY <2>2, <2>4 DEF Orphans
    <2> QED
      BY <2>1, <2>5, <2>6, <2>7, <2>8 DEF Orphans, NoOrphan, Lives, Living
  <1> QED
    BY <1>2, <1>3, <1>4, <1>5, <1>6, <1>7, <1>8, <1>9, <1>10, <1>11 DEF Next

\* No worker is left running that its living manager does not hold, unless a
\* request was preempted inside _reconcile_worker.
THEOREM WorkersAreHeld == Spec => []NoOrphan
  <1>1. Init => Orphans
    BY ManagerAssumption DEF Init, Orphans, NoOrphan, Running, NoWorker
  <1>2. Base /\ Base' /\ Orphans /\ [Next]_vars => Orphans'
    BY OrphansStep
  <1>3. Orphans => NoOrphan
    BY DEF Orphans
  <1> QED
    BY <1>1, <1>2, <1>3, BaseHolds, PTL DEF Spec

(***************************************************************************)
(* Every id on the list was given out.                                     *)
(***************************************************************************)
Registered ==
    /\ listed \subseteq issued
    /\ \A th \in Threads :
        /\ call[th].at \in {"save", "touched"} => call[th].view \subseteq issued
        /\ call[th].at # "idle" /\ call[th].kind = "register" => call[th].p \in issued

LEMMA RegisteredStep == ASSUME Base, Base', Registered, [Next]_vars PROVE Registered'
  <1>1. ASSUME listed' = listed, call' = call, issued' = issued
        PROVE  Registered'
    BY <1>1 DEF Registered
  <1>2. ASSUME NEW th \in Threads, NEW places, Goes(th, places), call[th].at # "idle", issued' = issued,
               listed' \subseteq issued,
               call'[th].at \in {"save", "touched"} => call[th].at \in {"save", "touched"}
        PROVE  Registered'
    BY <1>2 DEF Registered, Goes, Alone, Idle
  <1>3. ASSUME NEW th \in Threads, Step(th)
        PROVE  Registered'
    <2>1. issued' = issued
      BY <1>3 DEF Step, Enter, Begin, Clear, Look, Switch, Activate, Touch, Touched, Spawn, Fails, Opens,
             BeginResume, Reuse, FinishResume, BeginPause, FinishPause, Close, Release, Load, Save
    <2>2. CASE Touch(th)
      <3>1. listed' = listed
        BY <2>2 DEF Touch, files
      <3> QED
        BY <2>1, <2>2, <3>1, TouchGoes DEF Registered, Goes, Alone, Idle
    <2>3. CASE Load(th)
      <3>1. listed' = listed
        BY <2>3 DEF Load, files
      <3> QED
        BY <2>1, <2>3, <3>1, LoadGoes DEF Registered, Alone, Idle
    <2>4. CASE Save(th)
      <3>1. listed' = IF call[th].kind = "delete" THEN call[th].view \ {call[th].p}
                                                  ELSE call[th].view \cup {call[th].p}
        BY <2>4 DEF Save
      <3>2. call[th].at = "save" /\ call[th].kind \in {"register", "delete"}
        BY <2>4, SaveGoes DEF Base, Callers
      <3>3. listed' \subseteq issued
        BY <3>1, <3>2 DEF Registered
      <3> QED
        BY <2>1, <2>4, <3>3, SaveGoes DEF Registered, Alone, Idle
    <2>5. CASE Touched(th)
      <3>1. listed' \subseteq issued /\ Goes(th, {"spawn"}) /\ call[th].at = "touched"
        BY <2>5, StepGoes DEF Touched, Registered
      <3> QED
        BY <1>2, <2>1, <3>1 DEF Goes, Idle
    <2>6. CASE Enter(th)
      BY <1>2, <2>1, <2>6, EnterGoes DEF Enter, files, Goes, Idle, Registered
    <2>7. CASE BeginResume(th)
      <3>1. listed' = listed
        BY <2>7 DEF BeginResume, files
      <3>2. call[th].at = "resume" /\ Goes(th, {"reuse", "idle"})
        BY <2>7, BeginResumeGoes
      <3>3. call'[th].at \notin {"save", "touched"}
        BY <3>2 DEF Goes, Idle
      <3> QED
        BY <1>2, <2>1, <3>1, <3>2, <3>3 DEF Registered
    <2>8. CASE \/ Begin(th) \/ Clear(th) \/ Look(th) \/ Switch(th) \/ Activate(th)
               \/ Spawn(th) \/ Fails(th) \/ Opens(th)
               \/ Reuse(th) \/ FinishResume(th) \/ BeginPause(th) \/ FinishPause(th)
               \/ Close(th) \/ Release(th)
      <3>1. PICK places \in SUBSET (Places \ {"save", "touched"}) :
               Goes(th, places) /\ call[th].at # "idle"
        BY <2>8, StepGoes DEF Places, Inside
      <3>2. listed' = listed
        BY <2>8 DEF Begin, Clear, Look, Switch, Activate, Spawn, Fails, Opens, Reuse, FinishResume,
               BeginPause, FinishPause, Close, Release, files
      <3> QED
        BY <1>2, <2>1, <3>1, <3>2 DEF Goes, Idle, Registered
    <2> QED
      BY <1>3, <2>2, <2>3, <2>4, <2>5, <2>6, <2>7, <2>8 DEF Step
  <1>4. ASSUME NEW th \in Threads, NEW m \in Managers, NEW kind \in AllKinds, NEW p \in Projects,
               Request(th, m, kind, p)
        PROVE  Registered'
    <2>1. listed' = listed /\ issued \subseteq issued' /\ (kind = "register" => p \in issued')
      BY <1>4 DEF Request, files
    <2>2. call'[th].at \in {"lock", "load"} /\ call'[th].kind = kind /\ call'[th].p = p
          /\ Alone(th)
      BY <1>4, RequestGoes
    <2> QED
      BY <2>1, <2>2 DEF Registered, Alone
  <1>5. ASSUME NEW m \in Managers, Own(m)
        PROVE  Registered'
    <2>1. listed' = listed /\ issued' = issued
      BY <1>5 DEF Own, Reconcile, Glance, AfterGlance, Start, Terminate, Shutdown, Kill, files
    <2>2. \A th \in Threads : call'[th] = call[th] \/ call'[th] = Idle
      <3>1. CASE Ends(m)
        BY <3>1, EndsGoes
      <3>2. CASE ~Ends(m)
        BY <1>5, <3>2 DEF Own, Reconcile, Glance, AfterGlance, Start, Terminate, Shutdown, Kill
      <3> QED
        BY <3>1, <3>2
    <2> QED
      BY <2>1, <2>2 DEF Registered, Idle
  <1>6. ASSUME NEW w \in Workers, Bind(w) \/ Dies(w)
        PROVE  Registered'
    BY <1>1, <1>6 DEF Bind, Dies, files
  <1>7. CASE UNCHANGED vars
    BY <1>1, <1>7 DEF vars, files
  <1> QED
    BY <1>3, <1>4, <1>5, <1>6, <1>7 DEF Next, Own

LEMMA TypesHold == Spec => []TypeOK
  <1>1. Init => Registered
    BY DEF Init, Registered, Idle
  <1>2. Base /\ Base' /\ Registered /\ [Next]_vars => Registered'
    BY RegisteredStep
  <1>3. Base /\ Registered => TypeOK
    BY DEF Base, Types, Registered, TypeOK, Lock, Worker, Closing
  <1> QED
    BY <1>1, <1>2, <1>3, BaseHolds, PTL DEF Spec

(***************************************************************************)
(* One manager at a time, and one call at a time inside its lifecycle.     *)
(***************************************************************************)
\* Every life of the manager listens on one port: two of them do not overlap.
OnePort == \A m, n \in Managers : Port[m] = Port[n]

OneLife == \A m, n \in Managers : phase[m] \in Living /\ phase[n] \in Living => m = n

Holders == \A th \in Threads : call[th].at \in Inside => lifecycle[call[th].m] = th

Alive == Base /\ OneLife /\ Holders

LEMMA OneLifeStep == ASSUME OnePort, Base, OneLife, [Next]_vars PROVE OneLife'
  <1>1. CASE phase' = phase
    BY <1>1 DEF OneLife
  <1>2. ASSUME NEW m \in Managers, Start(m)
        PROVE  OneLife'
    <2>1. phase' = [phase EXCEPT ![m] = "serving"]
      BY <1>2 DEF Start
    <2>2. \A n \in Managers : phase[n] \notin Living
      BY <1>2 DEF Start, OnePort, Lives, Living
    <2> QED
      BY <2>1, <2>2 DEF OneLife, Base, Types
  <1>3. ASSUME NEW m \in Managers, Terminate(m) \/ Shutdown(m) \/ Kill(m)
        PROVE  OneLife'
    <2>1. phase[m] \in Living
      BY <1>3 DEF Terminate, Shutdown, Kill, Lives, Living
    <2>2. phase' = [phase EXCEPT ![m] = "stopping"] \/ phase' = [phase EXCEPT ![m] = "dead"]
      BY <1>3 DEF Terminate, Shutdown, Kill, Ends
    <2>3. \A n \in Managers : phase'[n] \in Living => phase[n] \in Living
      BY <2>1, <2>2 DEF Base, Types, Living
    <2> QED
      BY <2>3 DEF OneLife
  <1>4. ASSUME NEW th \in Threads, Step(th)
        PROVE  phase' = phase
    BY <1>4 DEF Step, Enter, Begin, Clear, Look, Switch, Activate, Touch, Touched, Spawn, Fails, Opens,
           BeginResume, Reuse, FinishResume, BeginPause, FinishPause, Close, Release, Load, Save
  <1>5. ASSUME NEW th \in Threads, NEW m \in Managers, NEW kind \in AllKinds, NEW p \in Projects,
               Request(th, m, kind, p)
        PROVE  phase' = phase
    BY <1>5 DEF Request
  <1>6. ASSUME NEW m \in Managers, Reconcile(m) \/ Glance(m) \/ AfterGlance(m)
        PROVE  phase' = phase
    BY <1>6 DEF Reconcile, Glance, AfterGlance
  <1>7. ASSUME NEW w \in Workers, Bind(w) \/ Dies(w)
        PROVE  phase' = phase
    BY <1>7 DEF Bind, Dies
  <1>8. CASE UNCHANGED vars
    BY <1>1, <1>8 DEF vars
  <1> QED
    BY <1>1, <1>2, <1>3, <1>4, <1>5, <1>6, <1>7, <1>8 DEF Next

\* What a call that is inside the lifecycle does to it.
LEMMA InsideStep ==
    ASSUME Base, NEW th \in Threads, Step(th), call[th].at \in Inside
    PROVE  /\ Alone(th)
           /\ \/ /\ call'[th].at \in Inside /\ call'[th].m = call[th].m
                 /\ lifecycle' = lifecycle
              \/ /\ call'[th].at \in {"idle", "load"}
                 /\ lifecycle' = [lifecycle EXCEPT ![call[th].m] = None]
  <1>1. Types /\ call[th].m \in Managers
    BY CallerFacts DEF Base, Inside
  <1>2. ASSUME Leaves(th, "idle")
        PROVE  /\ call'[th].at = "idle"
               /\ lifecycle' = [lifecycle EXCEPT ![call[th].m] = None]
    BY <1>1, <1>2, LeavesGoes DEF Leaves, Types, Idle
  <1>3. ASSUME Leaves(th, "load")
        PROVE  /\ call'[th].at \in {"idle", "load"}
               /\ lifecycle' = [lifecycle EXCEPT ![call[th].m] = None]
    BY <1>1, <1>3, LeavesGoes DEF Leaves, Types, Places, Inside, Goes, Idle
  <1>4. ASSUME lifecycle' = lifecycle, NEW places \in SUBSET (Inside \cup {"idle"}), Goes(th, places),
               call'[th] # Idle
        PROVE  call'[th].at \in Inside /\ call'[th].m = call[th].m
    BY <1>4 DEF Goes, Inside
  <1>5. CASE Touch(th)
    BY <1>2, <1>5, TouchGoes DEF Return, Inside, Goes
  <1>6. CASE Release(th)
    <2>1. Alone(th)
      BY <1>6, StepGoes DEF Goes
    <2> QED
      BY <1>2, <1>3, <1>6, <2>1 DEF Release, Return
  <1>7. CASE \/ Begin(th) \/ Clear(th) \/ Switch(th) \/ Touched(th) \/ Spawn(th) \/ Close(th)
    <2>1. PICK there \in Inside : Goes(th, {there})
      BY <1>7, StepGoes DEF Inside
    <2>2. lifecycle' = lifecycle
      BY <1>7 DEF Begin, Clear, Switch, Touched, Spawn, Close, memory
    <2> QED
      BY <2>1, <2>2 DEF Goes, Inside
  <1>8. CASE Fails(th) \/ FinishResume(th) \/ FinishPause(th)
    <2>1. Return(th) /\ Alone(th)
      BY <1>8, StepGoes DEF Fails, FinishResume, FinishPause, Goes
    <2> QED
      BY <1>2, <2>1 DEF Return
  <1>9. CASE Look(th) \/ Activate(th) \/ Opens(th) \/ Reuse(th) \/ BeginPause(th) \/ BeginResume(th)
    <2>1. PICK places \in SUBSET (Inside \cup {"idle"}) : Goes(th, places)
      BY <1>9, StepGoes, BeginResumeGoes DEF Inside
    <2>2. CASE Return(th)
      BY <1>2, <2>1, <2>2 DEF Return, Goes
    <2>3. CASE ~Return(th)
      <3>1. lifecycle' = lifecycle
        BY <1>9, <2>3 DEF Look, Activate, Opens, Reuse, BeginPause, BeginResume
      <3>2. call'[th].at # "idle"
        <4>1. call \in [Threads -> Call]
          BY <1>1 DEF Types
        <4>2. ASSUME NEW there \in Inside, Go(th, there)
              PROVE  call'[th].at # "idle"
          BY <4>1, <4>2, GoGoes DEF Goes, Inside, Places
        <4>3. CASE Look(th) \/ Activate(th) \/ BeginPause(th)
          BY <2>3, <4>2, <4>3 DEF Look, Activate, BeginPause, Inside
        <4>4. CASE Opens(th) \/ Reuse(th)
          BY <2>3, <4>2, <4>4 DEF Opens, Reuse, Inside
        <4>5. CASE BeginResume(th)
          <5>1. PICK fresh : call' = [call EXCEPT ![th].at = "reuse", ![th].resuming = TRUE,
                                                  ![th].fresh = fresh]
            BY <2>3, <4>5 DEF BeginResume
          <5>2. call'[th] = [call[th] EXCEPT !.at = "reuse", !.resuming = TRUE, !.fresh = fresh]
            BY <4>1, <5>1
          <5>3. call[th] \in Call
            BY <4>1
          <5> QED
            BY <5>2, <5>3 DEF Call
        <4> QED
          BY <1>9, <4>3, <4>4, <4>5
      <3> QED
        BY <1>4, <2>1, <3>1, <3>2 DEF Goes, Idle
    <2> QED
      BY <2>2, <2>3
  <1>10. ~Enter(th) /\ ~Load(th) /\ ~Save(th)
    BY EnterGoes, LoadGoes, SaveGoes DEF Inside
  <1> QED
    BY <1>5, <1>6, <1>7, <1>8, <1>9, <1>10 DEF Step

\* The steps of a call that is not inside.
LEMMA OutsideStep ==
    ASSUME Base, NEW th \in Threads, Step(th), call[th].at \notin Inside
    PROVE  /\ Enter(th) \/ Load(th) \/ Save(th)
           /\ lock' = lock /\ handle' = handle /\ worker' = worker
  <1>1. Enter(th) \/ Load(th) \/ Save(th)
    BY StepGoes, TouchGoes, BeginResumeGoes DEF Step, Inside
  <1> QED
    BY <1>1 DEF Enter, Load, Save, memory, files

LEMMA HoldersStep == ASSUME Base, Holders, [Next]_vars PROVE Holders'
  <1> USE ManagerAssumption
  <1>1. Types
    BY DEF Base
  <1>2. ASSUME NEW th \in Threads, Step(th)
        PROVE  Holders'
    <2>1. CASE call[th].at \in Inside
      <3>1. lifecycle[call[th].m] = th /\ call[th].m \in Managers
        BY <2>1, CallerFacts DEF Holders, Inside
      <3>2. ASSUME NEW o \in Threads, o # th, call'[o].at \in Inside
            PROVE  lifecycle'[call'[o].m] = o
        <4>1. call'[o] = call[o] /\ call[o].m \in Managers
          BY <1>2, <2>1, <3>2, InsideStep, CallerFacts DEF Alone, Inside
        <4>2. lifecycle[call[o].m] = o
          BY <3>2, <4>1 DEF Holders
        <4>3. call[o].m # call[th].m
          BY <3>1, <3>2, <4>2
        <4> QED
          BY <1>1, <1>2, <2>1, <4>1, <4>2, <4>3, InsideStep DEF Types
      <3>3. call'[th].at \in Inside => lifecycle'[call'[th].m] = th
        BY <1>2, <2>1, <3>1, InsideStep DEF Inside
      <3> QED
        BY <3>2, <3>3 DEF Holders
    <2>2. CASE Enter(th)
      <3>1. /\ lifecycle[call[th].m] = None
            /\ lifecycle' = [lifecycle EXCEPT ![call[th].m] = th]
            /\ call[th].m \in Managers
        BY <2>2, CallerFacts DEF Enter, At
      <3>2. Alone(th) /\ (call'[th].m = call[th].m \/ call'[th] = Idle)
        BY <2>2, EnterGoes DEF Goes
      <3>3. ASSUME NEW o \in Threads, o # th, call'[o].at \in Inside
            PROVE  lifecycle'[call'[o].m] = o
        <4>1. call'[o] = call[o] /\ call[o].m \in Managers
          BY <3>2, <3>3, CallerFacts DEF Alone, Inside
        <4> QED
          BY <1>1, <3>1, <3>3, <4>1 DEF Holders, Types
      <3>4. call'[th].at \in Inside => lifecycle'[call'[th].m] = th
        BY <1>1, <3>1, <3>2 DEF Types, Idle, Inside
      <3> QED
        BY <3>3, <3>4 DEF Holders
    <2>3. CASE Load(th) \/ Save(th)
      <3>1. lifecycle' = lifecycle
        BY <2>3 DEF Load, Save, memory
      <3>2. Alone(th) /\ call'[th].at \notin Inside
        BY <2>3, LoadGoes, SaveGoes DEF Idle, Inside
      <3> QED
        BY <3>1, <3>2 DEF Holders, Alone
    <2> QED
      BY <1>2, <2>1, <2>2, <2>3, OutsideStep
  <1>3. ASSUME NEW th \in Threads, NEW m \in Managers, NEW kind \in AllKinds, NEW p \in Projects,
               Request(th, m, kind, p)
        PROVE  Holders'
    <2>1. lifecycle' = lifecycle
      BY <1>3 DEF Request
    <2>2. Alone(th) /\ call'[th].at \notin Inside
      BY <1>3, RequestGoes DEF Inside
    <2> QED
      BY <2>1, <2>2 DEF Holders, Alone
  <1>4. ASSUME NEW m \in Managers, Ends(m)
        PROVE  Holders'
    <2>1. ASSUME NEW th \in Threads, call'[th].at \in Inside
          PROVE  lifecycle'[call'[th].m] = th
      <3>1. call'[th] = call[th] /\ call[th].m # m
        BY <1>4, <2>1, EndsGoes DEF Idle, Inside
      <3>2. call[th].m \in Managers
        BY <2>1, <3>1, CallerFacts DEF Inside
      <3> QED
        BY <1>1, <1>4, <2>1, <3>1, <3>2 DEF Ends, Holders, Types
    <2> QED
      BY <2>1 DEF Holders
  <1>5. ASSUME call' = call, lifecycle' = lifecycle
        PROVE  Holders'
    BY <1>5 DEF Holders
  <1>6. ASSUME NEW m \in Managers, Own(m)
        PROVE  Holders'
    BY <1>4, <1>5, <1>6 DEF Own, Reconcile, Glance, AfterGlance, Start, Terminate, Shutdown, Kill,
           memory
  <1>7. ASSUME NEW w \in Workers, Bind(w) \/ Dies(w)
        PROVE  Holders'
    BY <1>5, <1>7 DEF Bind, Dies, memory
  <1>8. CASE UNCHANGED vars
    BY <1>5, <1>8 DEF vars, memory
  <1> QED
    BY <1>2, <1>3, <1>6, <1>7, <1>8 DEF Next, Own

LEMMA AliveHolds == ASSUME OnePort PROVE Spec => []Alive
  <1>1. Init => OneLife /\ Holders
    BY DEF Init, OneLife, Holders, Living, Idle, Inside
  <1>2. Base /\ OneLife /\ Holders /\ [Next]_vars => OneLife' /\ Holders'
    BY OneLifeStep, HoldersStep
  <1>3. Base /\ OneLife /\ Holders => Alive
    BY DEF Alive
  <1> QED
    BY <1>1, <1>2, <1>3, BaseHolds, PTL DEF Spec

(***************************************************************************)
(* The handle and the activation.                                          *)
(***************************************************************************)
\* The call's manager does not hold a worker of the call's project.
Unserved(th) == ~Serves(call[th].m, call[th].p)

\* What a living manager holds is served under its activation; a call is where
\* it is because of what it did to the two.
Handles ==
    /\ \A m \in Managers : phase[m] \in Living /\ handle[m] # None =>
          lock # None /\ lock.manager = m /\ lock.project = worker[handle[m]].project
    /\ \A m \in Managers : phase[m] \notin Living => handle[m] = None
    /\ lock # None => phase[lock.manager] # "new"
    /\ \A th \in Threads :
        /\ call[th].at \in {"touch", "touched", "spawn"} =>
              /\ handle[call[th].m] = None
              /\ lock # None /\ lock.manager = call[th].m /\ lock.project = call[th].p
        /\ call[th].at = "wait" => lock = None \/ lock.project = call[th].p
        /\ call[th].at = "release" => Unserved(th)

\* The other calls are not inside.
LEMMA OthersOutside ==
    ASSUME Alive, NEW th \in Threads, call[th].at \in Inside
    PROVE  /\ call[th].m \in Managers /\ phase[call[th].m] \in Living
           /\ \A n \in Managers : n # call[th].m => phase[n] \notin Living
           /\ \A o \in Threads : o # th => call[o].at \notin Inside
  <1>1. Base /\ OneLife /\ Holders
    BY DEF Alive
  <1>2. call[th].m \in Managers /\ phase[call[th].m] \in Living
    BY <1>1, CallerFacts DEF Inside
  <1>3. \A n \in Managers : n # call[th].m => phase[n] \notin Living
    BY <1>1, <1>2 DEF OneLife
  <1>4. ASSUME NEW o \in Threads, o # th, call[o].at \in Inside
        PROVE  FALSE
    <2>1. call[o].m \in Managers /\ phase[call[o].m] \in Living
      BY <1>1, <1>4, CallerFacts DEF Inside
    <2>2. call[o].m = call[th].m
      BY <1>3, <2>1
    <2> QED
      BY <1>1, <1>4, <2>2 DEF Holders
  <1> QED
    BY <1>2, <1>3, <1>4

\* What is left to show of a step of the call that is inside.
LEMMA HandlesOf ==
    ASSUME Alive, Handles, NEW th \in Threads, call[th].at \in Inside,
           Alone(th), phase' = phase,
           \A n \in Managers : n # call[th].m => handle'[n] = handle[n],
           handle'[call[th].m] # None =>
               /\ lock' # None /\ lock'.manager = call[th].m
               /\ lock'.project = worker'[handle'[call[th].m]].project,
           lock' # None => lock' = lock \/ lock'.manager = call[th].m,
           call'[th].at \in {"touch", "touched", "spawn"} =>
               /\ handle'[call'[th].m] = None
               /\ lock' # None /\ lock'.manager = call'[th].m /\ lock'.project = call'[th].p,
           call'[th].at = "wait" => lock' = None \/ lock'.project = call'[th].p,
           call'[th].at = "release" => Unserved(th)'
    PROVE  Handles'
  <1>1. /\ call[th].m \in Managers /\ phase[call[th].m] \in Living
        /\ \A n \in Managers : n # call[th].m => phase[n] \notin Living
        /\ \A o \in Threads : o # th => call'[o].at \notin Inside
    BY OthersOutside DEF Alone
  <1>2. \A m \in Managers : phase'[m] \in Living /\ handle'[m] # None =>
          lock' # None /\ lock'.manager = m /\ lock'.project = worker'[handle'[m]].project
    BY <1>1
  <1>3. \A m \in Managers : phase'[m] \notin Living => handle'[m] = None
    BY <1>1 DEF Handles
  <1>4. lock' # None => phase'[lock'.manager] # "new"
    BY <1>1 DEF Handles, Living
  <1>5. ASSUME NEW o \in Threads
        PROVE  /\ call'[o].at \in {"touch", "touched", "spawn"} =>
                    /\ handle'[call'[o].m] = None
                    /\ lock' # None /\ lock'.manager = call'[o].m /\ lock'.project = call'[o].p
               /\ call'[o].at = "wait" => lock' = None \/ lock'.project = call'[o].p
               /\ call'[o].at = "release" => Unserved(o)'
    <2>1. CASE o = th
      BY <2>1
    <2>2. CASE o # th
      BY <1>1, <2>2 DEF Inside
    <2> QED
      BY <2>1, <2>2
  <1> QED
    BY <1>2, <1>3, <1>4, <1>5 DEF Handles

\* The project of a worker that was started stays.
LEMMA ProjectStays ==
    ASSUME Base, NEW m \in Managers, NEW w \in Workers, worker' = Stopped(m) \/ worker' = worker
    PROVE  worker'[w].project = worker[w].project
  BY StoppedWorkers DEF Base

LEMMA StepHandles ==
    ASSUME Alive, Handles, NEW th \in Threads, Step(th)
    PROVE  Handles'
  <1> USE ManagerAssumption
  <1>1. Base /\ Types /\ Held
    BY DEF Alive, Base
  <1>2. CASE call[th].at \notin Inside
    <2>1. /\ lock' = lock /\ handle' = handle /\ worker' = worker
          /\ Enter(th) \/ Load(th) \/ Save(th)
      BY <1>1, <1>2, OutsideStep
    <2>2. phase' = phase
      BY <2>1 DEF Enter, Load, Save
    <2>3. Alone(th) /\ call'[th].at \notin {"touch", "touched", "spawn", "wait", "release"}
      BY <1>1, <2>1, EnterGoes, LoadGoes, SaveGoes DEF Goes, Idle
    <2> QED
      BY <2>1, <2>2, <2>3 DEF Handles, Alone, Unserved, Serves
  <1>3. CASE call[th].at \in Inside
    <2> DEFINE m == call[th].m
               p == call[th].p
    <2>1. /\ m \in Managers /\ phase[m] \in Living /\ p \in Projects
          /\ \A n \in Managers : n # m => phase[n] \notin Living
          /\ \A o \in Threads : o # th => call[o].at \notin Inside
      BY <1>1, <1>3, OthersOutside, CallerFacts DEF Inside
    <2>2. Alone(th)
      BY <1>1, <1>3, InsideStep
    <2>3. phase' = phase
      BY DEF Step, Enter, Begin, Clear, Look, Switch, Activate, Touch, Touched, Spawn, Fails, Opens,
             BeginResume, Reuse, FinishResume, BeginPause, FinishPause, Close, Release, Load, Save
    <2>4. handle[m] # None => /\ handle[m] \in Workers /\ lock # None /\ lock.manager = m
                              /\ lock.project = worker[handle[m]].project
      BY <1>1, <2>1 DEF Handles, Types
    <2>5. handle[m] # None => Active
      BY <2>1, <2>4 DEF Active, Lives, Living
    <2>6. ASSUME handle' = handle, worker' = worker, lock' = lock,
                 call'[th].at \notin {"touch", "touched", "spawn", "wait", "release"}
          PROVE  Handles'
      BY <1>3, <2>1, <2>2, <2>3, <2>4, <2>6, HandlesOf
    <2>7. ASSUME handle' = [handle EXCEPT ![m] = None], lock' = lock \/ lock' = None,
                 call'[th].at \notin {"touch", "touched", "spawn", "wait", "release"}
          PROVE  Handles'
      BY <1>1, <1>3, <2>1, <2>2, <2>3, <2>4, <2>7, HandlesOf DEF Types
    <2>8. CASE Touch(th)
      <3>1. handle' = handle /\ worker' = worker /\ lock' = lock
        BY <2>8 DEF Touch, files
      <3>2. call[th].at = "touch"
        BY <1>1, <2>8, TouchGoes
      <3>3. call'[th].at = "idle" \/ (call'[th].at = "touched" /\ call'[th].m = m /\ call'[th].p = p)
        BY <1>1, <2>8, TouchGoes DEF Goes, Idle
      <3> QED
        BY <1>3, <2>1, <2>2, <2>3, <2>4, <2>6, <3>1, <3>2, <3>3, HandlesOf DEF Handles
    <2>9. CASE Touched(th)
      <3>1. handle' = handle /\ worker' = worker /\ lock' = lock
        BY <2>9 DEF Touched, memory
      <3>2. call[th].at = "touched" /\ call'[th].at = "spawn" /\ call'[th].m = m /\ call'[th].p = p
        BY <1>1, <2>9, StepGoes DEF Goes
      <3> QED
        BY <1>3, <2>1, <2>2, <2>3, <2>4, <3>1, <3>2, HandlesOf DEF Handles
    <2>10. CASE Look(th)
      <3>1. call'[th].at \in {"resume", "switch", "idle"}
        BY <1>1, <2>10, StepGoes DEF Goes, Idle
      <3>2. worker' = worker /\ Reconciled(m)
        BY <2>10 DEF Look
      <3> QED
        BY <2>6, <2>7, <3>1, <3>2 DEF Reconciled
    <2>11. CASE Switch(th)
      <3>1. call'[th].at = "activate"
        BY <1>1, <2>11, StepGoes DEF Goes, Idle
      <3>2. CASE Active /\ lock.project # p
        <4>1. lock' = None
          BY <2>11, <3>2 DEF Switch
        <4>2. handle' = [handle EXCEPT ![m] = None] \/ (handle' = handle /\ handle[m] = None)
          BY <2>4, <2>11, <3>2 DEF Switch, Serves
        <4>3. handle' = [handle EXCEPT ![m] = None]
          BY <1>1, <4>2 DEF Types
        <4> QED
          BY <2>7, <3>1, <4>1, <4>3
      <3>3. CASE ~(Active /\ lock.project # p)
        BY <2>6, <2>11, <3>1, <3>3 DEF Switch
      <3> QED
        BY <3>2, <3>3
    <2>12. CASE Activate(th)
      <3>1. handle' = handle /\ worker' = worker
        BY <2>12 DEF Activate
      <3>2. CASE Return(th)
        <4>1. call'[th].at = "idle"
          BY <1>1, <3>2, ReturnGoes DEF Goes, Idle, Types
        <4>2. lock' = lock
          <5>1. Active \/ p \notin listed
            <6>1. ASSUME Go(th, "touch")
                  PROVE  FALSE
              <7>1. call'[th].at = "touch"
                BY <1>1, <6>1, GoGoes DEF Types, Goes, Places, Inside
              <7> QED
                BY <4>1, <7>1
            <6> QED
              BY <2>12, <6>1 DEF Activate
          <5> QED
            BY <2>12, <5>1 DEF Activate
        <4> QED
          BY <2>6, <3>1, <4>1, <4>2
      <3>3. CASE ~Return(th)
        <4>1. ~Active /\ Go(th, "touch")
              /\ lock' = [manager |-> m, project |-> p, held |-> FALSE]
          BY <2>12, <3>3 DEF Activate
        <4>2. handle[m] = None
          BY <2>5, <4>1
        <4>3. call'[th].at = "touch" /\ call'[th].m = m /\ call'[th].p = p
          BY <1>1, <4>1, GoGoes DEF Types, Goes, Places, Inside
        <4>4. lock' # None /\ lock'.manager = m /\ lock'.project = p
          <5>1. [manager |-> m, project |-> p, held |-> FALSE]
                    \in [manager : Managers, project : Projects, held : BOOLEAN]
            BY <2>1
          <5>2. lock' # None
            BY <4>1, <5>1
          <5> QED
            BY <4>1, <5>2
        <4> QED
          BY <1>3, <2>1, <2>2, <2>3, <3>1, <4>2, <4>3, <4>4, HandlesOf
      <3> QED
        BY <3>2, <3>3
    <2>13. CASE Spawn(th)
      <3>1. PICK w \in Workers :
               /\ worker' = [Stopped(m) EXCEPT
                    ![w] = [project |-> p, manager |-> m, state |-> "starting"]]
               /\ handle' = [handle EXCEPT ![m] = w]
        BY <2>13 DEF Spawn
      <3>2. lock' = lock
        BY <2>13 DEF Spawn, files
      <3>3. call[th].at = "spawn" /\ call'[th].at = "wait" /\ call'[th].m = m /\ call'[th].p = p
        BY <1>1, <2>13, StepGoes DEF Goes, Idle
      <3>4. lock # None /\ lock.manager = m /\ lock.project = p
        BY <3>3 DEF Handles
      <3>5. worker'[w].project = p /\ handle'[m] = w
            /\ \A n \in Managers : n # m => handle'[n] = handle[n]
        BY <1>1, <2>1, <3>1, StoppedWorkers DEF Types
      <3> QED
        BY <1>3, <2>1, <2>2, <2>3, <3>2, <3>3, <3>4, <3>5, HandlesOf
    <2>14. CASE Fails(th)
      <3>1. call'[th].at = "idle"
        BY <1>1, <2>14, StepGoes DEF Goes, Idle
      <3> QED
        BY <2>7, <2>14, <3>1 DEF Fails, Released
    <2>15. CASE Reuse(th)
      <3>1. call'[th].at \in {"finish", "begin", "look", "idle"}
        BY <1>1, <2>15, StepGoes DEF Goes, Idle
      <3>2. worker' = worker
        BY <2>15 DEF Reuse
      <3>3. CASE handle[m] = None \/ ~Running(handle[m])
        <4>1. lock' = lock \/ lock' = None
          BY <2>15, <3>3 DEF Reuse
        <4>2. handle' = [handle EXCEPT ![m] = None]
          BY <2>15, <3>3 DEF Reuse, Serves
        <4> QED
          BY <2>7, <3>1, <4>1, <4>2
      <3>4. CASE handle[m] # None /\ Running(handle[m])
        <4>1. lock' = lock /\ handle' = handle
          BY <1>1, <2>1, <2>15, <3>4 DEF Reuse, Types
        <4> QED
          BY <2>6, <3>1, <3>2, <4>1
      <3> QED
        BY <3>3, <3>4
    <2>16. CASE Close(th)
      <3>1. call'[th].at = "release" /\ call'[th].m = m /\ call'[th].p = p
        BY <1>1, <2>16, StepGoes DEF Goes, Idle
      <3>2. lock' = lock
        BY <2>16 DEF Close, files
      <3>3. CASE Serves(m, p)
        <4>1. handle' = [handle EXCEPT ![m] = None]
          BY <2>16, <3>3 DEF Close
        <4>2. handle'[m] = None /\ \A n \in Managers : n # m => handle'[n] = handle[n]
          BY <1>1, <2>1, <4>1 DEF Types
        <4>3. Unserved(th)'
          BY <3>1, <4>2 DEF Unserved, Serves
        <4> QED
          BY <1>3, <2>1, <2>2, <2>3, <3>1, <3>2, <4>2, <4>3, HandlesOf
      <3>4. CASE ~Serves(m, p)
        <4>1. handle' = handle /\ worker' = worker
          BY <2>16, <3>4 DEF Close
        <4>2. Unserved(th)'
          BY <3>1, <3>4, <4>1 DEF Unserved, Serves
        <4> QED
          BY <1>3, <2>1, <2>2, <2>3, <2>4, <3>1, <3>2, <4>1, <4>2, HandlesOf
      <3> QED
        BY <3>3, <3>4
    <2>17. CASE Release(th)
      <3>1. call[th].at = "release" /\ call'[th].at \in {"load", "idle"}
        BY <1>1, <2>17, StepGoes DEF Goes, Idle
      <3>2. handle' = handle /\ worker' = worker /\ lock' = Released(p)
        BY <2>17 DEF Release
      <3>3. handle[m] # None => lock.project # p
        BY <2>4, <3>1 DEF Handles, Unserved, Serves
      <3>4. lock' = lock \/ (lock' = None /\ handle[m] = None)
        BY <3>2, <3>3 DEF Released, Unlocked
      <3> QED
        BY <1>3, <2>1, <2>2, <2>3, <2>4, <3>1, <3>2, <3>4, HandlesOf
    <2>18. CASE \/ Begin(th) \/ Clear(th) \/ Opens(th) \/ BeginResume(th) \/ FinishResume(th)
                \/ BeginPause(th) \/ FinishPause(th)
      <3>1. call'[th].at \in {"clear", "look", "finish", "idle", "reuse", "paused"}
        BY <1>1, <2>18, StepGoes, BeginResumeGoes DEF Goes, Idle
      <3>2. handle' = handle /\ worker' = worker /\ lock' = lock
        BY <2>18 DEF Begin, Clear, Opens, BeginResume, FinishResume, BeginPause, FinishPause, files
      <3> QED
        BY <2>6, <3>1, <3>2
    <2>19. ~Enter(th) /\ ~Load(th) /\ ~Save(th)
      BY <1>1, <1>3, EnterGoes, LoadGoes, SaveGoes DEF Inside
    <2> QED
      BY <2>8, <2>9, <2>10, <2>11, <2>12, <2>13, <2>14, <2>15, <2>16, <2>17, <2>18, <2>19 DEF Step
  <1> QED
    BY <1>2, <1>3

\* The step of a manager that takes its handle away, with the activation it serves.
LEMMA DropHandles ==
    ASSUME Alive, Handles, NEW m \in Managers, phase[m] \in Living,
           handle' = [handle EXCEPT ![m] = None],
           call' = call, phase' = phase \/ phase' = [phase EXCEPT ![m] = "stopping"],
           handle[m] = None => lock' = lock,
           lock' = lock \/ lock' = None
    PROVE  Handles'
  <1>1. Base /\ Types
    BY DEF Alive, Base
  <1>2. \A n \in Managers : n # m => phase[n] \notin Living
    BY DEF Alive, OneLife
  <1>3. \A n \in Managers : /\ handle'[n] = IF n = m THEN None ELSE handle[n]
                            /\ phase'[n] \in Living => phase[n] \in Living
                            /\ phase'[n] \notin Living => phase[n] \notin Living
                            /\ phase'[n] = "new" => phase[n] = "new"
    BY <1>1 DEF Types, Living
  <1>4. ASSUME NEW n \in Managers
        PROVE  handle'[n] = None
    BY <1>2, <1>3, <1>4 DEF Handles
  <1>5. lock' # None => phase'[lock'.manager] # "new"
    <2>1. lock # None => lock.manager \in Managers
      BY <1>1 DEF Types, Lock
    <2> QED
      BY <1>3, <2>1 DEF Handles
  <1>6. ASSUME NEW th \in Threads
        PROVE  /\ call'[th].at \in {"touch", "touched", "spawn"} =>
                    /\ handle'[call'[th].m] = None
                    /\ lock' # None /\ lock'.manager = call'[th].m /\ lock'.project = call'[th].p
               /\ call'[th].at = "wait" => lock' = None \/ lock'.project = call'[th].p
               /\ call'[th].at = "release" => Unserved(th)'
    <2>1. CASE call[th].at \notin Inside
      BY <2>1 DEF Inside
    <2>2. CASE call[th].at \in Inside
      <3>1. call[th].m = m
        BY <1>2, <2>2, OthersOutside
      <3>2. call[th].at \in {"touch", "touched", "spawn"} => lock' = lock
        BY <3>1 DEF Handles
      <3> QED
        BY <1>4, <3>1, <3>2 DEF Handles, Unserved, Serves
    <2> QED
      BY <2>1, <2>2
  <1> QED
    BY <1>4, <1>5, <1>6 DEF Handles

LEMMA HandlesStep == ASSUME OnePort, Alive, Handles, [Next]_vars PROVE Handles'
  <1> USE ManagerAssumption
  <1>1. Base /\ Types /\ Held /\ OneLife
    BY DEF Alive, Base
  <1>2. ASSUME NEW th \in Threads, NEW m \in Managers, NEW kind \in AllKinds, NEW p \in Projects,
               Request(th, m, kind, p)
        PROVE  Handles'
    <2>1. lock' = lock /\ handle' = handle /\ worker' = worker /\ phase' = phase
      BY <1>2 DEF Request, files
    <2>2. Alone(th) /\ call'[th].at \in {"lock", "load"}
      BY <1>1, <1>2, RequestGoes
    <2> QED
      BY <2>1, <2>2 DEF Handles, Alone, Unserved, Serves
  <1>3. ASSUME NEW w \in Workers, Bind(w) \/ Dies(w)
        PROVE  Handles'
    <2>1. lock' = lock /\ handle' = handle /\ phase' = phase /\ call' = call
      BY <1>3 DEF Bind, Dies, memory, files
    <2>2. \A v \in Workers : worker'[v].project = worker[v].project
      BY <1>1, <1>3, WorkerMoves
    <2>3. \A n \in Managers : handle[n] # None => handle[n] \in Workers
      BY <1>1 DEF Types
    <2>4. ASSUME NEW th \in Threads, call[th].at = "release", Unserved(th)
          PROVE  Unserved(th)'
      <3>1. call[th].m \in Managers
        BY <1>1, <2>4, CallerFacts
      <3> QED
        BY <2>1, <2>2, <2>3, <2>4, <3>1 DEF Unserved, Serves
    <2> QED
      BY <2>1, <2>2, <2>3, <2>4 DEF Handles
  <1>4. ASSUME NEW m \in Managers, handle[m] # None
        PROVE  /\ phase[m] \in Living /\ lock # None /\ lock.manager = m
               /\ lock.project = worker[handle[m]].project /\ IsActive(worker[handle[m]].project)
    BY <1>4 DEF Handles, IsActive, Active, Lives, Living
  <1>5. ASSUME NEW m \in Managers, Reconcile(m)
        PROVE  Handles'
    BY <1>4, <1>5, DropHandles DEF Reconcile, Reconciled
  <1>6. ASSUME NEW m \in Managers, Glance(m)
        PROVE  Handles'
    BY <1>6 DEF Glance, files, Handles, Unserved, Serves
  <1>7. ASSUME NEW m \in Managers, AfterGlance(m)
        PROVE  Handles'
    <2>1. CASE handle[m] = None
      <3>1. handle' = handle
        BY <1>1, <1>7, <2>1 DEF AfterGlance, Types
      <3> QED
        BY <1>7, <2>1, <3>1 DEF AfterGlance, Handles, Unserved, Serves
    <2>2. CASE handle[m] # None
      BY <1>4, <1>7, <2>2, DropHandles DEF AfterGlance
    <2> QED
      BY <2>1, <2>2
  <1>8. ASSUME NEW m \in Managers, Terminate(m)
        PROVE  Handles'
    BY <1>8, DropHandles DEF Terminate, Living, files
  <1>9. ASSUME NEW m \in Managers, Start(m)
        PROVE  Handles'
    <2>1. /\ phase' = [phase EXCEPT ![m] = "serving"] /\ handle' = handle /\ call' = call
      BY <1>9 DEF Start, memory
    <2>2. \A n \in Managers : phase[n] \notin Living
      BY <1>9 DEF Start, OnePort, Lives, Living
    <2>3. \A n \in Managers : handle'[n] = None
      BY <2>1, <2>2 DEF Handles
    <2>4. \A th \in Threads : call'[th].at = "idle"
      BY <1>1, <2>1, <2>2, CallerFacts
    <2>5. ASSUME lock' # None
          PROVE  phase'[lock'.manager] # "new"
      <3>1. CASE lock' = lock
        <4>1. lock.manager \in Managers /\ phase[lock.manager] # "new"
          BY <1>1, <2>5, <3>1 DEF Types, Lock, Handles
        <4> QED
          BY <1>1, <2>1, <3>1, <4>1 DEF Types
      <3>2. CASE lock' # lock
        <4>1. lock # None /\ lock' = [lock EXCEPT !.manager = m, !.held = FALSE]
          BY <1>9, <3>2 DEF Start
        <4>2. lock'.manager = m
          BY <1>1, <4>1 DEF Types, Lock
        <4> QED
          BY <1>1, <2>1, <4>2 DEF Types
      <3> QED
        BY <3>1, <3>2
    <2> QED
      BY <2>3, <2>4, <2>5 DEF Handles
  <1>10. ASSUME NEW m \in Managers, Shutdown(m) \/ Kill(m)
         PROVE  Handles'
    <2>1. phase[m] \in Living /\ Ends(m)
      BY <1>10 DEF Shutdown, Kill, Lives, Living
    <2>2. \A n \in Managers : /\ phase'[n] = IF n = m THEN "dead" ELSE phase[n]
                              /\ handle'[n] = IF n = m THEN None ELSE handle[n]
      BY <1>1, <2>1 DEF Ends, Types
    <2>3. \A n \in Managers : handle'[n] = None /\ phase'[n] \notin Living
      BY <1>1, <2>1, <2>2 DEF Handles, OneLife, Living
    <2>4. \A th \in Threads : call'[th].at = "idle"
      <3> SUFFICES ASSUME NEW th \in Threads PROVE call'[th].at = "idle"
        OBVIOUS
      <3>1. CASE call[th].m = m
        BY <1>1, <2>1, <3>1, EndsGoes DEF Idle
      <3>2. CASE call[th].m # m
        <4>1. call[th].at = "idle"
          BY <1>1, <2>1, <3>2, CallerFacts DEF OneLife
        <4> QED
          BY <1>1, <2>1, <3>2, <4>1, EndsGoes
      <3> QED
        BY <3>1, <3>2
    <2>5. ASSUME lock' # None
          PROVE  lock # None /\ lock'.manager = lock.manager /\ lock.manager \in Managers
      <3>1. lock' = lock \/ (lock # None /\ lock' = [lock EXCEPT !.held = TRUE])
        BY <1>10, <2>5 DEF Shutdown, Kill, Unlocked, files
      <3> QED
        BY <1>1, <2>5, <3>1 DEF Types, Lock
    <2>6. lock' # None => phase'[lock'.manager] # "new"
      BY <2>2, <2>5 DEF Handles
    <2> QED
      BY <2>3, <2>4, <2>6 DEF Handles
  <1>11. CASE UNCHANGED vars
    BY <1>11 DEF vars, files, memory, Handles, Unserved, Serves
  <1> QED
    BY <1>2, <1>3, <1>5, <1>6, <1>7, <1>8, <1>9, <1>10, <1>11, StepHandles DEF Next

LEMMA HandlesHold == ASSUME OnePort PROVE Spec => []Handles
  <1>1. Init => Handles
    BY ManagerAssumption DEF Init, Handles, Idle
  <1>2. Alive /\ Handles /\ [Next]_vars => Handles'
    BY HandlesStep
  <1> QED
    BY <1>1, <1>2, AliveHolds, PTL DEF Spec

\* While a manager serves, a worker it holds that runs serves the project of the
\* activation the manager holds, if two managers never run at once; values have
\* their types.
THEOREM HandleMatchesActivation == ASSUME OnePort PROVE Spec => []ServesActive
  <1>1. Base /\ Handles /\ TypeOK => ServesActive
    BY DEF Handles, ServesActive, Quiet, Running, Living
  <1> QED
    BY <1>1, BaseHolds, HandlesHold, TypesHold, PTL

(***************************************************************************)
(* Entries of the list that are being registered, and those that are read. *)
(***************************************************************************)
Registers(th) == call[th].at \in {"load", "save"} /\ call[th].kind = "register"
Reads(th) == call[th].at \in {"save", "touched"}

\* A project that is being registered was never on the list, nor open.
Newcomers ==
    /\ lock # None => lock.project \in issued
    /\ \A th \in Threads : Registers(th) =>
          /\ call[th].p \notin listed
          /\ lock # None => lock.project # call[th].p
          /\ \A o \in Threads : Reads(o) => call[th].p \notin call[o].view
    /\ \A a, b \in Threads : Registers(a) /\ Registers(b) /\ call[a].p = call[b].p => a = b

\* What a step of a call does to the list and to what was read of it.
LEMMA ListStep ==
    ASSUME Base, NEW th \in Threads, Step(th)
    PROVE  /\ Alone(th) /\ issued' = issued
           /\ Registers(th)' => Registers(th) /\ call'[th].p = call[th].p
           /\ Reads(th)' => call'[th].view = listed
           /\ \/ listed' = listed
              \/ call[th].at = "touched" /\ listed' = call[th].view
              \/ /\ call[th].at = "save" /\ call'[th] = Idle
                 /\ \/ listed' = call[th].view \ {call[th].p}
                    \/ Registers(th) /\ listed' = call[th].view \cup {call[th].p}
  <1>1. issued' = issued
    BY DEF Step, Enter, Begin, Clear, Look, Switch, Activate, Touch, Touched, Spawn, Fails, Opens,
           BeginResume, Reuse, FinishResume, BeginPause, FinishPause, Close, Release, Load, Save
  <1>2. CASE Touch(th)
    BY <1>1, <1>2, TouchGoes DEF Touch, files, Goes, Idle, Registers, Reads
  <1>3. CASE Load(th)
    <2>1. listed' = listed
      BY <1>3 DEF Load, files
    <2> QED
      BY <1>1, <1>3, <2>1, LoadGoes DEF Idle, Registers, Reads
  <1>4. CASE Save(th)
    <2>1. call[th].at = "save" /\ Alone(th) /\ call'[th] = Idle
          /\ call[th].kind \in {"register", "delete"}
      BY <1>4, SaveGoes DEF Base, Callers
    <2>2. listed' = IF call[th].kind = "delete" THEN call[th].view \ {call[th].p}
                                                ELSE call[th].view \cup {call[th].p}
      BY <1>4 DEF Save
    <2> QED
      BY <1>1, <2>1, <2>2 DEF Registers, Reads, Idle
  <1>5. CASE Touched(th)
    <2>1. call[th].at = "touched" /\ Goes(th, {"spawn"}) /\ listed' = call[th].view
      BY <1>5, StepGoes DEF Touched
    <2> QED
      BY <1>1, <2>1 DEF Goes, Registers, Reads
  <1>6. CASE Release(th)
    <2>1. listed' = listed
      BY <1>6 DEF Release
    <2>2. Goes(th, {"load", "idle"}) /\ call[th].at = "release" /\ call[th].kind # "register"
      BY <1>6, StepGoes DEF Base, Callers
    <2> QED
      BY <1>1, <2>1, <2>2 DEF Goes, Idle, Registers, Reads
  <1>7. CASE \/ Enter(th) \/ Begin(th) \/ Clear(th) \/ Look(th) \/ Switch(th) \/ Activate(th)
             \/ Spawn(th) \/ Fails(th) \/ Opens(th) \/ BeginResume(th)
             \/ Reuse(th) \/ FinishResume(th) \/ BeginPause(th) \/ FinishPause(th) \/ Close(th)
    <2>1. PICK places \in SUBSET (Places \ {"load", "save", "touched"}) : Goes(th, places)
      BY <1>7, StepGoes, EnterGoes, BeginResumeGoes DEF Places, Inside
    <2>2. listed' = listed
      BY <1>7 DEF Enter, Begin, Clear, Look, Switch, Activate, Spawn, Fails, Opens, BeginResume,
             Reuse, FinishResume, BeginPause, FinishPause, Close, files
    <2> QED
      BY <1>1, <2>1, <2>2 DEF Goes, Idle, Registers, Reads
  <1> QED
    BY <1>2, <1>3, <1>4, <1>5, <1>6, <1>7 DEF Step

\* A call opens only what is on the list.
LEMMA LockStep ==
    ASSUME Base, NEW th \in Threads, Step(th), lock' # None
    PROVE  lock' = lock \/ (lock'.project \in listed /\ listed' = listed)
  <1>1. CASE Activate(th)
    <2>1. CASE lock' = lock
      BY <2>1
    <2>2. CASE lock' # lock
      BY <1>1, <2>2 DEF Activate
    <2> QED
      BY <2>1, <2>2
  <1>2. CASE Reuse(th)
    BY <1>2 DEF Reuse
  <1>3. CASE Look(th) \/ Switch(th) \/ Fails(th) \/ Release(th)
    BY <1>3 DEF Look, Reconciled, Switch, Fails, Release, Released
  <1>4. CASE \/ Enter(th) \/ Begin(th) \/ Clear(th) \/ Touch(th) \/ Touched(th) \/ Spawn(th)
             \/ Opens(th) \/ BeginResume(th) \/ FinishResume(th) \/ BeginPause(th)
             \/ FinishPause(th) \/ Close(th) \/ Load(th) \/ Save(th)
    BY <1>4 DEF Enter, Begin, Clear, Touch, Touched, Spawn, Opens, BeginResume, FinishResume,
           BeginPause, FinishPause, Close, Load, Save, files
  <1> QED
    BY <1>1, <1>2, <1>3, <1>4 DEF Step

LEMMA NewcomersStep ==
    ASSUME Base, Registered, Newcomers, [Next]_vars
    PROVE  Newcomers'
  <1>1. Types
    BY DEF Base
  <1>2. ASSUME NEW th \in Threads, Step(th)
        PROVE  Newcomers'
    <2>1. /\ Alone(th) /\ issued' = issued
          /\ Registers(th)' => Registers(th) /\ call'[th].p = call[th].p
          /\ Reads(th)' => call'[th].view = listed
          /\ \/ listed' = listed
             \/ call[th].at = "touched" /\ listed' = call[th].view
             \/ /\ call[th].at = "save" /\ call'[th] = Idle
                /\ \/ listed' = call[th].view \ {call[th].p}
                   \/ Registers(th) /\ listed' = call[th].view \cup {call[th].p}
      BY <1>2, ListStep
    <2>2. ASSUME NEW a \in Threads, Registers(a)'
          PROVE  Registers(a) /\ call'[a].p = call[a].p
      BY <2>1, <2>2 DEF Alone, Registers
    <2>3. ASSUME NEW a \in Threads, Registers(a)'
          PROVE  call'[a].p \notin listed'
      <3>1. Registers(a) /\ call'[a].p = call[a].p
        BY <2>2, <2>3
      <3>2. CASE listed' = listed
        BY <3>1, <3>2 DEF Newcomers
      <3>3. CASE call[th].at = "touched" /\ listed' = call[th].view
        BY <3>1, <3>3 DEF Newcomers, Reads
      <3>4. CASE call[th].at = "save" /\ call'[th] = Idle
        <4>1. a # th
          BY <2>3, <3>4 DEF Registers, Idle
        <4> QED
          BY <2>1, <3>1, <3>4, <4>1 DEF Newcomers, Reads
      <3> QED
        BY <2>1, <3>2, <3>3, <3>4
    <2>4. ASSUME NEW a \in Threads, Registers(a)', lock' # None
          PROVE  lock'.project # call'[a].p
      BY <1>2, <2>2, <2>4, LockStep DEF Newcomers
    <2>5. ASSUME NEW a \in Threads, Registers(a)', NEW o \in Threads, Reads(o)'
          PROVE  call'[a].p \notin call'[o].view
      <3>1. Registers(a) /\ call'[a].p = call[a].p
        BY <2>2, <2>5
      <3>2. call'[o].view = listed \/ (Reads(o) /\ call'[o].view = call[o].view)
        BY <2>1, <2>5 DEF Alone, Reads
      <3> QED
        BY <3>1, <3>2 DEF Newcomers
    <2>6. lock' # None => lock'.project \in issued'
      BY <1>2, <2>1, LockStep DEF Newcomers, Registered
    <2> QED
      BY <2>2, <2>3, <2>4, <2>5, <2>6 DEF Newcomers
  <1>3. ASSUME NEW th \in Threads, NEW m \in Managers, NEW kind \in AllKinds, NEW p \in Projects,
               Request(th, m, kind, p)
        PROVE  Newcomers'
    <2>1. /\ listed' = listed /\ lock' = lock /\ issued \subseteq issued'
          /\ kind = "register" => p \notin issued
      BY <1>3 DEF Request, files
    <2>2. /\ Alone(th) /\ call'[th].at \in {"lock", "load"} /\ call'[th].kind = kind
          /\ call'[th].p = p
      BY <1>3, RequestGoes
    <2>3. ASSUME NEW a \in Threads, Registers(a)'
          PROVE  \/ a # th /\ Registers(a) /\ call'[a] = call[a]
                 \/ a = th /\ call'[a].p \notin issued
      BY <2>1, <2>2, <2>3 DEF Alone, Registers
    <2>4. ASSUME NEW o \in Threads, Reads(o)'
          PROVE  Reads(o) /\ call'[o] = call[o] /\ call[o].view \subseteq issued
      BY <2>2, <2>4 DEF Alone, Reads, Registered
    <2>5. ASSUME NEW a \in Threads, Registers(a)
          PROVE  call[a].p \in issued
      BY <2>5 DEF Registers, Registered
    <2> QED
      BY <2>1, <2>3, <2>4, <2>5 DEF Newcomers, Registered
  <1>4. ASSUME issued' = issued, listed' = listed,
               lock' = None \/ (lock # None /\ lock'.project = lock.project),
               \A th \in Threads : call'[th] = call[th] \/ call'[th] = Idle
        PROVE  Newcomers'
    <2>1. \A th \in Threads : /\ Registers(th)' => Registers(th) /\ call'[th] = call[th]
                              /\ Reads(th)' => Reads(th) /\ call'[th] = call[th]
      BY <1>4 DEF Registers, Reads, Idle
    <2> QED
      BY <1>4, <2>1 DEF Newcomers
  <1>5. ASSUME NEW m \in Managers, Own(m)
        PROVE  Newcomers'
    <2>1. listed' = listed /\ issued' = issued
      BY <1>5 DEF Own, Reconcile, Glance, AfterGlance, Start, Terminate, Shutdown, Kill, files
    <2>2. \A th \in Threads : call'[th] = call[th] \/ call'[th] = Idle
      <3>1. CASE Ends(m)
        BY <3>1, EndsGoes
      <3>2. CASE ~Ends(m)
        BY <1>5, <3>2 DEF Own, Reconcile, Glance, AfterGlance, Start, Terminate, Shutdown, Kill
      <3> QED
        BY <3>1, <3>2
    <2>3. \/ lock' = lock \/ lock' = None
          \/ lock # None /\ (\/ lock' = [lock EXCEPT !.manager = m, !.held = FALSE]
                             \/ lock' = [lock EXCEPT !.held = TRUE])
      BY <1>5 DEF Own, Reconcile, Reconciled, Glance, AfterGlance, Start, Terminate, Shutdown, Kill,
             Unlocked, files
    <2>4. lock' = None \/ (lock # None /\ lock'.project = lock.project)
      <3>1. ASSUME lock # None
            PROVE  /\ [lock EXCEPT !.manager = m, !.held = FALSE].project = lock.project
                   /\ [lock EXCEPT !.held = TRUE].project = lock.project
        BY <1>1, <3>1 DEF Types, Lock
      <3>2. CASE lock # None
        <4>1. lock' = None \/ lock'.project = lock.project
          <5>1. CASE lock' = [lock EXCEPT !.manager = m, !.held = FALSE]
            BY <3>1, <3>2, <5>1
          <5>2. CASE lock' = [lock EXCEPT !.held = TRUE]
            BY <3>1, <3>2, <5>2
          <5> QED
            BY <2>3, <5>1, <5>2
        <4> QED
          BY <3>2, <4>1
      <3>3. CASE lock = None
        BY <2>3, <3>3
      <3> QED
        BY <3>2, <3>3
    <2> QED
      BY <1>4, <2>1, <2>2, <2>4
  <1>6. ASSUME NEW w \in Workers, Bind(w) \/ Dies(w)
        PROVE  Newcomers'
    BY <1>4, <1>6 DEF Bind, Dies, files
  <1>7. CASE UNCHANGED vars
    BY <1>4, <1>7 DEF vars, files
  <1> QED
    BY <1>2, <1>3, <1>5, <1>6, <1>7 DEF Next, Own

(***************************************************************************)
(* An activation without a worker.                                         *)
(***************************************************************************)
\* An activation that no worker serves, no call is about to serve or to give up,
\* and its manager did not find when it started.
Left ==
    /\ lock # None /\ phase[lock.manager] = "serving" /\ handle[lock.manager] = None
    /\ inherited[lock.manager] # lock.project
    /\ \A th \in Threads :
        call[th].at \in {"touch", "touched", "spawn", "release"} => call[th].p # lock.project

\* The list is not changed by a call while two others are in flight.
FewAtOnce ==
    \/ \A a, b, c \in Threads : a = b \/ b = c \/ a = c
    \/ Kinds \cap {"register", "delete"} = {}

\* Its project is off the list, and nothing that was read of the list brings it
\* back; nor does it bring back that of a call that activated it meanwhile.
Leftovers ==
    /\ Left => /\ lock.project \notin listed
               /\ \A th \in Threads : Reads(th) => lock.project \notin call[th].view
    /\ \A th \in Threads : call[th].at = "touch" /\ call[th].p \notin listed =>
          \A o \in Threads : o # th /\ Reads(o) => call[th].p \notin call[o].view

\* Only a call that finds its project off the list leaves its activation.
LEMMA StepLeft ==
    ASSUME Alive, Handles, NEW th \in Threads, Step(th), Left'
    PROVE  /\ lock' = lock
           /\ \/ Left
              \/ /\ Touch(th) /\ call[th].p \notin listed /\ call'[th].at = "idle"
                 /\ lock.project = call[th].p
  <1>1. Base /\ Types
    BY DEF Alive, Base
  <1>2. phase' = phase /\ inherited' = inherited
    BY DEF Step, Enter, Begin, Clear, Look, Switch, Activate, Touch, Touched, Spawn, Fails, Opens,
           BeginResume, Reuse, FinishResume, BeginPause, FinishPause, Close, Release, Load, Save,
           ghosts
  <1>3. lock' # None /\ handle'[lock'.manager] = None /\ phase[lock'.manager] = "serving"
    BY <1>2 DEF Left
  <1>4. lock'.manager \in Managers
    BY <1>1, <1>3, StepTypes DEF Types, Lock
  <1>5. CASE call[th].at \notin Inside
    <2>1. lock' = lock /\ handle' = handle /\ Alone(th)
      BY <1>1, <1>5, OutsideStep, ListStep
    <2> QED
      BY <1>2, <1>5, <2>1 DEF Left, Alone, Inside
  <1>6. CASE call[th].at \in Inside
    <2> DEFINE m == call[th].m
               p == call[th].p
    <2>1. /\ m \in Managers /\ phase[m] \in Living /\ p \in Projects
          /\ \A n \in Managers : n # m => phase[n] \notin Living
          /\ \A o \in Threads : o # th => call[o].at \notin Inside
      BY <1>1, <1>6, OthersOutside, CallerFacts DEF Inside
    <2>2. lock'.manager = m /\ handle'[m] = None
      BY <1>3, <1>4, <2>1 DEF Living
    <2>3. handle[m] # None => /\ handle[m] \in Workers /\ lock # None /\ lock.manager = m
                              /\ lock.project = worker[handle[m]].project
                              /\ Active /\ IsActive(worker[handle[m]].project)
      BY <1>1, <2>1 DEF Handles, Types, Active, IsActive, Lives, Living
    <2>4. ASSUME lock' = lock, handle'[m] = handle[m],
                 call[th].at \in {"touch", "touched", "spawn", "release"} => p # lock.project
          PROVE  Left
      BY <1>2, <1>3, <2>1, <2>2, <2>4 DEF Left, Inside
    <2>5. \A there : call'[th].at = there /\ call'[th].p = p
             /\ there \in {"touch", "touched", "spawn", "release"} => p # lock'.project
      BY DEF Left
    <2>6. CASE Touch(th)
      <3>1. lock' = lock /\ handle' = handle /\ call[th].at = "touch"
        BY <1>1, <2>6, TouchGoes DEF Touch, files
      <3>2. lock.project = p
        BY <3>1 DEF Handles
      <3> QED
        BY <1>1, <2>5, <2>6, <3>1, <3>2, TouchGoes DEF Goes, Idle
    <2>7. CASE Touched(th)
      <3>1. lock' = lock /\ call[th].at = "touched" /\ call'[th].at = "spawn" /\ call'[th].p = p
        BY <1>1, <2>7, StepGoes DEF Touched, Goes, Idle
      <3>2. lock.project = p
        BY <3>1 DEF Handles
      <3> QED
        BY <2>5, <3>1, <3>2
    <2>8. CASE Look(th)
      <3>1. call[th].at = "look" /\ Reconciled(m)
        BY <1>1, <2>8, StepGoes DEF Look
      <3>2. lock' = lock /\ handle' = handle
        BY <1>3, <2>3, <3>1 DEF Reconciled
      <3> QED
        BY <2>4, <3>1, <3>2
    <2>9. CASE Switch(th)
      <3>1. call[th].at = "switch" /\ lock' = lock /\ handle' = handle
        BY <1>1, <1>3, <2>9, StepGoes DEF Switch
      <3> QED
        BY <2>4, <3>1
    <2>10. CASE Activate(th)
      <3>1. call[th].at = "activate" /\ handle' = handle
        BY <1>1, <2>10, StepGoes DEF Activate
      <3>2. CASE lock' = lock
        BY <2>4, <3>1, <3>2
      <3>3. CASE lock' # lock
        <4>1. Go(th, "touch") /\ lock' = [manager |-> m, project |-> p, held |-> FALSE]
          BY <2>10, <3>3 DEF Activate
        <4>2. call'[th].at = "touch" /\ call'[th].p = p
          BY <1>1, <4>1, GoGoes DEF Types, Goes, Places, Inside
        <4> QED
          BY <2>5, <4>1, <4>2
      <3> QED
        BY <3>2, <3>3
    <2>11. CASE Spawn(th)
      <3>1. PICK w \in Workers : handle' = [handle EXCEPT ![m] = w]
        BY <2>11 DEF Spawn
      <3>2. handle'[m] # None
        BY <1>1, <2>1, <3>1, ManagerAssumption DEF Types
      <3> QED
        BY <2>2, <3>2
    <2>12. CASE Fails(th)
      <3>1. call[th].at = "wait" /\ lock' = Released(p)
        BY <1>1, <2>12, StepGoes DEF Fails
      <3>2. lock = None \/ lock.project = p
        BY <3>1 DEF Handles
      <3> QED
        BY <1>3, <3>1, <3>2 DEF Released, Unlocked
    <2>13. CASE Reuse(th)
      <3>1. call[th].at = "reuse"
        BY <1>1, <2>13, StepGoes
      <3>2. lock' = lock
        BY <1>3, <2>13 DEF Reuse
      <3>3. handle'[m] = handle[m]
        <4>1. CASE handle[m] = None
          BY <2>2, <4>1
        <4>2. CASE handle[m] # None
          <5>1. Running(handle[m])
            BY <1>3, <2>3, <2>13, <4>2 DEF Reuse
          <5> QED
            BY <1>1, <2>1, <2>13, <4>2, <5>1 DEF Reuse, Types
        <4> QED
          BY <4>1, <4>2
      <3> QED
        BY <2>4, <3>1, <3>2, <3>3
    <2>14. CASE Close(th)
      <3>1. call[th].at = "close" /\ call'[th].at = "release" /\ call'[th].p = p /\ lock' = lock
        BY <1>1, <2>14, StepGoes DEF Close, files, Goes, Idle
      <3>2. p # lock.project
        BY <2>5, <3>1
      <3>3. handle' = handle
        BY <2>3, <2>14, <3>2 DEF Close, Serves
      <3> QED
        BY <2>4, <3>1, <3>3
    <2>15. CASE Release(th)
      <3>1. lock' = Released(p) /\ handle' = handle
        BY <2>15 DEF Release
      <3>2. lock' = lock /\ p # lock.project
        BY <1>3, <3>1 DEF Released, Unlocked
      <3> QED
        BY <2>4, <3>1, <3>2
    <2>16. CASE \/ Begin(th) \/ Clear(th) \/ Opens(th) \/ BeginResume(th) \/ FinishResume(th)
                \/ BeginPause(th) \/ FinishPause(th)
      <3>1. call[th].at \in {"begin", "clear", "wait", "resume", "finish", "pause", "paused"}
        BY <1>1, <2>16, StepGoes, BeginResumeGoes
      <3>2. handle' = handle /\ lock' = lock
        BY <2>16 DEF Begin, Clear, Opens, BeginResume, FinishResume, BeginPause, FinishPause, files
      <3> QED
        BY <2>4, <3>1, <3>2
    <2>17. ~Enter(th) /\ ~Load(th) /\ ~Save(th)
      BY <1>1, <1>6, EnterGoes, LoadGoes, SaveGoes DEF Inside
    <2> QED
      BY <2>6, <2>7, <2>8, <2>9, <2>10, <2>11, <2>12, <2>13, <2>14, <2>15, <2>16, <2>17 DEF Step
  <1> QED
    BY <1>5, <1>6

\* Outside the program text of the calls nothing leaves an activation.
LEMMA OtherLeft ==
    ASSUME OnePort, Alive, Handles, Left',
           \/ \E m \in Managers : Own(m)
           \/ \E w \in Workers : Bind(w) \/ Dies(w)
           \/ \E th \in Threads, m \in Managers, kind \in AllKinds, p \in Projects :
                Request(th, m, kind, p)
    PROVE  Left /\ lock' = lock /\ listed' = listed /\ \A th \in Threads : Reads(th)' =>
                                        Reads(th) /\ call'[th].view = call[th].view
  <1>1. Base /\ Types /\ OneLife
    BY DEF Alive, Base
  <1>2. CASE \E th \in Threads, m \in Managers, kind \in AllKinds, p \in Projects :
                Request(th, m, kind, p)
    <2>1. PICK th \in Threads, m \in Managers, kind \in AllKinds, p \in Projects :
             Request(th, m, kind, p)
      BY <1>2
    <2>2. call[th] = Idle /\ Alone(th) /\ call'[th].at \in {"lock", "load"}
      BY <1>1, <2>1, RequestGoes
    <2>3. lock' = lock /\ phase' = phase /\ handle' = handle /\ inherited' = inherited
          /\ listed' = listed
      BY <2>1 DEF Request, files
    <2> QED
      BY <2>2, <2>3 DEF Left, Alone, Idle, Reads
  <1>3. CASE \E w \in Workers : Bind(w) \/ Dies(w)
    BY <1>3 DEF Bind, Dies, Left, Reads, files, memory, ghosts
  <1>4. ASSUME NEW m \in Managers, handle[m] # None
        PROVE  IsActive(worker[handle[m]].project)
    BY <1>4 DEF Handles, IsActive, Active, Lives, Living
  <1>5. ASSUME NEW m \in Managers, Reconcile(m) \/ Glance(m) \/ AfterGlance(m)
        PROVE  /\ Left /\ lock' = lock /\ listed' = listed
               /\ \A th \in Threads : Reads(th)' => Reads(th) /\ call'[th].view = call[th].view
    <2>1. lock' = lock /\ handle' = handle
      BY <1>1, <1>4, <1>5 DEF Left, Reconcile, Reconciled, Glance, AfterGlance, files, Types
    <2>2. call' = call /\ phase' = phase /\ inherited' = inherited /\ listed' = listed
      BY <1>5 DEF Reconcile, Glance, AfterGlance, ghosts, files
    <2> QED
      BY <2>1, <2>2 DEF Left, Reads
  <1>6. ASSUME NEW m \in Managers, Start(m)
        PROVE  FALSE
    <2>1. \A n \in Managers : phase[n] \notin Living
      BY <1>6 DEF Start, OnePort, Lives, Living
    <2>2. phase' = [phase EXCEPT ![m] = "serving"]
      BY <1>6 DEF Start
    <2>3. lock' # None /\ phase'[lock'.manager] = "serving"
          /\ inherited'[lock'.manager] # lock'.project
      BY DEF Left
    <2>4. CASE lock' = lock
      <3>1. lock.manager \in Managers /\ phase[lock.manager] # "new"
        BY <1>1, <2>3, <2>4 DEF Types, Lock, Handles
      <3>2. phase'[lock.manager] = phase[lock.manager]
        BY <1>1, <1>6, <2>2, <3>1 DEF Start, Types
      <3> QED
        BY <2>1, <2>3, <2>4, <3>1, <3>2 DEF Living
    <2>5. CASE lock' # lock
      <3>1. lock # None /\ lock' = [lock EXCEPT !.manager = m, !.held = FALSE]
            /\ inherited' = [inherited EXCEPT ![m] = lock.project]
        BY <1>6, <2>5 DEF Start
      <3>2. lock'.manager = m /\ lock'.project = lock.project
        BY <1>1, <3>1 DEF Types, Lock
      <3> QED
        BY <1>1, <2>3, <3>1, <3>2 DEF Types
    <2> QED
      BY <2>4, <2>5
  <1>7. ASSUME NEW m \in Managers, Terminate(m) \/ Shutdown(m) \/ Kill(m)
        PROVE  FALSE
    <2>1. phase[m] \in Living
          /\ (phase' = [phase EXCEPT ![m] = "stopping"] \/ phase' = [phase EXCEPT ![m] = "dead"])
      BY <1>7 DEF Terminate, Shutdown, Kill, Ends, Lives, Living
    <2>2. \A n \in Managers : phase'[n] # "serving"
      BY <1>1, <2>1 DEF OneLife, Types, Living
    <2>3. lock'.manager \in Managers
      <3>1. Types'
        BY <1>1, <1>7, OwnTypes DEF Own
      <3> QED
        BY <3>1 DEF Left, Types, Lock
    <2> QED
      BY <2>2, <2>3 DEF Left
  <1> QED
    BY <1>2, <1>3, <1>5, <1>6, <1>7 DEF Own

LEMMA LeftoversStep ==
    ASSUME OnePort, FewAtOnce, Alive, Handles, Newcomers, Leftovers, [Next]_vars
    PROVE  Leftovers'
  <1>1. Base /\ Types /\ Callers
    BY DEF Alive, Base
  <1>2. ASSUME NEW th \in Threads, Step(th)
        PROVE  Leftovers'
    <2>1. /\ Alone(th)
          /\ Reads(th)' => call'[th].view = listed
          /\ \/ listed' = listed
             \/ call[th].at = "touched" /\ listed' = call[th].view
             \/ /\ call[th].at = "save" /\ call'[th] = Idle
                /\ \/ listed' = call[th].view \ {call[th].p}
                   \/ Registers(th) /\ listed' = call[th].view \cup {call[th].p}
      BY <1>1, <1>2, ListStep
    <2>2. ASSUME NEW o \in Threads, Reads(o)'
          PROVE  call'[o].view = listed \/ (o # th /\ Reads(o) /\ call'[o].view = call[o].view)
      BY <2>1, <2>2 DEF Alone, Reads
    <2>3. ASSUME Left'
          PROVE  /\ lock'.project \notin listed'
                 /\ \A o \in Threads : Reads(o)' => lock'.project \notin call'[o].view
      <3>1. CASE Left
        <4>1. /\ lock' = lock /\ lock # None /\ lock.project \notin listed
              /\ \A o \in Threads : Reads(o) => lock.project \notin call[o].view
          BY <1>2, <2>3, <3>1, StepLeft DEF Left, Leftovers
        <4>2. Registers(th) => lock.project # call[th].p
          BY <4>1 DEF Newcomers
        <4>3. lock.project \notin listed'
          BY <2>1, <4>1, <4>2 DEF Reads
        <4> QED
          BY <2>2, <4>1, <4>3
      <3>2. CASE ~Left
        <4>1. /\ Touch(th) /\ call[th].p \notin listed /\ call'[th].at = "idle"
              /\ lock.project = call[th].p /\ lock' = lock
          BY <1>2, <2>3, <3>2, StepLeft
        <4>2. call[th].at = "touch" /\ listed' = listed
          BY <1>1, <4>1, TouchGoes DEF Touch, files
        <4>3. \A o \in Threads : o # th /\ Reads(o) => lock.project \notin call[o].view
          BY <4>1, <4>2 DEF Leftovers
        <4> QED
          BY <2>2, <4>1, <4>2, <4>3
      <3> QED
        BY <3>1, <3>2
    <2>4. ASSUME NEW a \in Threads, call'[a].at = "touch", call'[a].p \notin listed',
                 NEW o \in Threads, o # a, Reads(o)'
          PROVE  call'[a].p \notin call'[o].view
      <3>1. CASE a = th
        <4>1. Activate(th) /\ Goes(th, {"touch", "idle"}) /\ call[th].at = "activate"
          <5>1. CASE Enter(th)
            BY <1>1, <2>4, <3>1, <5>1, EnterGoes DEF Goes, Idle
          <5>2. CASE Touch(th) \/ Load(th) \/ Save(th) \/ BeginResume(th)
            BY <1>1, <2>4, <3>1, <5>2, TouchGoes, LoadGoes, SaveGoes, BeginResumeGoes
               DEF Goes, Idle
          <5> QED
            BY <1>1, <1>2, <2>4, <3>1, <5>1, <5>2, StepGoes DEF Step, Goes, Idle
        <4>2. call[th].p \in listed /\ listed' = listed
          <5>1. ~Return(th)
            <6>1. Return(th) => call'[th].at = "idle"
              BY <1>1, ReturnGoes DEF Types, Goes, Idle
            <6> QED
              BY <2>4, <3>1, <6>1
          <5> QED
            BY <4>1, <5>1 DEF Activate
        <4> QED
          BY <2>4, <3>1, <4>1, <4>2 DEF Goes, Idle
      <3>2. CASE a # th
        <4>1. call'[a] = call[a] /\ call[a].at = "touch"
          BY <2>1, <2>4, <3>2 DEF Alone
        <4>2. call[th].at \notin Inside
          BY <3>2, <4>1, OthersOutside DEF Inside
        <4>3. call'[o].view = listed \/ (o # th /\ Reads(o) /\ call'[o].view = call[o].view)
          BY <2>2, <2>4
        <4>4. CASE listed' = listed
          BY <2>4, <4>1, <4>3, <4>4 DEF Leftovers
        <4>5. CASE call[th].at = "save" /\ call'[th] = Idle
          <5>1. o # th
            BY <2>4, <4>5 DEF Reads, Idle
          <5>2. call[th].kind \in {"register", "delete"} /\ call[th].kind \in Kinds
            BY <1>1, <4>5 DEF Callers
          <5>3. FALSE
            BY <2>4, <3>2, <5>1, <5>2 DEF FewAtOnce
          <5> QED
            BY <5>3
        <4> QED
          BY <2>1, <4>2, <4>4, <4>5 DEF Inside
      <3> QED
        BY <3>1, <3>2
    <2> QED
      BY <2>3, <2>4 DEF Leftovers
  <1>3. ASSUME listed' = listed,
               \A th \in Threads : \/ call'[th].at \notin {"touch", "touched", "save"}
                                   \/ call'[th] = call[th],
               Left' => Left /\ lock' = lock
        PROVE  Leftovers'
    <2>1. \A th \in Threads : /\ Reads(th)' => Reads(th) /\ call'[th] = call[th]
                              /\ call'[th].at = "touch" => call'[th] = call[th]
      BY <1>3 DEF Reads
    <2> QED
      BY <1>3, <2>1 DEF Leftovers
  <1>4. ASSUME NEW th \in Threads, NEW m \in Managers, NEW kind \in AllKinds, NEW p \in Projects,
               Request(th, m, kind, p)
        PROVE  Leftovers'
    <2>1. Alone(th) /\ call'[th].at \in {"lock", "load"}
      BY <1>1, <1>4, RequestGoes
    <2>2. listed' = listed
      BY <1>4 DEF Request, files
    <2>3. Left' => Left /\ lock' = lock
      BY <1>4, OtherLeft
    <2> QED
      BY <1>3, <2>1, <2>2, <2>3 DEF Alone
  <1>5. ASSUME NEW m \in Managers, Own(m)
        PROVE  Leftovers'
    <2>1. listed' = listed
      BY <1>5 DEF Own, Reconcile, Glance, AfterGlance, Start, Terminate, Shutdown, Kill, files
    <2>2. \A th \in Threads : call'[th] = call[th] \/ call'[th] = Idle
      <3>1. CASE Ends(m)
        BY <1>1, <3>1, EndsGoes
      <3>2. CASE ~Ends(m)
        BY <1>5, <3>2 DEF Own, Reconcile, Glance, AfterGlance, Start, Terminate, Shutdown, Kill
      <3> QED
        BY <3>1, <3>2
    <2>3. Left' => Left /\ lock' = lock
      BY <1>5, OtherLeft
    <2> QED
      BY <1>3, <2>1, <2>2, <2>3 DEF Idle
  <1>6. ASSUME NEW w \in Workers, Bind(w) \/ Dies(w)
        PROVE  Leftovers'
    BY <1>3, <1>6, OtherLeft DEF Bind, Dies, files
  <1>7. CASE UNCHANGED vars
    BY <1>7 DEF vars, files, memory, ghosts, Leftovers, Left, Reads
  <1> QED
    BY <1>2, <1>4, <1>5, <1>6, <1>7 DEF Next, Own

\* Between the calls no activation of a listed project is left without a worker
\* but the one its manager found when it started, if two managers never run at
\* once, and either two requests at most are in flight or none changes the list.
THEOREM NoneLeftActive ==
    ASSUME OnePort, FewAtOnce
    PROVE  Spec => []ActivationServed
  <1>1. Init => Newcomers /\ Leftovers
    BY ManagerAssumption DEF Init, Newcomers, Leftovers, Left, Registers, Reads, Idle
  <1>2. Base /\ Registered /\ Newcomers /\ [Next]_vars => Newcomers'
    BY NewcomersStep
  <1>3. Alive /\ Handles /\ Newcomers /\ Leftovers /\ [Next]_vars => Leftovers'
    BY LeftoversStep
  <1>4. Init => Registered
    BY DEF Init, Registered, Idle
  <1>5. Base /\ Base' /\ Registered /\ [Next]_vars => Registered'
    BY RegisteredStep
  <1>6. Alive /\ Leftovers => ActivationServed
    <2> SUFFICES ASSUME Alive, Leftovers, NEW m \in Managers,
                        Quiet(m), Active, lock.manager = m, lock.project \in listed,
                        handle[m] = None
                 PROVE  inherited[m] = lock.project
      BY DEF ActivationServed
    <2>1. ~Left
      BY DEF Leftovers
    <2>2. phase[m] = "serving" /\ lifecycle[m] = None /\ lock # None
      BY DEF Quiet, Active
    <2>3. ASSUME NEW th \in Threads, call[th].at \in Inside
          PROVE  FALSE
      <3>1. call[th].m = m /\ lifecycle[call[th].m] = th
        BY <2>2, <2>3, OthersOutside DEF Alive, Holders, Living
      <3> QED
        BY <2>2, <3>1, ManagerAssumption
    <2> QED
      BY <2>1, <2>2, <2>3 DEF Left, Inside
  <1> QED
    BY <1>1, <1>2, <1>3, <1>4, <1>5, <1>6, BaseHolds, AliveHolds, HandlesHold, PTL DEF Spec

(***************************************************************************)
(* The paused project that stays open.                                     *)
(***************************************************************************)
\* A project found paused and open is on the list and on its way to be held, or
\* held, and no call is in flight.
Standing ==
    standing # None =>
        /\ standing \in listed /\ Unlocked(standing)
        /\ \A th \in Threads : call[th].at = "idle"
        /\ \A m \in Managers : handle[m] = None
        /\ \/ lock.held /\ \A m \in Managers : phase[m] \notin Living
           \/ \E m \in Managers :
                phase[m] = "stopping" /\ closing[m] = [project |-> standing, keep |-> TRUE]

LEMMA StandingStep == ASSUME OnePort, Alive, Handles, Standing, [Next]_vars PROVE Standing'
  <1> USE ManagerAssumption
  <1>1. Base /\ Types /\ OneLife
    BY DEF Alive, Base
  <1>2. CASE UNCHANGED vars
    BY <1>2 DEF vars, files, memory, ghosts, Standing, Unlocked
  <1>3. ASSUME NEW th \in Threads, Step(th)
        PROVE  Standing'
    <2>1. call[th].at # "idle"
      BY <1>1, <1>3, StepGoes, EnterGoes, TouchGoes, LoadGoes, SaveGoes, BeginResumeGoes DEF Step
    <2>2. standing' = standing
      BY <1>3 DEF Step, Enter, Begin, Clear, Look, Switch, Activate, Touch, Touched, Spawn, Fails,
             Opens, BeginResume, Reuse, FinishResume, BeginPause, FinishPause, Close, Release, Load,
             Save, ghosts
    <2> QED
      BY <2>1, <2>2 DEF Standing
  <1>4. ASSUME NEW th \in Threads, NEW m \in Managers, NEW kind \in AllKinds, NEW p \in Projects,
               Request(th, m, kind, p)
        PROVE  Standing'
    <2>1. standing' = standing /\ phase[m] = "serving"
      BY <1>4 DEF Request
    <2>2. standing = None
      BY <1>1, <2>1 DEF Standing, OneLife, Living
    <2> QED
      BY <2>1, <2>2 DEF Standing
  <1>5. ASSUME NEW w \in Workers, Bind(w) \/ Dies(w)
        PROVE  Standing'
    <2>1. /\ standing' = standing /\ phase' = phase /\ closing' = closing /\ call' = call
          /\ listed' = listed /\ handle' = handle /\ lock' = lock
      BY <1>5 DEF Bind, Dies, files, memory, ghosts
    <2> QED
      BY <2>1 DEF Standing, Unlocked
  <1>6. ASSUME NEW m \in Managers, Reconcile(m) \/ Glance(m)
        PROVE  Standing'
    <2>1. standing' = standing /\ phase[m] = "serving"
      BY <1>6 DEF Reconcile, Glance, ghosts
    <2>2. standing = None
      BY <1>1, <2>1 DEF Standing, OneLife, Living
    <2> QED
      BY <2>1, <2>2 DEF Standing
  <1>7. ASSUME NEW m \in Managers, AfterGlance(m)
        PROVE  Standing'
    <2>1. /\ standing' = standing /\ phase' = phase /\ closing' = closing /\ call' = call
          /\ listed' = listed /\ handle' = [handle EXCEPT ![m] = None]
      BY <1>7 DEF AfterGlance, ghosts
    <2>2. handle[m] = None => lock' = lock
      BY <1>7 DEF AfterGlance
    <2> QED
      BY <1>1, <2>1, <2>2 DEF Standing, Unlocked, Types
  <1>8. ASSUME NEW m \in Managers, Start(m) \/ Kill(m)
        PROVE  Standing'
    <2>1. standing' = None
      BY <1>8 DEF Start, Kill
    <2> QED
      BY <2>1 DEF Standing
  <1>9. ASSUME NEW m \in Managers, Terminate(m)
        PROVE  Standing'
    <2> DEFINE p == IF handle[m] # None THEN worker[handle[m]].project
                    ELSE IF Active /\ lock.manager = m THEN lock.project ELSE None
    <2> DEFINE paused == p # None /\ p \in listed /\ board[p] = "paused"
    <2>1. /\ closing' = [closing EXCEPT ![m] = [project |-> p, keep |-> paused]]
          /\ standing' = IF paused /\ Unlocked(p) /\ \A th \in Threads : call[th].m # m
                         THEN p ELSE None
      BY <1>9, Zenon DEF Terminate
    <2>2. paused \in BOOLEAN /\ (paused => p \in listed)
      OBVIOUS
    <2> HIDE DEF p, paused
    <2>3. /\ phase[m] = "serving" /\ phase' = [phase EXCEPT ![m] = "stopping"]
          /\ handle' = [handle EXCEPT ![m] = None] /\ call' = call /\ lock' = lock
          /\ listed' = listed
      BY <1>9 DEF Terminate, files
    <2> SUFFICES ASSUME standing' # None PROVE Standing'
      BY DEF Standing
    <2>4. paused = TRUE /\ Unlocked(p) /\ standing' = p /\ \A th \in Threads : call[th].m # m
      BY <2>1, <2>2
    <2>5. \A th \in Threads : call[th].at = "idle"
      BY <1>1, <2>3, <2>4, CallerFacts DEF OneLife, Living
    <2>6. \A n \in Managers : handle'[n] = None
      BY <1>1, <2>3 DEF OneLife, Handles, Types, Living
    <2>7. phase'[m] = "stopping" /\ closing'[m] = [project |-> standing', keep |-> TRUE]
      BY <1>1, <2>1, <2>3, <2>4 DEF Types
    <2> QED
      BY <2>2, <2>3, <2>4, <2>5, <2>6, <2>7 DEF Standing, Unlocked
  <1>10. ASSUME NEW m \in Managers, Shutdown(m)
         PROVE  Standing'
    <2>1. /\ phase[m] = "stopping" /\ Ends(m) /\ standing' = standing /\ listed' = listed
          /\ lock' = IF ~Unlocked(closing[m].project) THEN lock
                     ELSE IF closing[m].keep THEN [lock EXCEPT !.held = TRUE] ELSE None
      BY <1>10 DEF Shutdown, ghosts
    <2> SUFFICES ASSUME standing # None PROVE Standing'
      BY <2>1 DEF Standing
    <2>2. closing[m] = [project |-> standing, keep |-> TRUE]
      BY <1>1, <2>1 DEF Standing, OneLife, Living
    <2>3. Unlocked(standing) /\ lock \in Lock
      BY <1>1 DEF Standing, Unlocked, Types
    <2>4. closing[m].project = standing /\ closing[m].keep = TRUE
      BY <2>2
    <2>5. lock' = [lock EXCEPT !.held = TRUE]
      BY <2>1, <2>3, <2>4
    <2>6. lock' \in Lock /\ lock'.held /\ lock'.project = standing
      BY <2>3, <2>5 DEF Lock, Unlocked
    <2>7. lock' # None
      BY <2>6 DEF Lock
    <2>8. \A n \in Managers : phase'[n] \notin Living
      BY <1>1, <2>1 DEF Ends, OneLife, Living, Types
    <2>9. \A th \in Threads : call'[th].at = "idle"
      <3> SUFFICES ASSUME NEW th \in Threads PROVE call'[th].at = "idle"
        OBVIOUS
      <3>1. call'[th] = call[th] \/ call'[th] = Idle
        BY <1>1, <2>1, EndsGoes
      <3> QED
        BY <3>1 DEF Standing, Idle
    <2>10. \A n \in Managers : handle'[n] = None
      BY <1>1, <2>1 DEF Ends, Types, Standing
    <2>11. standing \in listed'
      BY <2>1 DEF Standing
    <2> QED
      BY <2>1, <2>6, <2>7, <2>8, <2>9, <2>10, <2>11 DEF Standing, Unlocked
  <1> QED
    BY <1>2, <1>3, <1>4, <1>5, <1>6, <1>7, <1>8, <1>9, <1>10 DEF Next

\* The owner's open paused project, if no call was running when its manager was
\* told to stop, is still open when the next one serves, if two managers never
\* run at once.
THEOREM PausedIsAdopted == ASSUME OnePort PROVE Spec => PausedStaysOpen
  <1> DEFINE Adopts ==
        \A m \in Managers : phase[m] = "new" /\ phase'[m] = "serving" /\ standing # None =>
            lock' = [manager |-> m, project |-> standing, held |-> FALSE]
  <1>1. Init => Standing
    BY DEF Init, Standing
  <1>2. Alive /\ Handles /\ Standing /\ [Next]_vars => Standing'
    BY StandingStep
  <1>3. Alive /\ Standing /\ [Next]_vars => [Adopts]_vars
    <2> SUFFICES ASSUME Alive, Standing, [Next]_vars, NEW m \in Managers,
                        phase[m] = "new", phase'[m] = "serving", standing # None
                 PROVE  lock' = [manager |-> m, project |-> standing, held |-> FALSE]
      OBVIOUS
    <2>1. Types /\ Base
      BY DEF Alive, Base
    <2>2. Start(m)
      <3>1. ASSUME NEW th \in Threads, Step(th)
            PROVE  phase' = phase
        BY <3>1 DEF Step, Enter, Begin, Clear, Look, Switch, Activate, Touch, Touched, Spawn, Fails,
               Opens, BeginResume, Reuse, FinishResume, BeginPause, FinishPause, Close, Release, Load,
               Save
      <3>2. ASSUME NEW th \in Threads, NEW n \in Managers, NEW kind \in AllKinds,
                   NEW p \in Projects, Request(th, n, kind, p)
            PROVE  phase' = phase
        BY <3>2 DEF Request
      <3>3. ASSUME NEW w \in Workers, Bind(w) \/ Dies(w)
            PROVE  phase' = phase
        BY <3>3 DEF Bind, Dies
      <3>4. ASSUME NEW n \in Managers, Own(n), ~Start(m)
            PROVE  phase'[m] # "serving" \/ phase[m] = "serving"
        BY <2>1, <3>4 DEF Own, Reconcile, Glance, AfterGlance, Start, Terminate, Shutdown, Kill,
               Ends, Types
      <3>5. UNCHANGED vars => phase' = phase
        BY DEF vars
      <3> QED
        BY <3>1, <3>2, <3>3, <3>4, <3>5 DEF Next, Own
    <2>3. \A n \in Managers : phase[n] \notin Living
      BY <2>2 DEF Start, OnePort, Lives, Living
    <2>4. /\ lock \in Lock /\ lock # None /\ lock.held /\ lock.project = standing
          /\ standing \in listed /\ ~Lives(lock.manager)
      BY <2>1, <2>3 DEF Standing, Types, Unlocked, Lock, Lives, Living
    <2>5. lock' = [lock EXCEPT !.manager = m, !.held = FALSE]
      BY <2>2, <2>4 DEF Start
    <2> QED
      BY <2>4, <2>5 DEF Lock
  <1>4. PausedStaysOpen <=> [][Adopts]_vars
    BY PTL DEF PausedStaysOpen
  <1> QED
    BY <1>1, <1>2, <1>3, <1>4, AliveHolds, HandlesHold, PTL DEF Spec
=============================================================================
