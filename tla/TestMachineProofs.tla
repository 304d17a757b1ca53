------------------------- MODULE TestMachineProofs -------------------------
(***************************************************************************)
(* Theorems about TestMachine, for any number of projects, machines,       *)
(* Connect requests, stops and deaths, as long as no Connect is asked for  *)
(* in the instant a stop begins (Overlapping, README section 8).           *)
(***************************************************************************)
EXTENDS TestMachine, FiniteSetTheorems, TLAPS

(***************************************************************************)
(* The invariant.                                                          *)
(***************************************************************************)
Busy == {"job", "reserved", "signing", "pinned", "promoted", "failed"}
Publishing == {"pinned", "promoted"}

\* A request whose reservation counts: no stop has cancelled it, or it is past
\* the point where one could.
Wanted(t) ==
    \/ request[t].at \in {"reserved", "signing"} /\ t \notin cancelled
    \/ request[t].at \in Publishing

Records == [there : BOOLEAN, at : Machines \cup {None}, reauth : BOOLEAN, by : Nat,
            rev : Nat, epoch : Nat, seq : Nat, keptSeq : Nat \cup {-1},
            tools : Nat, complete : BOOLEAN]

Labels == Busy \cup {"idle", "asked"}
Asks == [at : Labels, p : Projects \cup {None}, m : Machines \cup {None}, gen : Nat, seq : Nat]
Stays == [at : {"idle", "counted", "cancelled"}, p : Projects \cup {None},
          kind : {"stop", "resume", "release"}, n : Nat]
Targets == [connected : Machines \cup {None}, pending : Machines \cup {None}]

Types ==
    /\ record \in [Projects -> Records]
    /\ locked \in [Projects -> Requests \cup {None}]
    /\ pin \in [Projects -> Machines \cup {None}]
    /\ targets \in [Projects -> Targets]
    /\ manager \in Nat /\ touched \subseteq Projects /\ cancelled \subseteq Requests
    /\ generation \in [Projects -> Nat]
    /\ job \in [Projects -> Requests \cup {None}]
    /\ request \in [Requests -> Asks]
    /\ stopper \in [Stoppers -> Stays]

\* A request works for a project the manager knows, one at a time.
Jobs ==
    /\ \A t \in Requests : request[t].at # "idle" =>
        /\ request[t].p \in touched /\ request[t].m \in Machines
        /\ request[t].gen <= generation[request[t].p]
        /\ request[t].at \in Busy => job[request[t].p] = t
    /\ \A p \in Projects : job[p] # None =>
        request[job[p]].p = p /\ request[job[p]].at \in Busy

\* The lock of a record is held over a step by the request that publishes.
Locks ==
    /\ \A t \in Requests : request[t].at \in Publishing => locked[request[t].p] = t
    /\ \A p \in Projects : locked[p] # None =>
        request[locked[p]].p = p /\ request[locked[p]].at \in Publishing

\* A stop under way leaves no request of its project that could still publish.
Stops ==
    \A s \in Stoppers : stopper[s].at # "idle" =>
        /\ stopper[s].p \in Projects
        /\ \A t \in Requests : request[t].at # "idle" /\ request[t].p = stopper[s].p =>
            /\ request[t].at = "asked" => request[t].gen # generation[request[t].p]
            /\ stopper[s].at = "cancelled" /\ request[t].at \in Busy => t \in cancelled

\* Only a record that was written names a machine, and nobody has an
\* authorization of a manager still to come.
Written ==
    /\ \A p \in Projects : (record[p].at # None => record[p].there) /\ record[p].by <= manager
    /\ \A t \in Requests : request[t].at \in {"signing"} \cup Publishing =>
        record[request[t].p].there

Reserved ==
    /\ \A t \in Requests : Wanted(t) =>
        LET held == targets[request[t].p] IN
        /\ request[t].at \in Publishing => pin[request[t].p] = request[t].m
        /\ IF request[t].at = "promoted"
           THEN held.connected = request[t].m /\ held.pending = None
           ELSE held.pending = request[t].m
    /\ \A t, u \in Requests :
        Wanted(t) /\ Wanted(u) /\ request[t].p # request[u].p => request[t].m # request[u].m

\* A project that may use its machine holds it, and nobody is about to take it.
Users ==
    \A p \in Projects : Authorized(p) =>
        /\ p \in touched
        /\ locked[p] = None =>
            /\ targets[p].connected = record[p].at /\ pin[p] = record[p].at
            /\ \A t \in Requests :
                Wanted(t) /\ request[t].p # p => request[t].m # record[p].at

Settles ==
    \A p \in touched :
        record[p].there /\ (job[p] = None \/ request[job[p]].at = "job")
        => targets[p] = [connected |-> record[p].at, pending |-> None]

MachineInvariant ==
    /\ Types /\ Jobs /\ Locks /\ Stops /\ Written
    /\ Reserved /\ Users /\ OneUserPerMachine /\ Settles

(***************************************************************************)
(* What the operations on a record do to the fields that matter.           *)
(***************************************************************************)
LEMMA RequiredRecord ==
    ASSUME NEW rec \in Records
    PROVE  /\ Required(rec) \in Records /\ Required(rec).reauth
           /\ Required(rec).at = rec.at /\ Required(rec).there = rec.there
           /\ Required(rec).by \in {rec.by, 0}
<1> DEFINE e == rec.epoch + 1
           next == [rec EXCEPT !.reauth = TRUE, !.epoch = e, !.by = 0]
<1>1. e \in Nat /\ rec.reauth \in BOOLEAN
  BY DEF Records
<1> HIDE DEF e
<1>2. /\ next \in Records /\ next.reauth /\ next.at = rec.at /\ next.there = rec.there
      /\ next.by = 0
  BY <1>1 DEF Records
<1>3. Required(rec) = IF rec.reauth THEN rec ELSE next
  BY DEF Required, e
<1> HIDE DEF next
<1> QED BY <1>1, <1>2, <1>3

LEMMA StoppedRecord ==
    ASSUME NEW rec \in Records
    PROVE  /\ Stopped(rec) \in Records
           /\ Stopped(rec).at = rec.at /\ Stopped(rec).there = rec.there
           /\ Stopped(rec).by \in {rec.by, 0}
           /\ rec.there => Stopped(rec).reauth
           /\ ~rec.there => Stopped(rec) = rec
<1> DEFINE next == [rec EXCEPT !.seq = @ + 1]
<1>1. /\ next \in Records /\ next.at = rec.at /\ next.there = rec.there /\ next.by = rec.by
      /\ next.epoch \in Nat
  BY DEF Records
<1> HIDE DEF next
<1>2. /\ Required(next) \in Records /\ Required(next).reauth
      /\ Required(next).at = next.at /\ Required(next).there = next.there
      /\ Required(next).by \in {next.by, 0}
  BY <1>1, RequiredRecord
<1>3. Stopped(rec) = IF rec.there THEN Required(next) ELSE rec
  BY DEF Stopped, next
<1> QED BY <1>1, <1>2, <1>3

LEMMA ResumedRecord ==
    ASSUME NEW rec \in Records
    PROVE  /\ Resumed(rec) \in Records
           /\ Resumed(rec).at = rec.at /\ Resumed(rec).there = rec.there
           /\ Resumed(rec).by \in {rec.by, 0}
           /\ Resumed(rec).reauth \/ (~rec.reauth /\ Resumed(rec).by = rec.by)
<1> DEFINE kept == rec.at # None /\ ~rec.reauth /\ rec.by = manager /\ rec.keptSeq = rec.seq
           next == [rec EXCEPT !.seq = @ + 1]
           keeps == [next EXCEPT !.keptSeq = next.seq]
<1>1. /\ next \in Records /\ next.at = rec.at /\ next.there = rec.there /\ next.by = rec.by
      /\ next.seq \in Nat /\ next.reauth = rec.reauth
  BY DEF Records
<1> HIDE DEF next
<1>2. /\ keeps \in Records /\ keeps.at = next.at /\ keeps.there = next.there
      /\ keeps.by = next.by /\ keeps.reauth = next.reauth
  BY <1>1 DEF Records
<1>3. /\ Required(next) \in Records /\ Required(next).reauth
      /\ Required(next).at = next.at /\ Required(next).there = next.there
      /\ Required(next).by \in {next.by, 0}
  BY <1>1, RequiredRecord
<1>4. Resumed(rec) = IF ~rec.there THEN rec ELSE IF kept THEN keeps ELSE Required(next)
  BY DEF Resumed, next
<1> HIDE DEF keeps
<1>5. rec.reauth \in BOOLEAN
  BY DEF Records
<1> QED BY <1>1, <1>2, <1>3, <1>4, <1>5

LEMMA ReleasedRecord ==
    ASSUME NEW rec \in Records
    PROVE  /\ Released(rec) \in Records /\ Released(rec).there = rec.there
           /\ rec.there => Released(rec).at = None /\ Released(rec).by = 0
           /\ ~rec.there => Released(rec) = rec
<1> DEFINE q == rec.seq + 1
           v == rec.rev + 1
           e == rec.epoch + 1
           next == [rec EXCEPT !.seq = q, !.at = None, !.rev = v, !.epoch = e,
                               !.reauth = TRUE, !.by = 0]
<1>1. q \in Nat /\ v \in Nat /\ e \in Nat
  BY DEF Records
<1> HIDE DEF q, v, e
<1>2. next \in Records /\ next.there = rec.there /\ next.at = None /\ next.by = 0
  BY <1>1 DEF Records
<1>3. Released(rec) = IF rec.there THEN next ELSE rec
  BY DEF Released, q, v, e
<1> HIDE DEF next
<1> QED BY <1>2, <1>3

\* A request that moves on stays what it is.
LEMMA RequestStep ==
    ASSUME Types, NEW t \in Requests, NEW label \in Labels,
           request' = [request EXCEPT ![t].at = label]
    PROVE  /\ request' \in [Requests -> Asks]
           /\ request'[t].at = label
           /\ request'[t].p = request[t].p /\ request'[t].m = request[t].m
           /\ request'[t].gen = request[t].gen /\ request'[t].seq = request[t].seq
           /\ \A u \in Requests \ {t} : request'[u] = request[u]
<1>1. request[t] \in Asks
  BY DEF Types
<1>2. [request[t] EXCEPT !.at = label] \in Asks
  BY <1>1 DEF Asks
<1>3. request' = [request EXCEPT ![t] = [request[t] EXCEPT !.at = label]]
  OBVIOUS
<1> QED BY <1>1, <1>2, <1>3 DEF Types, Asks

LEMMA RequestOver ==
    ASSUME Types, NEW t \in Requests, Over(t)
    PROVE  /\ request' \in [Requests -> Asks] /\ request'[t].at = "idle"
           /\ \A u \in Requests \ {t} : request'[u] = request[u]
<1>1. Idle \in Asks /\ Idle.at = "idle"
  BY DEF Idle, Asks, Labels
<1> HIDE DEF Idle
<1> QED BY <1>1 DEF Over, Types

\* The project of a request that is under way, as a fact to use.
LEMMA OwnProject ==
    ASSUME MachineInvariant, NEW t \in Requests, request[t].at # "idle"
    PROVE  /\ request[t].p \in Projects /\ request[t].p \in touched
           /\ request[t].m \in Machines /\ request[t].m # None
           /\ request[t].at \in Busy =>
                \A u \in Requests : request[u].at \in Busy /\ request[u].p = request[t].p => u = t
<1>1. /\ request[t].p \in touched /\ request[t].m \in Machines /\ touched \subseteq Projects
      /\ request[t].at \in Busy => job[request[t].p] = t
  BY DEF MachineInvariant, Types, Jobs
<1>2. ASSUME NEW u \in Requests, request[t].at \in Busy, request[u].at \in Busy,
             request[u].p = request[t].p
      PROVE  u = t
  <2>1. request[u].at # "idle"
    BY <1>2 DEF Busy
  <2>2. job[request[u].p] = u
    BY <1>2, <2>1 DEF MachineInvariant, Jobs
  <2> QED BY <1>1, <1>2, <2>2
<1> QED BY <1>1, <1>2, TestMachineAssumption

LEMMA TouchKept ==
    ASSUME MachineInvariant, Overlapping = FALSE, NEW p \in Projects, Touch(p)
    PROVE  MachineInvariant'
<1> USE TestMachineAssumption DEF MachineInvariant
<1>a. /\ p \in Projects /\ p \notin touched /\ locked[p] = None /\ touched' = touched \cup {p}
      /\ UNCHANGED <<locked, pin, manager, generation, job, cancelled, request, stopper>>
  BY DEF Touch
<1>b. \A t \in Requests : request[t].at # "idle" => request[t].p # p
  BY <1>a, OwnProject
<1>c. ~Authorized(p)
  BY <1>a DEF Users
<1>d. /\ record'[p] \in Records /\ record'[p].there = record[p].there
      /\ record'[p].at = record[p].at /\ record'[p].by \in {record[p].by, 0}
      /\ ~Authorized(p)'
      /\ record' \in [Projects -> Records]
      /\ \A q \in Projects \ {p} : record'[q] = record[q]
  <2>1. record \in [Projects -> Records] /\ record[p] \in Records
    BY DEF Types
  <2>2. \/ record' = record
        \/ record[p].there /\ record' = [record EXCEPT ![p] = Stopped(record[p])]
    BY <2>1 DEF Touch
  <2>3. CASE record' = record
    BY <1>a, <1>c, <2>1, <2>3 DEF Authorized
  <2>4. CASE record[p].there /\ record' = [record EXCEPT ![p] = Stopped(record[p])]
    BY <2>1, <2>4, StoppedRecord DEF Authorized
  <2> QED BY <2>2, <2>3, <2>4
<1>e. \A q \in Projects \ {p} : Authorized(q)' = Authorized(q) /\ targets'[q] = targets[q]
  BY <1>a, <1>d DEF Touch, Authorized, Types
<1>f. /\ targets' \in [Projects -> Targets]
      /\ record[p].there => targets'[p] = [connected |-> record'[p].at, pending |-> None]
  <2>1. record[p].at \in Machines \cup {None}
    BY DEF Types, Records
  <2> QED BY <1>d, <2>1 DEF Touch, Settled, Types, Targets
<1>g. \A t \in Requests : Wanted(t)' = Wanted(t) /\ (Wanted(t) => request[t].at # "idle")
  BY <1>a DEF Wanted, Publishing
<1>1. Types'
  BY <1>a, <1>d, <1>f DEF Types
<1>2. Jobs'
  BY <1>a DEF Jobs
<1>3. Locks'
  BY <1>a DEF Locks
<1>4. Stops'
  BY <1>a DEF Stops
<1>5. Written'
  <2>1. manager \in Nat /\ \A q \in Projects : record[q].by \in Nat
    BY DEF Types, Records
  <2>2. \A t \in Requests : request[t].at \in {"signing"} \cup Publishing => request[t].p # p
    BY <1>b DEF Publishing
  <2>3. \A q \in Projects : /\ record'[q].there = record[q].there /\ record'[q].at = record[q].at
                            /\ record'[q].by <= manager
    BY <1>d, <2>1 DEF Written
  <2>4. \A t \in Requests : request[t].at \in {"signing"} \cup Publishing => request[t].p \in Projects
    BY OwnProject DEF Publishing
  <2> QED BY <1>a, <2>3, <2>4 DEF Written
<1>6. Reserved'
  <2>1. \A t \in Requests : Wanted(t) => targets'[request[t].p] = targets[request[t].p]
    BY <1>b, <1>e, <1>g, OwnProject
  <2> QED BY <1>a, <1>g, <2>1 DEF Reserved
<1>7. Users'
  BY <1>a, <1>d, <1>e, <1>g DEF Users
<1>8. OneUserPerMachine'
  BY <1>a, <1>d, <1>e DEF OneUserPerMachine
<1>9. Settles'
  BY <1>a, <1>d, <1>e, <1>f DEF Settles, Types
<1> QED BY <1>1, <1>2, <1>3, <1>4, <1>5, <1>6, <1>7, <1>8, <1>9

LEMMA RestartKept ==
    ASSUME MachineInvariant, Overlapping = FALSE, Restart
    PROVE  MachineInvariant'
<1> USE TestMachineAssumption DEF MachineInvariant
<1>1. Types'
  <2>1. Idle \in Asks /\ Still \in Stays
    BY DEF Idle, Still, Asks, Stays, Labels
  <2> QED BY <2>1 DEF Restart, Trouble, Types
<1>2. Jobs'
  BY DEF Restart, Idle, Jobs
<1>3. Locks'
  BY DEF Restart, Idle, Locks, Publishing
<1>4. Stops'
  BY DEF Restart, Still, Stops
<1>5. Written'
  BY DEF Restart, Idle, Written, Types, Records, Publishing
<1>6. Reserved'
  BY DEF Restart, Idle, Reserved, Wanted, Publishing
<1>7. Users'
  BY DEF Restart, Users, Types, Authorized, Written
<1>8. OneUserPerMachine'
  BY DEF Restart, OneUserPerMachine, Types, Authorized, Written
<1>9. Settles'
  BY DEF Restart, Settles
<1> QED BY <1>1, <1>2, <1>3, <1>4, <1>5, <1>6, <1>7, <1>8, <1>9

LEMMA AskKept ==
    ASSUME MachineInvariant, Overlapping = FALSE, NEW t \in Requests, NEW p \in Projects, NEW m \in Machines, Ask(t, p, m)
    PROVE  MachineInvariant'
<1> USE TestMachineAssumption DEF MachineInvariant
<1>1. Types'
  <2> DEFINE row == [at |-> "asked", p |-> p, m |-> m, gen |-> generation[p], seq |-> 0]
  <2>1. row \in Asks
    BY DEF Types, Asks, Labels
  <2>2. request' = [request EXCEPT ![t] = row]
    BY DEF Ask
  <2> HIDE DEF row
  <2>3. request' \in [Requests -> Asks]
    BY <2>1, <2>2 DEF Types
  <2> QED BY <2>3 DEF Ask, ConnectUnchanged, Types
<1>2. Jobs'
  BY DEF Ask, ConnectUnchanged, At, Jobs, Busy, Types
<1>3. Locks'
  BY DEF Ask, At, Locks, Publishing
<1>4. Stops'
  BY DEF Ask, ConnectUnchanged, Stops
<1>5. Written'
  BY DEF Ask, ConnectUnchanged, Written, Publishing
<1>6. Reserved'
  BY DEF Ask, ConnectUnchanged, Reserved, Wanted, Publishing
<1>7. Users'
  BY DEF Ask, ConnectUnchanged, Users, Authorized, Wanted, Publishing
<1>8. OneUserPerMachine'
  BY DEF Ask, ConnectUnchanged, OneUserPerMachine, Authorized
<1>9. Settles'
  BY DEF Ask, ConnectUnchanged, Settles
<1> QED BY <1>1, <1>2, <1>3, <1>4, <1>5, <1>6, <1>7, <1>8, <1>9

LEMMA RegisterKept ==
    ASSUME MachineInvariant, Overlapping = FALSE, NEW t \in Requests, Register(t)
    PROVE  MachineInvariant'
<1> USE TestMachineAssumption DEF MachineInvariant
<1> DEFINE p == request[t].p
<1>a. /\ request[t].at = "asked" /\ p \in Projects /\ p \in touched /\ request[t].m \in Machines
  BY OwnProject DEF Register, At
<1>b. /\ UNCHANGED <<record, locked, pin, targets, manager, touched, generation, stopper>>
      /\ \/ Over(t) /\ UNCHANGED <<job, cancelled>>
         \/ /\ job[p] = None /\ generation[p] = request[t].gen
            /\ request' = [request EXCEPT ![t].at = "job"]
            /\ job' = [job EXCEPT ![p] = t] /\ cancelled' = cancelled \ {t}
  BY DEF Register, To
<1>c. /\ request' \in [Requests -> Asks]
      /\ \A u \in Requests \ {t} : request'[u] = request[u]
      /\ \/ request'[t].at = "idle" /\ UNCHANGED <<job, cancelled>>
         \/ /\ job[p] = None /\ generation[p] = request[t].gen
            /\ request'[t].at = "job" /\ request'[t].p = p /\ request'[t].m = request[t].m
            /\ request'[t].gen = request[t].gen
            /\ job' = [job EXCEPT ![p] = t] /\ cancelled' = cancelled \ {t}
  <2>1. CASE Over(t) /\ UNCHANGED <<job, cancelled>>
    BY <2>1, RequestOver
  <2>2. CASE ~(Over(t) /\ UNCHANGED <<job, cancelled>>)
    BY <1>b, <2>2, RequestStep DEF Labels, Busy
  <2> QED BY <2>1, <2>2
<1>d. /\ ~Wanted(t) /\ ~Wanted(t)'
      /\ \A u \in Requests \ {t} : Wanted(u)' = Wanted(u)
  BY <1>a, <1>c DEF Wanted, Publishing
<1> HIDE DEF p
<1>1. Types'
  BY <1>a, <1>b, <1>c DEF Types
<1>2. Jobs'
  <2>1. \A u \in Requests : request'[u].at # "idle" =>
            /\ request'[u].p \in touched' /\ request'[u].m \in Machines
            /\ request'[u].gen <= generation'[request'[u].p]
    BY <1>a, <1>b, <1>c DEF Jobs, p
  <2>2. \A u \in Requests : request'[u].at \in Busy => job'[request'[u].p] = u
    <3>1. \A u \in Requests \ {t} : request[u].at \in Busy =>
                request[u].p \in Projects /\ job[request[u].p] = u /\ u # None
      BY OwnProject DEF Jobs, Busy
    <3>2. job \in [Projects -> Requests \cup {None}]
      BY DEF Types
    <3>3. "idle" \notin Busy
      BY DEF Busy
    <3> QED BY <1>a, <1>c, <3>1, <3>2, <3>3
  <2>3. \A q \in Projects : job'[q] # None =>
            request'[job'[q]].p = q /\ request'[job'[q]].at \in Busy
    <3>1. job \in [Projects -> Requests \cup {None}] /\ "job" \in Busy /\ "asked" \notin Busy
      BY DEF Types, Busy
    <3>2. \A q \in Projects : job[q] # t
      BY <1>a, <3>1 DEF Jobs
    <3> QED BY <1>a, <1>c, <3>1, <3>2 DEF Jobs
  <2> QED BY <2>1, <2>2, <2>3 DEF Jobs
<1>3. Locks'
  <2>1. "job" \notin Publishing /\ "idle" \notin Publishing /\ "asked" \notin Publishing
    BY DEF Publishing
  <2>2. locked \in [Projects -> Requests \cup {None}]
    BY DEF Types
  <2>3. \A q \in Projects : locked[q] # t
    BY <1>a, <2>1 DEF Locks
  <2> QED BY <1>b, <1>c, <2>1, <2>2, <2>3 DEF Locks
<1>4. Stops'
  <2>1. \A s \in Stoppers : stopper[s].at # "idle" /\ stopper[s].p = p =>
            generation[p] # request[t].gen
    BY <1>a DEF Stops, p
  <2>2. \A u \in Requests \ {t} : u \in cancelled' <=> u \in cancelled
    BY <1>c
  <2> QED BY <1>a, <1>b, <1>c, <2>1, <2>2 DEF Stops, p
<1>5. Written'
  <2>1. "job" \notin {"signing"} \cup Publishing /\ "idle" \notin {"signing"} \cup Publishing
    BY DEF Publishing
  <2> QED BY <1>b, <1>c, <2>1 DEF Written
<1>6. Reserved'
  BY <1>b, <1>c, <1>d DEF Reserved
<1>7. Users'
  BY <1>b, <1>c, <1>d DEF Users, Authorized
<1>8. OneUserPerMachine'
  BY <1>b DEF OneUserPerMachine, Authorized
<1>9. Settles'
  <2>1. job \in [Projects -> Requests \cup {None}]
    BY DEF Types
  <2>2. \A q \in Projects : job[q] # t
    BY <1>a, <2>1 DEF Jobs, Busy
  <2>3. touched \subseteq Projects
    BY DEF Types
  <2> QED BY <1>a, <1>b, <1>c, <2>1, <2>2, <2>3 DEF Settles
<1> QED BY <1>1, <1>2, <1>3, <1>4, <1>5, <1>6, <1>7, <1>8, <1>9

LEMMA ReserveKept ==
    ASSUME MachineInvariant, Overlapping = FALSE, NEW t \in Requests, Reserve(t)
    PROVE  MachineInvariant'
<1> USE TestMachineAssumption DEF MachineInvariant
<1> DEFINE p == request[t].p
           m == request[t].m
<1>a. /\ request[t].at = "job" /\ p \in Projects /\ p \in touched /\ m \in Machines /\ m # None
      /\ \A u \in Requests : request[u].at \in Busy /\ request[u].p = p => u = t
  BY OwnProject DEF Reserve, At, Busy
<1>b. /\ UNCHANGED <<record, locked, pin, manager, touched, generation, cancelled, stopper>>
      /\ \/ Over(t) /\ UNCHANGED targets /\ job' = [job EXCEPT ![p] = None]
         \/ /\ t \notin cancelled /\ \A other \in Projects \ {p} : ~Holds(other, m)
            /\ request' = [request EXCEPT ![t].at = "reserved"]
            /\ targets' = [targets EXCEPT ![p].pending = m] /\ UNCHANGED job
  BY DEF Reserve, To, Ends, ConnectUnchanged
<1>c. /\ request' \in [Requests -> Asks]
      /\ \A u \in Requests \ {t} : request'[u] = request[u]
      /\ \/ request'[t].at = "idle" /\ UNCHANGED targets /\ job' = [job EXCEPT ![p] = None]
         \/ /\ t \notin cancelled /\ \A other \in Projects \ {p} : ~Holds(other, m)
            /\ request'[t].at = "reserved" /\ request'[t].p = p /\ request'[t].m = m
            /\ request'[t].gen = request[t].gen
            /\ targets' = [targets EXCEPT ![p].pending = m] /\ UNCHANGED job
  <2>1. CASE Over(t)
    <3>1. request'[t].at = "idle"
      BY <2>1, RequestOver
    <3>2. request' # [request EXCEPT ![t].at = "reserved"]
      <4>1. SUFFICES ASSUME request' = [request EXCEPT ![t].at = "reserved"] PROVE FALSE
        OBVIOUS
      <4>2. request'[t].at = "reserved"
        BY <4>1, RequestStep DEF Labels, Busy
      <4> QED BY <3>1, <4>2
    <3> QED BY <1>b, <2>1, <3>1, <3>2, RequestOver
  <2>2. CASE ~Over(t)
    BY <1>b, <2>2, RequestStep DEF Labels, Busy
  <2> QED BY <2>1, <2>2
<1>d. /\ ~Wanted(t)
      /\ \A u \in Requests \ {t} :
            /\ Wanted(u)' = Wanted(u)
            /\ Wanted(u) => request[u].p # p /\ request[u].p \in Projects
  <2>1. ~Wanted(t)
    BY <1>a DEF Wanted, Publishing
  <2>2. \A u \in Requests \ {t} : Wanted(u)' = Wanted(u)
    BY <1>b, <1>c DEF Wanted
  <2>3. \A u \in Requests \ {t} : Wanted(u) => request[u].at \in Busy /\ request[u].at # "idle"
    BY DEF Wanted, Publishing, Busy
  <2> QED BY <1>a, <2>1, <2>2, <2>3, OwnProject
<1>e. /\ targets' \in [Projects -> Targets] /\ \A q \in Projects : targets'[q].connected = targets[q].connected
      /\ \A q \in Projects \ {p} : targets'[q] = targets[q]
      /\ request'[t].at # "idle" => targets'[p].pending = m
  <2>1. targets \in [Projects -> Targets]
    BY DEF Types
  <2>2. CASE UNCHANGED targets /\ request'[t].at = "idle"
    BY <2>1, <2>2
  <2>3. CASE targets' = [targets EXCEPT ![p].pending = m]
    <3>1. targets' = [targets EXCEPT ![p] = [targets[p] EXCEPT !.pending = m]]
      BY <2>3
    <3>2. [targets[p] EXCEPT !.pending = m] \in Targets /\ [targets[p] EXCEPT !.pending = m].pending = m
          /\ [targets[p] EXCEPT !.pending = m].connected = targets[p].connected
      BY <1>a, <2>1 DEF Targets
    <3> QED BY <1>a, <2>1, <3>1, <3>2
  <2> QED BY <1>c, <2>2, <2>3
<1>f. job \in [Projects -> Requests \cup {None}] /\ job[p] = t
  BY <1>a DEF Types, Jobs, Busy
<1>g. ASSUME NEW u \in Requests \ {t}, Wanted(u), request'[t].at # "idle" PROVE request[u].m # m
  <2>1. Holds(request[u].p, request[u].m)
    <3>1. request[u].m # None
      BY <1>g, OwnProject DEF Wanted, Publishing
    <3> QED BY <1>g, <3>1 DEF Reserved, Holds
  <2> QED BY <1>c, <1>d, <1>g, <2>1
<1> HIDE DEF p, m
<1>1. Types'
  BY <1>a, <1>b, <1>c, <1>e, <1>f DEF Types
<1>2. Jobs'
  <2>1. \A u \in Requests : request'[u].at # "idle" =>
            /\ request'[u].p \in touched' /\ request'[u].m \in Machines
            /\ request'[u].gen <= generation'[request'[u].p]
    BY <1>a, <1>b, <1>c DEF Jobs, p
  <2>2. \A u \in Requests : request'[u].at \in Busy => job'[request'[u].p] = u
    <3>1. \A u \in Requests \ {t} : request[u].at \in Busy =>
                request[u].p \in Projects /\ request[u].p # p /\ job[request[u].p] = u
      BY <1>a, OwnProject DEF Jobs, Busy
    <3>2. "idle" \notin Busy
      BY DEF Busy
    <3> QED BY <1>a, <1>c, <1>f, <3>1, <3>2
  <2>3. \A q \in Projects : job'[q] # None =>
            request'[job'[q]].p = q /\ request'[job'[q]].at \in Busy
    <3>1. "reserved" \in Busy
      BY DEF Busy
    <3>2. \A q \in Projects \ {p} : job[q] # t
      BY <1>a DEF Jobs, p
    <3> QED BY <1>a, <1>c, <1>f, <3>1, <3>2 DEF Jobs
  <2> QED BY <2>1, <2>2, <2>3 DEF Jobs
<1>3. Locks'
  <2>1. "job" \notin Publishing /\ "idle" \notin Publishing /\ "reserved" \notin Publishing
    BY DEF Publishing
  <2>2. locked \in [Projects -> Requests \cup {None}]
    BY DEF Types
  <2>3. \A q \in Projects : locked[q] # t
    BY <1>a, <2>1 DEF Locks
  <2> QED BY <1>b, <1>c, <2>1, <2>2, <2>3 DEF Locks
<1>4. Stops'
  <2>1. "job" \in Busy
    BY DEF Busy
  <2> QED BY <1>a, <1>b, <1>c, <2>1 DEF Stops, p
<1>5. Written'
  <2>1. "reserved" \notin {"signing"} \cup Publishing /\ "idle" \notin {"signing"} \cup Publishing
    BY DEF Publishing
  <2> QED BY <1>b, <1>c, <2>1 DEF Written
<1>6. Reserved'
  <2>1. ASSUME NEW u \in Requests, Wanted(u)'
        PROVE  /\ request'[u].at \in Publishing => pin'[request'[u].p] = request'[u].m
               /\ IF request'[u].at = "promoted"
                  THEN targets'[request'[u].p].connected = request'[u].m
                       /\ targets'[request'[u].p].pending = None
                  ELSE targets'[request'[u].p].pending = request'[u].m
    <3>1. CASE u = t
      <4>1. request'[t].at = "reserved"
        BY <1>c, <2>1, <3>1 DEF Wanted, Publishing
      <4> QED BY <1>c, <1>e, <3>1, <4>1 DEF Publishing
    <3>2. CASE u # t
      BY <1>b, <1>c, <1>d, <1>e, <2>1, <3>2 DEF Reserved
    <3> QED BY <3>1, <3>2
  <2>2. ASSUME NEW u \in Requests, NEW v \in Requests, Wanted(u)', Wanted(v)',
               request'[u].p # request'[v].p
        PROVE  request'[u].m # request'[v].m
    <3>1. request'[t].at = "idle" => ~Wanted(t)'
      BY DEF Wanted, Publishing
    <3>2. CASE u # t /\ v # t
      BY <1>c, <1>d, <2>2, <3>2 DEF Reserved
    <3>3. CASE u = t \/ v = t
      BY <1>c, <1>d, <1>g, <2>2, <3>1, <3>3
    <3> QED BY <3>2, <3>3
  <2> QED BY <2>1, <2>2 DEF Reserved
<1>7. Users'
  <2> SUFFICES ASSUME NEW q \in Projects, Authorized(q)'
               PROVE  /\ q \in touched'
                      /\ locked'[q] = None =>
                          /\ targets'[q].connected = record'[q].at /\ pin'[q] = record'[q].at
                          /\ \A u \in Requests :
                              Wanted(u)' /\ request'[u].p # q => request'[u].m # record'[q].at
    BY DEF Users
  <2>1. Authorized(q) /\ record[q].at # None
    BY <1>b DEF Authorized
  <2>2. ASSUME locked[q] = None, Wanted(t)', request'[t].p # q PROVE request'[t].m # record[q].at
    <3>1. request'[t].at # "idle"
      BY <2>2 DEF Wanted, Publishing
    <3>2. ~Holds(q, m) /\ request'[t].m = m
      BY <1>c, <2>2, <3>1
    <3> QED BY <2>1, <2>2, <3>2 DEF Users, Holds
  <2> QED BY <1>b, <1>c, <1>d, <1>e, <2>1, <2>2 DEF Users
<1>8. OneUserPerMachine'
  BY <1>b DEF OneUserPerMachine, Authorized
<1>9. Settles'
  <2>1. touched \subseteq Projects
    BY DEF Types
  <2>2. CASE request'[t].at = "idle"
    <3>1. UNCHANGED targets /\ job' = [job EXCEPT ![p] = None]
      BY <1>c, <2>2
    <3>2. \A q \in touched \ {p} : job[q] # t
      BY <1>a, <2>1 DEF Jobs, p
    <3>3. \A q \in touched \ {p} : job[q] # None => job[q] \in Requests \ {t}
      BY <1>f, <2>1, <3>2
    <3> QED BY <1>a, <1>b, <1>c, <1>f, <2>1, <3>1, <3>2, <3>3 DEF Settles
  <2>3. CASE request'[t].at # "idle"
    <3>1. UNCHANGED job /\ request'[t].at = "reserved"
      BY <1>c, <2>3
    <3>2. \A q \in touched \ {p} : job[q] # t
      BY <1>a, <2>1 DEF Jobs, p
    <3>3. \A q \in touched \ {p} : job[q] # None => job[q] \in Requests \ {t}
      BY <1>f, <2>1, <3>2
    <3> QED BY <1>b, <1>c, <1>e, <1>f, <2>1, <3>1, <3>2, <3>3 DEF Settles
  <2> QED BY <2>2, <2>3
<1> QED BY <1>1, <1>2, <1>3, <1>4, <1>5, <1>6, <1>7, <1>8, <1>9

LEMMA BeginKept ==
    ASSUME MachineInvariant, Overlapping = FALSE, NEW t \in Requests, Begin(t)
    PROVE  MachineInvariant'
<1> USE TestMachineAssumption DEF MachineInvariant
<1>1. Types'
  <2>1. request[t].at = "signing" \/ request[t].at = "reserved"
    BY DEF Begin, At
  <2>2. request[t].p \in Projects
    BY <2>1, OwnProject
  <2>3. record[request[t].p].seq \in Nat /\ record[request[t].p] \in Records
    BY <2>2 DEF Types, Records
  <2>4. [record[request[t].p] EXCEPT !.there = TRUE] \in Records
    BY <2>3 DEF Records
  <2>5. record' \in [Projects -> Records]
    BY <2>2, <2>4 DEF Begin, Types
  <2> DEFINE n == record[request[t].p].seq
             next == [request[t] EXCEPT !.at = "signing", !.seq = n]
  <2>6. next \in Asks
    <3> HIDE DEF n
    <3>1. n \in Nat
      BY <2>3 DEF n
    <3> QED BY <3>1 DEF Types, Asks, Labels, Busy
  <2>7. request' = [request EXCEPT ![t] = next]
    BY DEF Begin
  <2> HIDE DEF next
  <2>8. request' \in [Requests -> Asks]
    BY <2>6, <2>7 DEF Types
  <2> QED BY <2>5, <2>8 DEF Types, Begin, ConnectUnchanged
<1>2. Jobs'
  BY DEF Begin, At, ConnectUnchanged, Jobs, Busy, Types
<1>3. Locks'
  BY DEF Begin, Locks, Publishing, Types
<1>4. Stops'
  BY DEF Begin, At, ConnectUnchanged, Stops, Types, Busy
<1>5. Written'
  BY DEF Begin, At, ConnectUnchanged, Written, Types, Jobs
<1>6. Reserved'
  BY DEF Begin, At, ConnectUnchanged, Reserved, Types, Wanted, Publishing
<1>7. Users'
  BY DEF Begin, At, ConnectUnchanged, Users, Types, Authorized, Wanted, Publishing
<1>8. OneUserPerMachine'
  BY DEF Begin, ConnectUnchanged, OneUserPerMachine, Authorized
<1>9. Settles'
  BY DEF Begin, At, ConnectUnchanged, Settles, Types, Jobs, Busy
<1> QED BY <1>1, <1>2, <1>3, <1>4, <1>5, <1>6, <1>7, <1>8, <1>9

LEMMA FailKept ==
    ASSUME MachineInvariant, Overlapping = FALSE, NEW t \in Requests, Fail(t)
    PROVE  MachineInvariant'
<1> USE TestMachineAssumption DEF MachineInvariant
<1>1. Types'
  <2>1. request' = [request EXCEPT ![t].at = "failed"]
    BY DEF Fail, To
  <2>2. request' \in [Requests -> Asks]
    BY <2>1, RequestStep DEF Labels, Busy
  <2> QED BY <2>2 DEF Types, Fail, ConnectUnchanged
<1>2. Jobs'
  BY DEF Fail, At, To, ConnectUnchanged, Jobs, Busy
<1>3. Locks'
  BY DEF Fail, At, To, Locks, Publishing
<1>4. Stops'
  BY DEF Fail, At, To, ConnectUnchanged, Stops, Busy
<1>5. Written'
  BY DEF Fail, To, ConnectUnchanged, Written, Publishing
<1>6. Reserved'
  BY DEF Fail, To, ConnectUnchanged, Reserved, Wanted, Publishing
<1>7. Users'
  BY DEF Fail, To, ConnectUnchanged, Users, Authorized, Wanted, Publishing
<1>8. OneUserPerMachine'
  BY DEF Fail, ConnectUnchanged, OneUserPerMachine, Authorized
<1>9. Settles'
  BY DEF Fail, To, ConnectUnchanged, Settles
<1> QED BY <1>1, <1>2, <1>3, <1>4, <1>5, <1>6, <1>7, <1>8, <1>9

LEMMA RefuseKept ==
    ASSUME MachineInvariant, Overlapping = FALSE, NEW t \in Requests, Refuse(t)
    PROVE  MachineInvariant'
<1> USE TestMachineAssumption DEF MachineInvariant
<1>1. Types'
  <2>1. request' = [request EXCEPT ![t].at = "failed"]
    BY DEF Refuse, To
  <2>2. request' \in [Requests -> Asks]
    BY <2>1, RequestStep DEF Labels, Busy
  <2> QED BY <2>2 DEF Types, Refuse, ConnectUnchanged
<1>2. Jobs'
  BY DEF Refuse, At, To, ConnectUnchanged, Jobs, Busy
<1>3. Locks'
  BY DEF Refuse, To, Locks, Publishing
<1>4. Stops'
  BY DEF Refuse, At, To, ConnectUnchanged, Stops, Busy
<1>5. Written'
  BY DEF Refuse, To, ConnectUnchanged, Written, Publishing
<1>6. Reserved'
  BY DEF Refuse, To, ConnectUnchanged, Reserved, Wanted, Publishing
<1>7. Users'
  BY DEF Refuse, To, ConnectUnchanged, Users, Authorized, Wanted, Publishing
<1>8. OneUserPerMachine'
  BY DEF Refuse, ConnectUnchanged, OneUserPerMachine, Authorized
<1>9. Settles'
  BY DEF Refuse, To, ConnectUnchanged, Settles
<1> QED BY <1>1, <1>2, <1>3, <1>4, <1>5, <1>6, <1>7, <1>8, <1>9

LEMMA PinKept ==
    ASSUME MachineInvariant, Overlapping = FALSE, NEW t \in Requests, Pin(t)
    PROVE  MachineInvariant'
<1> USE TestMachineAssumption DEF MachineInvariant
<1>0. /\ request' = [request EXCEPT ![t].at = "pinned"]
      /\ request[t].at = "signing" /\ locked[request[t].p] = None
      /\ request[t].p \in Projects /\ request[t].m \in Machines
  BY OwnProject DEF Pin, To, At
<1>1. Types'
  <2>1. request' \in [Requests -> Asks]
    BY <1>0, RequestStep DEF Labels, Busy
  <2>2. /\ locked' \in [Projects -> Requests \cup {None}]
        /\ pin' \in [Projects -> Machines \cup {None}]
    BY <1>0 DEF Pin, Types
  <2> QED BY <2>1, <2>2 DEF Types, Pin, ConnectUnchanged
<1>2. Jobs'
  BY DEF Pin, At, To, ConnectUnchanged, Jobs, Busy
<1>3. Locks'
  <2>1. /\ request'[t].at = "pinned" /\ request'[t].p = request[t].p
        /\ \A u \in Requests \ {t} : request'[u] = request[u]
    BY <1>0, RequestStep DEF Labels, Busy
  <2>2. locked' = [locked EXCEPT ![request[t].p] = t] /\ locked \in [Projects -> Requests \cup {None}]
    BY DEF Pin, Types
  <2>3. \A u \in Requests \ {t} : request[u].at \in Publishing => request[u].p # request[t].p
    BY <1>0, OwnProject DEF Publishing, Busy
  <2>4. \A u \in Requests \ {t} : request[u].at \in Publishing => request[u].p \in Projects
    BY OwnProject DEF Publishing
  <2>5. \A u \in Requests : request'[u].at \in Publishing => locked'[request'[u].p] = u
    BY <1>0, <2>1, <2>2, <2>3, <2>4 DEF Locks
  <2>6. \A q \in Projects : locked'[q] # None =>
            request'[locked'[q]].p = q /\ request'[locked'[q]].at \in Publishing
    BY <1>0, <2>1, <2>2 DEF Locks, Publishing
  <2> QED BY <2>5, <2>6 DEF Locks
<1>4. Stops'
  BY DEF Pin, At, To, ConnectUnchanged, Stops, Busy
<1>5. Written'
  BY DEF Pin, At, To, ConnectUnchanged, Written
<1>6. Reserved'
  BY DEF Pin, At, To, ConnectUnchanged, Overtaken, Reserved, Types, Wanted, Jobs
<1>7. Users'
  BY DEF Pin, At, To, ConnectUnchanged, Overtaken, Users, Types, Authorized, Wanted
<1>8. OneUserPerMachine'
  BY DEF Pin, ConnectUnchanged, OneUserPerMachine, Authorized
<1>9. Settles'
  BY DEF Pin, To, ConnectUnchanged, Settles
<1> QED BY <1>1, <1>2, <1>3, <1>4, <1>5, <1>6, <1>7, <1>8, <1>9

LEMMA PromoteKept ==
    ASSUME MachineInvariant, Overlapping = FALSE, NEW t \in Requests, Promote(t)
    PROVE  MachineInvariant'
<1> USE TestMachineAssumption DEF MachineInvariant
<1>1. Types'
  <2>1. request' = [request EXCEPT ![t].at = "promoted"] /\ request[t].at = "pinned"
    BY DEF Promote, To, At
  <2>2. request' \in [Requests -> Asks]
    BY <2>1, RequestStep DEF Labels, Busy
  <2>3. request[t].p \in Projects
    BY <2>1, OwnProject
  <2>4. targets' \in [Projects -> Targets]
    BY <2>3 DEF Promote, Types, Targets
  <2> QED BY <2>2, <2>4 DEF Types, Promote, ConnectUnchanged
<1>2. Jobs'
  BY DEF Promote, At, To, ConnectUnchanged, Jobs, Busy
<1>3. Locks'
  BY DEF Promote, At, To, Locks, Publishing
<1>4. Stops'
  BY DEF Promote, At, To, ConnectUnchanged, Stops, Busy
<1>5. Written'
  BY DEF Promote, At, To, ConnectUnchanged, Written, Publishing
<1>6. Reserved'
  BY DEF Promote, At, To, ConnectUnchanged, Reserved, Types, Wanted, Publishing, Busy,
         Jobs
<1>7. Users'
  BY DEF Promote, At, To, ConnectUnchanged, Users, Authorized, Wanted, Publishing, Locks
<1>8. OneUserPerMachine'
  BY DEF Promote, ConnectUnchanged, OneUserPerMachine, Authorized
<1>9. Settles'
  BY DEF Promote, To, ConnectUnchanged, Settles
<1> QED BY <1>1, <1>2, <1>3, <1>4, <1>5, <1>6, <1>7, <1>8, <1>9

LEMMA PublishKept ==
    ASSUME MachineInvariant, Overlapping = FALSE, NEW t \in Requests, Publish(t)
    PROVE  MachineInvariant'
<1> USE TestMachineAssumption DEF MachineInvariant
<1> DEFINE p == request[t].p
           m == request[t].m
           next == [record[p] EXCEPT !.keptSeq = request[t].seq, !.at = m, !.rev = @ + 1,
                                     !.epoch = @ + 1, !.reauth = FALSE, !.by = manager]
<1>a. /\ request[t].at = "promoted" /\ p \in Projects /\ p \in touched
      /\ m \in Machines /\ m # None
      /\ \A u \in Requests : request[u].at \in Busy /\ request[u].p = p => u = t
  BY OwnProject DEF Publish, At, Busy
<1>b. /\ next \in Records /\ next.at = m /\ next.there = record[p].there
      /\ next.by = manager /\ next.reauth = FALSE
  <2> DEFINE v == record[p].rev + 1
             e == record[p].epoch + 1
  <2>1. /\ record[p] \in Records /\ v \in Nat /\ e \in Nat /\ request[t].seq \in Nat
        /\ manager \in Nat
    BY <1>a DEF Types, Records, Asks
  <2>2. next = [record[p] EXCEPT !.keptSeq = request[t].seq, !.at = m, !.rev = v,
                                 !.epoch = e, !.reauth = FALSE, !.by = manager]
    BY <2>1 DEF Records
  <2> HIDE DEF v, e, next
  <2> QED BY <1>a, <2>1, <2>2 DEF Records
<1>c. /\ record' = [record EXCEPT ![p] = next]
      /\ locked' = [locked EXCEPT ![p] = None]
      /\ job' = [job EXCEPT ![p] = None]
      /\ UNCHANGED <<pin, targets, manager, touched, generation, cancelled, stopper>>
  <2>1. record' = [record EXCEPT ![p] = next]
    BY DEF Publish
  <2>2. locked' = [locked EXCEPT ![p] = None] /\ job' = [job EXCEPT ![p] = None]
    BY DEF Publish, Ends
  <2>3. UNCHANGED <<pin, targets, manager, touched, generation, cancelled, stopper>>
    BY DEF Publish, ConnectUnchanged
  <2> HIDE DEF next
  <2> QED BY <2>1, <2>2, <2>3
<1> HIDE DEF next
<1>d. /\ request' \in [Requests -> Asks] /\ request'[t].at = "idle"
      /\ \A u \in Requests \ {t} : request'[u] = request[u]
  BY RequestOver DEF Publish, Ends
<1>e. \A u \in Requests \ {t} : Wanted(u)' = Wanted(u) /\ (Wanted(u) => request[u].p # p)
  BY <1>a, <1>c, <1>d DEF Wanted, Publishing, Busy
<1>f. ~Wanted(t)'
  BY <1>d DEF Wanted, Publishing
<1>g. Wanted(t) /\ targets[p].connected = m /\ targets[p].pending = None /\ pin[p] = m
  BY <1>a DEF Wanted, Publishing, Reserved
<1>h. \A q \in Projects \ {p} : record'[q] = record[q] /\ (Authorized(q)' = Authorized(q))
  BY <1>c DEF Authorized, Types
<1>i. record'[p] = next /\ locked'[p] = None
  BY <1>a, <1>c DEF Types
<1>1. Types'
  <2>1. /\ record' \in [Projects -> Records]
        /\ locked' \in [Projects -> Requests \cup {None}]
        /\ job' \in [Projects -> Requests \cup {None}]
    BY <1>a, <1>b, <1>c DEF Types
  <2> QED BY <1>c, <1>d, <2>1 DEF Types
<1>2. Jobs'
  <2>1. \A u \in Requests \ {t} : request[u].at # "idle" => request[u].p \in Projects
    BY OwnProject
  <2> QED BY <1>a, <1>c, <1>d, <2>1 DEF Jobs, Types
<1>3. Locks'
  <2>1. \A u \in Requests \ {t} : request[u].at \in Publishing =>
            request[u].p \in Projects /\ request[u].p # p
    BY <1>a, OwnProject DEF Publishing, Busy
  <2>2. locked[p] = t
    BY <1>a DEF Locks, Publishing
  <2> QED BY <1>a, <1>c, <1>d, <2>1, <2>2 DEF Locks, Types, Publishing
<1>4. Stops'
  BY <1>c, <1>d DEF Stops
<1>5. Written'
  <2>1. record[p].there
    BY <1>a DEF Written, Publishing
  <2>2. \A u \in Requests : request[u].at \in {"signing"} \cup Publishing => request[u].p \in Projects
    BY OwnProject DEF Publishing
  <2>3. \A q \in Projects : record'[q].there = record[q].there
    BY <1>b, <1>h, <1>i
  <2>4. manager \in Nat
    BY DEF Types
  <2> QED BY <1>b, <1>c, <1>d, <1>h, <1>i, <2>1, <2>2, <2>3, <2>4 DEF Written, Publishing
<1>6. Reserved'
  BY <1>c, <1>d, <1>e, <1>f DEF Reserved
<1>7. Users'
  <2> SUFFICES ASSUME NEW q \in Projects, Authorized(q)'
               PROVE  /\ q \in touched'
                      /\ locked'[q] = None =>
                          /\ targets'[q].connected = record'[q].at /\ pin'[q] = record'[q].at
                          /\ \A u \in Requests :
                              Wanted(u)' /\ request'[u].p # q => request'[u].m # record'[q].at
    BY DEF Users
  <2>1. CASE q = p
    <3>1. \A u \in Requests \ {t} : Wanted(u) => request[u].m # m
      BY <1>a, <1>e, <1>g DEF Reserved
    <3> QED BY <1>a, <1>b, <1>c, <1>d, <1>e, <1>f, <1>g, <1>i, <2>1, <3>1
  <2>2. CASE q # p
    <3>1. locked'[q] = locked[q]
      BY <1>c, <2>2 DEF Types
    <3> QED BY <1>c, <1>d, <1>e, <1>f, <1>h, <2>2, <3>1 DEF Users
  <2> QED BY <2>1, <2>2
<1>8. OneUserPerMachine'
  <2>1. \A q \in Projects \ {p} : Authorized(q) /\ locked[q] = None => record[q].at # m
    BY <1>a, <1>g DEF Users
  <2>2. \A q \in Projects \ {p} : locked'[q] = locked[q]
    BY <1>c DEF Types
  <2> QED BY <1>b, <1>h, <1>i, <2>1, <2>2 DEF OneUserPerMachine
<1>9. Settles'
  <2>1. targets[p] \in Targets
    BY <1>a DEF Types
  <2>2. targets'[p] = [connected |-> record'[p].at, pending |-> None]
    BY <1>b, <1>c, <1>g, <1>i, <2>1 DEF Targets
  <2>3. \A q \in Projects \ {p} : job'[q] = job[q] /\ record'[q] = record[q] /\ job[q] # t
    BY <1>a, <1>c, <1>h DEF Types, Jobs
  <2>4. \A q \in Projects \ {p} : job[q] # None => job[q] \in Requests
    BY DEF Types
  <2> QED BY <1>c, <1>d, <2>2, <2>3, <2>4 DEF Settles, Types
<1> QED BY <1>1, <1>2, <1>3, <1>4, <1>5, <1>6, <1>7, <1>8, <1>9

LEMMA ReconcileKept ==
    ASSUME MachineInvariant, Overlapping = FALSE, NEW t \in Requests, Reconcile(t)
    PROVE  MachineInvariant'
<1> USE TestMachineAssumption DEF MachineInvariant
<1>1. Types'
  <2>1. request[t].at # "idle" /\ request[t].p \in Projects
    BY OwnProject DEF Reconcile, At
  <2>2. Settled(record[request[t].p]) \in Targets
    BY <2>1 DEF Settled, Targets, Types, Records
  <2>3. targets' \in [Projects -> Targets] /\ job' \in [Projects -> Requests \cup {None}]
    BY <2>1, <2>2 DEF Reconcile, Ends, Types
  <2>4. request' \in [Requests -> Asks]
    BY RequestOver DEF Reconcile, Ends
  <2> QED BY <2>3, <2>4 DEF Types, Reconcile, ConnectUnchanged
<1>2. Jobs'
  BY DEF Reconcile, At, Ends, Over, Idle, ConnectUnchanged, Jobs, Busy, Types
<1>3. Locks'
  BY DEF Reconcile, Ends, Over, Idle, Locks, Publishing
<1>4. Stops'
  BY DEF Reconcile, Ends, Over, Idle, ConnectUnchanged, Stops
<1>5. Written'
  BY DEF Reconcile, Ends, Over, Idle, ConnectUnchanged, Written, Publishing
<1>6. Reserved'
  BY DEF Reconcile, At, Ends, Over, Idle, ConnectUnchanged, Reserved, Wanted,
         Publishing, Busy, Jobs
<1>7. Users'
  BY DEF Reconcile, Ends, Over, Idle, ConnectUnchanged, Settled, Users, Authorized,
         Wanted
<1>8. OneUserPerMachine'
  BY DEF Reconcile, ConnectUnchanged, OneUserPerMachine, Authorized
<1>9. Settles'
  BY DEF Reconcile, Ends, Over, ConnectUnchanged, Settled, Settles, Types, Jobs
<1> QED BY <1>1, <1>2, <1>3, <1>4, <1>5, <1>6, <1>7, <1>8, <1>9

LEMMA CountKept ==
    ASSUME MachineInvariant, Overlapping = FALSE, NEW s \in Stoppers, NEW p \in Projects, NEW kind \in {"stop", "resume", "release"}, Count(s, p, kind)
    PROVE  MachineInvariant'
<1> USE TestMachineAssumption DEF MachineInvariant
<1>1. Types'
  <2> DEFINE n == generation[p] + 1
             row == [at |-> "counted", p |-> p, kind |-> kind, n |-> n]
  <2>1. n \in Nat /\ row \in Stays
    BY DEF Types, Stays
  <2>2. generation' = [generation EXCEPT ![p] = n] /\ stopper' = [stopper EXCEPT ![s] = row]
    BY DEF Count
  <2> HIDE DEF n, row
  <2>3. generation' \in [Projects -> Nat] /\ stopper' \in [Stoppers -> Stays]
    BY <2>1, <2>2 DEF Types
  <2> QED BY <2>3 DEF Count, StopUnchanged, Types
<1>2. Jobs'
  <2>1. generation' = [generation EXCEPT ![p] = generation[p] + 1]
        /\ UNCHANGED <<request, touched, job>>
    BY DEF Count, StopUnchanged
  <2>2. \A q \in Projects : generation[q] \in Nat /\ generation[q] <= generation'[q]
    BY <2>1 DEF Types
  <2>3. \A t \in Requests : request[t].gen \in Nat
    BY DEF Types, Asks
  <2>4. \A t \in Requests : request[t].at # "idle" =>
            request[t].p \in Projects /\ request[t].gen <= generation'[request[t].p]
    <3> SUFFICES ASSUME NEW t \in Requests, request[t].at # "idle"
                 PROVE  request[t].p \in Projects /\ request[t].gen <= generation'[request[t].p]
      OBVIOUS
    <3>1. request[t].p \in Projects /\ request[t].gen <= generation[request[t].p]
      BY OwnProject DEF Jobs
    <3>2. generation'[request[t].p] \in Nat
      BY <2>1, <3>1 DEF Types
    <3> QED BY <2>2, <2>3, <3>1, <3>2
  <2> QED BY <2>1, <2>4 DEF Jobs
<1>3. Locks'
  BY DEF Count, StopUnchanged, Locks
<1>4. Stops'
  BY DEF Count, StopUnchanged, Stops, Types, Jobs
<1>5. Written'
  BY DEF Count, StopUnchanged, Written
<1>6. Reserved'
  BY DEF Count, StopUnchanged, Reserved, Wanted
<1>7. Users'
  BY DEF Count, StopUnchanged, Users, Authorized, Wanted
<1>8. OneUserPerMachine'
  BY DEF Count, StopUnchanged, OneUserPerMachine, Authorized
<1>9. Settles'
  BY DEF Count, StopUnchanged, Settles
<1> QED BY <1>1, <1>2, <1>3, <1>4, <1>5, <1>6, <1>7, <1>8, <1>9

LEMMA CancelKept ==
    ASSUME MachineInvariant, Overlapping = FALSE, NEW s \in Stoppers, Cancel(s)
    PROVE  MachineInvariant'
<1> USE TestMachineAssumption DEF MachineInvariant
<1>1. Types'
  <2>1. stopper[s] \in Stays /\ stopper[s].p \in Projects
    BY DEF Cancel, Types, Stops
  <2>2. [stopper[s] EXCEPT !.at = "cancelled"] \in Stays
    BY <2>1 DEF Stays
  <2>3. stopper' \in [Stoppers -> Stays] /\ cancelled' \subseteq Requests
    BY <2>1, <2>2 DEF Cancel, Types
  <2> QED BY <2>3 DEF Cancel, StopUnchanged, Types
<1>2. Jobs'
  BY DEF Cancel, StopUnchanged, Jobs
<1>3. Locks'
  BY DEF Cancel, StopUnchanged, Locks
<1>4. Stops'
  BY DEF Cancel, StopUnchanged, Stops, Jobs
<1>5. Written'
  BY DEF Cancel, StopUnchanged, Written
<1>6. Reserved'
  BY DEF Cancel, StopUnchanged, Reserved, Wanted
<1>7. Users'
  BY DEF Cancel, StopUnchanged, Users, Authorized, Wanted
<1>8. OneUserPerMachine'
  BY DEF Cancel, StopUnchanged, OneUserPerMachine, Authorized
<1>9. Settles'
  BY DEF Cancel, StopUnchanged, Settles
<1> QED BY <1>1, <1>2, <1>3, <1>4, <1>5, <1>6, <1>7, <1>8, <1>9

LEMMA MarkKept ==
    ASSUME MachineInvariant, Overlapping = FALSE, NEW s \in Stoppers, Mark(s)
    PROVE  MachineInvariant'
<1> USE TestMachineAssumption DEF MachineInvariant
<1> DEFINE kind == stopper[s].kind
<1>p. PICK p \in Projects : p = stopper[s].p
  BY DEF Mark, Stops
<1>a. /\ stopper[s].at = "cancelled" /\ stopper[s].p = p /\ locked[p] = None
      /\ stopper' = [stopper EXCEPT ![s] = Still]
      /\ UNCHANGED <<locked, pin, manager, touched, generation, job, cancelled, request>>
  BY <1>p DEF Mark, StopUnchanged
<1>b. \A t \in Requests : Wanted(t)' = Wanted(t) /\
          (Wanted(t) => request[t].p \in Projects /\ request[t].p # p)
  <2>1. \A t \in Requests : Wanted(t)' = Wanted(t)
    BY <1>a DEF Wanted
  <2>2. ASSUME NEW t \in Requests, Wanted(t) PROVE request[t].p \in Projects /\ request[t].p # p
    <3>1. request[t].at \in Busy /\ request[t].at # "idle"
      BY <2>2 DEF Wanted, Busy, Publishing
    <3>2. request[t].p \in Projects
      BY <3>1, OwnProject
    <3>3. CASE request[t].at \in Publishing
      BY <1>a, <3>2, <3>3 DEF Locks
    <3>4. CASE request[t].at \notin Publishing
      BY <1>a, <2>2, <3>1, <3>2, <3>4 DEF Stops, Wanted
    <3> QED BY <3>2, <3>3, <3>4
  <2> QED BY <2>1, <2>2
<1>c. kind \in {"stop", "resume", "release"} /\ record \in [Projects -> Records] /\ record[p] \in Records
  BY <1>a DEF Types, Stays
<1>d. /\ record'[p] \in Records /\ record' \in [Projects -> Records]
      /\ \A q \in Projects \ {p} : record'[q] = record[q]
      /\ record'[p].there = record[p].there /\ record'[p].by \in {record[p].by, 0}
      /\ record'[p].at \in {record[p].at, None}
      /\ Authorized(p)' => Authorized(p) /\ record'[p].at = record[p].at
      /\ IF kind = "release" THEN record'[p].at = None ELSE record'[p].at = record[p].at
  <2>1. CASE kind = "stop"
    <3>1. record' = [record EXCEPT ![p] = Stopped(record[p])]
      BY <1>p, <2>1 DEF Mark
    <3>2. Authorized(p)' => Authorized(p)
      <4>1. CASE record[p].there
        BY <1>a, <1>c, <3>1, <4>1, StoppedRecord DEF Authorized
      <4>2. CASE ~record[p].there
        BY <1>a, <1>c, <3>1, <4>2, StoppedRecord DEF Authorized
      <4> QED BY <4>1, <4>2
    <3> QED BY <1>a, <1>c, <2>1, <3>1, <3>2, StoppedRecord
  <2>2. CASE kind = "resume"
    <3>1. record' = [record EXCEPT ![p] = Resumed(record[p])]
      BY <1>p, <2>2 DEF Mark
    <3>2. Authorized(p)' => Authorized(p)
      BY <1>a, <1>c, <3>1, ResumedRecord DEF Authorized
    <3> QED BY <1>a, <1>c, <2>2, <3>1, <3>2, ResumedRecord
  <2>3. CASE kind = "release"
    <3>1. record' = [record EXCEPT ![p] = Released(record[p])]
      BY <1>p, <2>3 DEF Mark
    <3>2. record'[p].at = None
      BY <1>a, <1>c, <3>1, ReleasedRecord DEF Written
    <3>3. record'[p].by \in {record[p].by, 0} /\ record'[p] \in Records
          /\ record'[p].there = record[p].there
      BY <1>a, <1>c, <3>1, ReleasedRecord
    <3> QED BY <1>a, <1>c, <2>3, <3>1, <3>2, <3>3 DEF Authorized
  <2> QED BY <1>c, <2>1, <2>2, <2>3
<1>e. /\ targets' \in [Projects -> Targets]
      /\ \A q \in Projects \ {p} : targets'[q] = targets[q]
      /\ IF kind = "release" THEN targets'[p] = [connected |-> None, pending |-> None]
                             ELSE targets' = targets
  <2>1. NoTarget \in Targets
    BY DEF NoTarget, Targets
  <2> QED BY <1>a, <2>1 DEF Mark, Types, NoTarget
<1>f. \A q \in Projects \ {p} : Authorized(q)' = Authorized(q)
  BY <1>a, <1>d DEF Authorized
<1> HIDE DEF kind
<1>1. Types'
  <2>1. Still \in Stays
    BY DEF Still, Stays
  <2> QED BY <1>a, <1>d, <1>e, <2>1 DEF Types
<1>2. Jobs'
  BY <1>a DEF Jobs
<1>3. Locks'
  BY <1>a DEF Locks
<1>4. Stops'
  <2>1. \A v \in Stoppers : stopper'[v].at # "idle" => stopper'[v] = stopper[v]
    BY <1>a DEF Still, Types
  <2> QED BY <1>a, <2>1 DEF Stops
<1>5. Written'
  <2>1. manager \in Nat /\ \A q \in Projects : record[q].by \in Nat
    BY DEF Types, Records
  <2>2. \A q \in Projects : /\ record'[q].there = record[q].there
                            /\ record'[q].at \in {record[q].at, None} /\ record'[q].by <= manager
    BY <1>d, <2>1 DEF Written
  <2>3. \A t \in Requests : request[t].at \in {"signing"} \cup Publishing => request[t].p \in Projects
    BY OwnProject DEF Publishing
  <2> QED BY <1>a, <2>2, <2>3 DEF Written
<1>6. Reserved'
  <2>1. \A t \in Requests : Wanted(t) => targets'[request[t].p] = targets[request[t].p]
    BY <1>b, <1>e
  <2> QED BY <1>a, <1>b, <2>1 DEF Reserved
<1>7. Users'
  <2> SUFFICES ASSUME NEW q \in Projects, Authorized(q)'
               PROVE  /\ q \in touched'
                      /\ locked'[q] = None =>
                          /\ targets'[q].connected = record'[q].at /\ pin'[q] = record'[q].at
                          /\ \A u \in Requests :
                              Wanted(u)' /\ request'[u].p # q => request'[u].m # record'[q].at
    BY DEF Users
  <2>1. Authorized(q) /\ record'[q].at = record[q].at /\ record'[q].at # None
    BY <1>d, <1>f DEF Authorized
  <2>2. targets'[q] = targets[q]
    BY <1>d, <1>e, <2>1
  <2> QED BY <1>a, <1>b, <2>1, <2>2 DEF Users
<1>8. OneUserPerMachine'
  BY <1>a, <1>d, <1>f DEF OneUserPerMachine
<1>9. Settles'
  <2>1. touched \subseteq Projects
    BY DEF Types
  <2> QED BY <1>a, <1>d, <1>e, <2>1 DEF Settles
<1> QED BY <1>1, <1>2, <1>3, <1>4, <1>5, <1>6, <1>7, <1>8, <1>9

LEMMA BaselineBeginKept ==
    ASSUME MachineInvariant, Overlapping = FALSE, NEW p \in Projects, BaselineBegin(p)
    PROVE  MachineInvariant'
<1> USE TestMachineAssumption DEF MachineInvariant
<1>a. UNCHANGED <<locked, pin, targets, manager, touched, generation, job, cancelled,
                   request, stopper>>
  BY DEF BaselineBegin, AgentUnchanged, manages
<1>b. /\ record' \in [Projects -> Records]
      /\ \A q \in Projects : /\ record'[q].there = record[q].there /\ record'[q].at = record[q].at
                            /\ record'[q].reauth = record[q].reauth /\ record'[q].by = record[q].by
  <2>1. record \in [Projects -> Records] /\ record[p] \in Records
    BY DEF Types
  <2>2. PICK n \in Nat, done \in BOOLEAN :
            record' = [record EXCEPT ![p] = [record[p] EXCEPT !.tools = n, !.complete = done]]
    <3>1. record[p].tools \in Nat /\ record[p].tools + 1 \in Nat
      BY <2>1 DEF Records
    <3> QED BY <2>1, <3>1 DEF BaselineBegin, Records
  <2> QED BY <2>1, <2>2 DEF Records
<1>c. /\ \A q \in Projects : Authorized(q)' = Authorized(q)
      /\ \A t \in Requests : Wanted(t)' = Wanted(t)
  BY <1>a, <1>b DEF Authorized, Wanted
<1>1. Types'
  BY <1>a, <1>b DEF Types
<1>2. Jobs'
  BY <1>a DEF Jobs
<1>3. Locks'
  BY <1>a DEF Locks
<1>4. Stops'
  BY <1>a DEF Stops
<1>5. Written'
  <2>1. \A t \in Requests : request[t].at \in {"signing"} \cup Publishing => request[t].p \in Projects
    BY OwnProject DEF Publishing
  <2> QED BY <1>a, <1>b, <2>1 DEF Written
<1>6. Reserved'
  BY <1>a, <1>c DEF Reserved
<1>7. Users'
  BY <1>a, <1>b, <1>c DEF Users
<1>8. OneUserPerMachine'
  BY <1>a, <1>b, <1>c DEF OneUserPerMachine
<1>9. Settles'
  <2>1. touched \subseteq Projects
    BY DEF Types
  <2> QED BY <1>a, <1>b, <2>1 DEF Settles
<1> QED BY <1>1, <1>2, <1>3, <1>4, <1>5, <1>6, <1>7, <1>8, <1>9

LEMMA BaselineDoneKept ==
    ASSUME MachineInvariant, Overlapping = FALSE, NEW p \in Projects, BaselineDone(p)
    PROVE  MachineInvariant'
<1> USE TestMachineAssumption DEF MachineInvariant
<1>a. UNCHANGED <<locked, pin, targets, manager, touched, generation, job, cancelled,
                   request, stopper>>
  BY DEF BaselineDone, AgentUnchanged, manages
<1>b. /\ record' \in [Projects -> Records]
      /\ \A q \in Projects : /\ record'[q].there = record[q].there /\ record'[q].at = record[q].at
                            /\ record'[q].reauth = record[q].reauth /\ record'[q].by = record[q].by
  <2>1. record \in [Projects -> Records] /\ record[p] \in Records
    BY DEF Types
  <2>2. PICK n \in Nat, done \in BOOLEAN :
            record' = [record EXCEPT ![p] = [record[p] EXCEPT !.tools = n, !.complete = done]]
    <3>1. record[p].tools \in Nat /\ record[p].tools + 1 \in Nat
      BY <2>1 DEF Records
    <3> QED BY <2>1, <3>1 DEF BaselineDone, Records
  <2> QED BY <2>1, <2>2 DEF Records
<1>c. /\ \A q \in Projects : Authorized(q)' = Authorized(q)
      /\ \A t \in Requests : Wanted(t)' = Wanted(t)
  BY <1>a, <1>b DEF Authorized, Wanted
<1>1. Types'
  BY <1>a, <1>b DEF Types
<1>2. Jobs'
  BY <1>a DEF Jobs
<1>3. Locks'
  BY <1>a DEF Locks
<1>4. Stops'
  BY <1>a DEF Stops
<1>5. Written'
  <2>1. \A t \in Requests : request[t].at \in {"signing"} \cup Publishing => request[t].p \in Projects
    BY OwnProject DEF Publishing
  <2> QED BY <1>a, <1>b, <2>1 DEF Written
<1>6. Reserved'
  BY <1>a, <1>c DEF Reserved
<1>7. Users'
  BY <1>a, <1>b, <1>c DEF Users
<1>8. OneUserPerMachine'
  BY <1>a, <1>b, <1>c DEF OneUserPerMachine
<1>9. Settles'
  <2>1. touched \subseteq Projects
    BY DEF Types
  <2> QED BY <1>a, <1>b, <2>1 DEF Settles
<1> QED BY <1>1, <1>2, <1>3, <1>4, <1>5, <1>6, <1>7, <1>8, <1>9

LEMMA KeyFailsKept ==
    ASSUME MachineInvariant, Overlapping = FALSE, NEW p \in Projects, KeyFails(p)
    PROVE  MachineInvariant'
<1> USE TestMachineAssumption DEF MachineInvariant
<1>1. Types'
  <2>1. record[p] \in Records
    BY DEF Types
  <2>2. record' \in [Projects -> Records]
    BY <2>1, StoppedRecord DEF KeyFails, Types
  <2> QED BY <2>2 DEF KeyFails, StopUnchanged, Types
<1>2. Jobs'
  BY DEF KeyFails, StopUnchanged, Jobs
<1>3. Locks'
  BY DEF KeyFails, StopUnchanged, Locks
<1>4. Stops'
  BY DEF KeyFails, StopUnchanged, Stops
<1>5. Written'
  BY DEF KeyFails, StopUnchanged, Stopped, Required, Written, Types
<1>6. Reserved'
  BY DEF KeyFails, StopUnchanged, Reserved, Wanted
<1>7. Users'
  BY DEF KeyFails, StopUnchanged, Stopped, Required, Users, Authorized, Wanted
<1>8. OneUserPerMachine'
  BY DEF KeyFails, StopUnchanged, Stopped, Required, OneUserPerMachine, Authorized
<1>9. Settles'
  BY DEF KeyFails, StopUnchanged, Stopped, Required, Settles
<1> QED BY <1>1, <1>2, <1>3, <1>4, <1>5, <1>6, <1>7, <1>8, <1>9

\* No other step touches what the invariant is about.
LEMMA OthersKept ==
    ASSUME MachineInvariant,
           UNCHANGED <<record, locked, pin, targets, manager, touched, generation, job,
                       cancelled, request, stopper>>
    PROVE  MachineInvariant'
<1>1. /\ \A p \in Projects : Authorized(p)' = Authorized(p)
      /\ \A t \in Requests : Wanted(t)' = Wanted(t)
  BY DEF Authorized, Wanted
<1>2. Types' /\ Jobs' /\ Locks' /\ Stops'
  BY DEF MachineInvariant, Types, Jobs, Locks, Stops
<1>3. Written' /\ Reserved' /\ Users' /\ OneUserPerMachine' /\ Settles'
  BY <1>1 DEF MachineInvariant, Written, Reserved, Users, OneUserPerMachine, Settles
<1> QED BY <1>2, <1>3 DEF MachineInvariant

LEMMA InitHolds == ASSUME Init PROVE MachineInvariant
<1> USE TestMachineAssumption
<1>1. Blank \in Records /\ NoTarget \in Targets /\ Idle \in Asks /\ Still \in Stays
  BY DEF Blank, Records, NoTarget, Targets, Idle, Asks, Labels, Still, Stays
<1>2. Types
  BY <1>1 DEF Init, Types
<1>3. \A p \in Projects : /\ record[p].at = None /\ ~record[p].there /\ record[p].by = 0
                          /\ record[p].reauth
  BY DEF Init, Blank
<1>4. /\ \A t \in Requests : request[t].at = "idle"
      /\ \A s \in Stoppers : stopper[s].at = "idle"
      /\ \A p \in Projects : job[p] = None /\ locked[p] = None
      /\ manager = 1 /\ touched = {}
  BY DEF Init, Idle, Still
<1>5. Jobs /\ Locks /\ Stops
  BY <1>4 DEF Jobs, Locks, Stops, Publishing
<1>6. Written /\ Reserved
  BY <1>3, <1>4 DEF Written, Reserved, Wanted, Publishing
<1>7. Users /\ OneUserPerMachine /\ Settles
  BY <1>3, <1>4 DEF Users, OneUserPerMachine, Settles, Authorized
<1> QED BY <1>2, <1>5, <1>6, <1>7 DEF MachineInvariant

LEMMA StepKept ==
    ASSUME MachineInvariant, Overlapping = FALSE, [Next]_vars
    PROVE  MachineInvariant'
<1>1. CASE \E p \in Projects : Touch(p) \/ KeyFails(p)
  BY <1>1, TouchKept, KeyFailsKept
<1>2. CASE Restart
  BY <1>2, RestartKept
<1>3. CASE \E t \in Requests : Connect(t)
  <2>1. PICK t \in Requests : Connect(t)
    BY <1>3
  <2>2. CASE \E p \in Projects, m \in Machines : Ask(t, p, m)
    BY <2>2, AskKept
  <2>3. CASE Register(t) \/ Reserve(t) \/ Begin(t) \/ Fail(t) \/ Refuse(t)
    BY <2>3, RegisterKept, ReserveKept, BeginKept, FailKept, RefuseKept
  <2>4. CASE Pin(t) \/ Promote(t) \/ Publish(t) \/ Reconcile(t)
    BY <2>4, PinKept, PromoteKept, PublishKept, ReconcileKept
  <2> QED BY <2>1, <2>2, <2>3, <2>4 DEF Connect
<1>4. CASE \E s \in Stoppers : Stopping(s)
  <2>1. PICK s \in Stoppers : Stopping(s)
    BY <1>4
  <2>2. CASE \E p \in Projects, kind \in {"stop", "resume", "release"} : Count(s, p, kind)
    BY <2>2, CountKept
  <2>3. CASE Cancel(s) \/ Mark(s)
    BY <2>3, CancelKept, MarkKept
  <2> QED BY <2>1, <2>2, <2>3 DEF Stopping
<1>5. CASE Agents
  <2>1. CASE \E p \in Projects : BaselineBegin(p) \/ BaselineDone(p)
    BY <2>1, BaselineBeginKept, BaselineDoneKept
  <2>2. CASE \E p \in Projects : Install(p) \/ Run(p)
    BY <2>2, OthersKept DEF Install, Run, AgentUnchanged, manages
  <2>3. CASE Ran
    BY <2>3, OthersKept DEF Ran, AgentUnchanged, manages
  <2> QED BY <1>5, <2>1, <2>2, <2>3 DEF Agents
<1>6. CASE UNCHANGED vars
  BY <1>6, OthersKept DEF vars, manages
<1> QED BY <1>1, <1>2, <1>3, <1>4, <1>5, <1>6 DEF Next

LEMMA MachineInvariantHolds ==
    ASSUME Overlapping = FALSE
    PROVE  Spec => []MachineInvariant
<1>1. Init => MachineInvariant
  BY InitHolds
<1>2. MachineInvariant /\ [Next]_vars => MachineInvariant'
  BY StepKept
<1> QED BY <1>1, <1>2, PTL DEF Spec

(***************************************************************************)
(* Theorems.                                                               *)
(***************************************************************************)

\* Of two projects at most one is authorized to use a machine: what
\* reserve_target, finalize and settle_reservation (test_machine.py) are for,
\* through every death of the manager, refused key, stop and Release.
THEOREM OneUser ==
    ASSUME Overlapping = FALSE
    PROVE  Spec => []OneUserPerMachine
<1>1. MachineInvariant => OneUserPerMachine
  BY DEF MachineInvariant
<1> QED BY <1>1, MachineInvariantHolds, PTL

\* A project authorized to use a machine holds its reservation and has published
\* its host key (promote_reservation and finalize, test_machine.py).
THEOREM UsersHoldTheirs ==
    ASSUME Overlapping = FALSE
    PROVE  Spec => []UsesItsOwn
<1>1. MachineInvariant => UsesItsOwn
  BY DEF MachineInvariant, Users, UsesItsOwn
<1> QED BY <1>1, MachineInvariantHolds, PTL

\* With no Connect under way a connected project holds what its record says
\* (settle_reservation and release, test_machine.py).
THEOREM NothingLeft ==
    ASSUME Overlapping = FALSE
    PROVE  Spec => []NothingHeldBehind
<1>1. MachineInvariant => NothingHeldBehind
  BY DEF MachineInvariant, Settles, NothingHeldBehind
<1> QED BY <1>1, MachineInvariantHolds, PTL

\* The variables have their types.
THEOREM TypeCorrect ==
    ASSUME Overlapping = FALSE
    PROVE  Spec => []TypeOK
<1>1. ASSUME MachineInvariant PROVE TypeOK
  <2>1. \A p \in Projects : record[p] \in [there : BOOLEAN, at : Machines \cup {None},
            reauth : BOOLEAN, by : 0..manager, rev : Nat, epoch : Nat, seq : Nat,
            keptSeq : Nat \cup {-1}, tools : Nat, complete : BOOLEAN]
    <3>1. manager \in Nat /\ \A p \in Projects : record[p] \in Records /\ record[p].by <= manager
      BY <1>1 DEF MachineInvariant, Types, Written
    <3> QED BY <3>1 DEF Records
  <2>2. \A t \in Requests : request[t].p \in Projects \/ At(t, "idle")
    BY <1>1, OwnProject DEF At
  <2>3. \A p \in Projects : job[p] # None => request[job[p]].p = p
    BY <1>1 DEF MachineInvariant, Jobs
  <2> QED BY <1>1, <2>1, <2>2, <2>3 DEF MachineInvariant, Types, Targets, TypeOK
<1> QED BY <1>1, MachineInvariantHolds, PTL

(***************************************************************************)
(* Evidence.  A stamp that still fits its record was taken under the       *)
(* authorization that is in force, with the tools that are installed: the  *)
(* revision, the epoch and the number of the tools only grow, and each     *)
(* change of the machine or of the authorization moves one of them.        *)
(***************************************************************************)
Grows(old, new) ==
    /\ new.rev >= old.rev /\ new.epoch >= old.epoch /\ new.tools >= old.tools
    /\ new.rev = old.rev /\ new.epoch = old.epoch /\ new.tools = old.tools =>
        /\ new.at = old.at /\ (old.complete => new.complete)
        /\ ~new.reauth => ~old.reauth /\ new.by = old.by

LEMMA RequiredGrows ==
    ASSUME NEW rec \in Records
    PROVE  Grows(rec, Required(rec))
<1> DEFINE e == rec.epoch + 1
           next == [rec EXCEPT !.reauth = TRUE, !.epoch = e, !.by = 0]
<1>1. rec.rev \in Nat /\ rec.epoch \in Nat /\ rec.tools \in Nat
      /\ e \in Nat /\ e > rec.epoch /\ e # rec.epoch
  BY DEF Records
<1> HIDE DEF e
<1>2. next.rev = rec.rev /\ next.epoch = e /\ next.tools = rec.tools
  BY DEF Records
<1>3. Required(rec) = IF rec.reauth THEN rec ELSE next
  BY DEF Required, e
<1> HIDE DEF next
<1>4. Grows(rec, next)
  BY <1>1, <1>2 DEF Grows
<1>5. Grows(rec, rec)
  BY <1>1 DEF Grows
<1> QED BY <1>3, <1>4, <1>5

\* Another stop counted changes none of these.
LEMMA SeqGrows ==
    ASSUME NEW rec \in Records, NEW n \in Nat, NEW r \in Records, Grows([rec EXCEPT !.seq = n], r)
    PROVE  Grows(rec, r)
BY DEF Grows, Records

LEMMA StoppedGrows ==
    ASSUME NEW rec \in Records
    PROVE  Grows(rec, Stopped(rec))
<1> DEFINE n == rec.seq + 1
           next == [rec EXCEPT !.seq = n]
<1>1. n \in Nat
  BY DEF Records
<1> HIDE DEF n
<1>2. next \in Records
  BY <1>1 DEF Records
<1>3. Stopped(rec) = IF rec.there THEN Required(next) ELSE rec
  BY DEF Stopped, n
<1>4. Grows(rec, Required(next))
  BY <1>1, <1>2, RequiredGrows, RequiredRecord, SeqGrows
<1>5. Grows(rec, rec)
  BY DEF Grows, Records
<1> QED BY <1>3, <1>4, <1>5

LEMMA ResumedGrows ==
    ASSUME NEW rec \in Records
    PROVE  Grows(rec, Resumed(rec))
<1> DEFINE n == rec.seq + 1
           next == [rec EXCEPT !.seq = n]
           kept == rec.at # None /\ ~rec.reauth /\ rec.by = manager /\ rec.keptSeq = rec.seq
           keeps == [next EXCEPT !.keptSeq = next.seq]
<1>1. n \in Nat
  BY DEF Records
<1>2. Resumed(rec) = IF ~rec.there THEN rec ELSE IF kept THEN keeps ELSE Required(next)
  BY DEF Resumed
<1> HIDE DEF n, kept
<1>3. next \in Records
  BY <1>1 DEF Records
<1>4. Grows(rec, Required(next))
  BY <1>1, <1>3, RequiredGrows, RequiredRecord, SeqGrows
<1>5. Grows(rec, rec)
  BY DEF Grows, Records
<1>6. Grows(rec, keeps)
  BY <1>1 DEF Grows, Records
<1> QED BY <1>2, <1>4, <1>5, <1>6

LEMMA ReleasedGrows ==
    ASSUME NEW rec \in Records
    PROVE  Grows(rec, Released(rec))
<1> DEFINE q == rec.seq + 1
           v == rec.rev + 1
           e == rec.epoch + 1
           next == [rec EXCEPT !.seq = q, !.at = None, !.rev = v, !.epoch = e,
                               !.reauth = TRUE, !.by = 0]
<1>1. /\ rec.rev \in Nat /\ rec.epoch \in Nat /\ rec.tools \in Nat
      /\ v \in Nat /\ e \in Nat /\ v > rec.rev /\ v # rec.rev /\ e > rec.epoch
  BY DEF Records
<1> HIDE DEF q, v, e
<1>2. next.rev = v /\ next.epoch = e /\ next.tools = rec.tools
  BY DEF Records
<1>3. Released(rec) = IF rec.there THEN next ELSE rec
  BY DEF Released, q, v, e
<1> HIDE DEF next
<1>4. Grows(rec, next) /\ Grows(rec, rec)
  BY <1>1, <1>2 DEF Grows
<1> QED BY <1>3, <1>4

LEMMA AgentsGrow ==
    ASSUME NEW rec \in Records
    PROVE  LET began == [rec EXCEPT !.there = TRUE]
               opened == [rec EXCEPT !.tools = @ + 1, !.complete = FALSE]
               done == [rec EXCEPT !.complete = TRUE]
           IN /\ began \in Records /\ Grows(rec, began)
              /\ opened \in Records /\ Grows(rec, opened)
              /\ done \in Records /\ Grows(rec, done)
<1> DEFINE began == [rec EXCEPT !.there = TRUE]
           n == rec.tools + 1
           opened == [rec EXCEPT !.tools = n, !.complete = FALSE]
           done == [rec EXCEPT !.complete = TRUE]
<1>1. n \in Nat /\ n > rec.tools /\ n # rec.tools /\ Grows(rec, rec)
  BY DEF Records, Grows
<1> HIDE DEF n
<1>2. began \in Records /\ done \in Records /\ opened \in Records
  BY <1>1 DEF Records
<1>3. Grows(rec, began) /\ Grows(rec, done)
  BY DEF Records, Grows
<1>4. opened.rev = rec.rev /\ opened.epoch = rec.epoch /\ opened.tools = n
  BY DEF Records
<1> HIDE DEF opened
<1>5. Grows(rec, opened)
  BY <1>1, <1>4 DEF Records, Grows
<1> QED BY <1>2, <1>3, <1>5 DEF opened, n

\* What a step does to a record, and to what its project may do with it.
GrowsFor(p) ==
    LET old == record[p]
        new == record'[p] IN
    /\ Grows(old, new)
    /\ /\ new.rev = old.rev /\ new.epoch = old.epoch /\ new.tools = old.tools
       /\ Authorized(p)' /\ locked'[p] = None
       => Authorized(p) /\ locked[p] = None

LEMMA RecordGrows ==
    ASSUME MachineInvariant, [Next]_vars, NEW p \in Projects
    PROVE  GrowsFor(p)
<1> USE TestMachineAssumption
<1>1. record \in [Projects -> Records] /\ record[p] \in Records /\ Grows(record[p], record[p])
  BY DEF MachineInvariant, Types, Grows, Records
<1>2. ASSUME UNCHANGED <<record, locked, manager>> PROVE GrowsFor(p)
  BY <1>1, <1>2 DEF GrowsFor, Authorized
<1>3. ASSUME NEW q \in Projects, NEW r \in Records, Grows(record[q], r),
             record' = [record EXCEPT ![q] = r], UNCHANGED <<locked, manager>>
      PROVE  GrowsFor(p)
  <2>1. CASE p = q
    <3>1. record'[p] = r
      BY <1>1, <1>3, <2>1
    <3> QED BY <1>1, <1>3, <2>1, <3>1 DEF GrowsFor, Grows, Authorized
  <2>2. CASE p # q
    BY <1>1, <1>3, <2>2 DEF GrowsFor, Authorized
  <2> QED BY <2>1, <2>2
<1>4. ASSUME NEW q \in Projects, Touch(q) \/ KeyFails(q) PROVE GrowsFor(p)
  <2>1. record[q] \in Records
    BY <1>1
  <2>2. UNCHANGED record \/ record' = [record EXCEPT ![q] = Stopped(record[q])]
    BY <1>1, <1>4 DEF Touch, KeyFails
  <2>3. UNCHANGED <<locked, manager>>
    BY <1>4 DEF Touch, KeyFails, StopUnchanged
  <2>4. Stopped(record[q]) \in Records /\ Grows(record[q], Stopped(record[q]))
    BY <2>1, StoppedRecord, StoppedGrows
  <2> QED BY <1>2, <1>3, <2>2, <2>3, <2>4
<1>5. ASSUME NEW s \in Stoppers, Mark(s) PROVE GrowsFor(p)
  <2> DEFINE q == stopper[s].p
  <2>1. q \in Projects /\ record[q] \in Records /\ stopper[s].kind \in {"stop", "resume", "release"}
    BY <1>1, <1>5 DEF MachineInvariant, Types, Stops, Stays, Mark
  <2>2. \E r \in {Stopped(record[q]), Resumed(record[q]), Released(record[q])} :
            record' = [record EXCEPT ![q] = r]
    BY <1>1, <1>5, <2>1 DEF Mark
  <2>3. \A r \in {Stopped(record[q]), Resumed(record[q]), Released(record[q])} :
            r \in Records /\ Grows(record[q], r)
    <3>1. Stopped(record[q]) \in Records /\ Grows(record[q], Stopped(record[q]))
      BY <2>1, StoppedRecord, StoppedGrows
    <3>2. Resumed(record[q]) \in Records /\ Grows(record[q], Resumed(record[q]))
      BY <2>1, ResumedRecord, ResumedGrows
    <3>3. Released(record[q]) \in Records /\ Grows(record[q], Released(record[q]))
      BY <2>1, ReleasedRecord, ReleasedGrows
    <3> QED BY <3>1, <3>2, <3>3
  <2>4. UNCHANGED <<locked, manager>>
    BY <1>5 DEF Mark, StopUnchanged
  <2> HIDE DEF q
  <2> QED BY <1>3, <2>1, <2>2, <2>3, <2>4
<1>6. ASSUME NEW q \in Projects, BaselineBegin(q) \/ BaselineDone(q) PROVE GrowsFor(p)
  <2>1. record[q] \in Records /\ record[q].tools \in Nat
    BY <1>1 DEF Records
  <2>2. PICK r \in {[record[q] EXCEPT !.tools = @ + 1, !.complete = FALSE],
                    [record[q] EXCEPT !.complete = TRUE]} :
            record' = [record EXCEPT ![q] = r]
    BY <1>1, <1>6 DEF BaselineBegin, BaselineDone
  <2>3. r \in Records /\ Grows(record[q], r)
    BY <2>1, AgentsGrow
  <2>4. UNCHANGED <<locked, manager>>
    BY <1>6 DEF BaselineBegin, BaselineDone, AgentUnchanged
  <2> QED BY <1>3, <2>2, <2>3, <2>4
<1>7. ASSUME Restart PROVE GrowsFor(p)
  <2>1. manager \in Nat /\ record[p].by \in Nat /\ record[p].by <= manager
    BY <1>1 DEF MachineInvariant, Types, Written, Records
  <2>2. record' = record /\ manager' = manager + 1
    BY <1>7 DEF Restart
  <2> QED BY <1>1, <2>1, <2>2 DEF GrowsFor, Authorized
<1>8. ASSUME NEW t \in Requests, Begin(t) PROVE GrowsFor(p)
  <2> DEFINE q == request[t].p
             r == [record[q] EXCEPT !.there = TRUE]
  <2>1. q \in Projects /\ record[q] \in Records
    BY <1>1, <1>8, OwnProject DEF Begin, At
  <2>2. r \in Records /\ Grows(record[q], r)
    BY <2>1, AgentsGrow
  <2>3. record' = [record EXCEPT ![q] = r] /\ UNCHANGED <<locked, manager>>
    BY <1>1, <1>8 DEF Begin, ConnectUnchanged
  <2> HIDE DEF q, r
  <2> QED BY <1>3, <2>1, <2>2, <2>3
<1>9. ASSUME NEW t \in Requests, Pin(t) PROVE GrowsFor(p)
  <2>1. record' = record /\ manager' = manager /\ request[t].p \in Projects
        /\ locked' = [locked EXCEPT ![request[t].p] = t] /\ locked[request[t].p] = None
    BY <1>9, OwnProject DEF Pin, ConnectUnchanged, At
  <2> QED BY <1>1, <2>1 DEF GrowsFor, Authorized, MachineInvariant, Types
<1>10. ASSUME NEW t \in Requests, Publish(t) PROVE GrowsFor(p)
  <2> DEFINE q == request[t].p
  <2>1. /\ q \in Projects
        /\ record' = [record EXCEPT ![q] = [record[q] EXCEPT
                    !.keptSeq = request[t].seq, !.at = request[t].m, !.rev = @ + 1,
                    !.epoch = @ + 1, !.reauth = FALSE, !.by = manager]]
        /\ locked' = [locked EXCEPT ![q] = None] /\ manager' = manager
    BY <1>10, OwnProject DEF Publish, ConnectUnchanged, At
  <2>2. CASE p = q
    <3>1. /\ record'[p].rev = record[p].rev + 1 /\ record'[p].epoch = record[p].epoch + 1
          /\ record'[p].tools = record[p].tools
      BY <1>1, <2>1, <2>2 DEF Records
    <3>2. record[p].rev \in Nat /\ record[p].epoch \in Nat /\ record[p].tools \in Nat
      BY <1>1 DEF Records
    <3> QED BY <3>1, <3>2 DEF GrowsFor, Grows
  <2>3. CASE p # q
    BY <1>1, <2>1, <2>3 DEF GrowsFor, Authorized, MachineInvariant, Types
  <2> QED BY <2>2, <2>3
<1>11. ASSUME NEW t \in Requests,
              \/ \E q \in Projects, m \in Machines : Ask(t, q, m)
              \/ Register(t) \/ Reserve(t) \/ Fail(t) \/ Refuse(t) \/ Promote(t) \/ Reconcile(t)
       PROVE  GrowsFor(p)
  BY <1>2, <1>11 DEF Ask, Register, Reserve, Fail, Refuse, Promote, Reconcile, ConnectUnchanged
<1>12. ASSUME NEW s \in Stoppers,
              \/ \E q \in Projects, kind \in {"stop", "resume", "release"} : Count(s, q, kind)
              \/ Cancel(s)
       PROVE  GrowsFor(p)
  BY <1>2, <1>12 DEF Count, Cancel, StopUnchanged
<1>13. ASSUME UNCHANGED vars \/ Ran \/ \E q \in Projects : Install(q) \/ Run(q) PROVE GrowsFor(p)
  BY <1>2, <1>13 DEF vars, Ran, Install, Run, AgentUnchanged
<1> QED
  BY <1>4, <1>5, <1>6, <1>7, <1>8, <1>9, <1>10, <1>11, <1>12, <1>13, Zenon
     DEF Next, Connect, Stopping, Agents

\* What is known of evidence whose stamp still fits: the tools are complete,
\* and if the project may use its machine, they are the ones on it.
Stands(p, m, c) ==
    /\ record[p].complete
    /\ Authorized(p) /\ locked[p] = None => content[m] = c

Evidenced ==
    /\ content \in [Machines -> Nat]
    /\ evidence = [at |-> evidence.at, p |-> evidence.p, stamp |-> evidence.stamp,
                   on |-> evidence.on]
    /\ evidence.at # "none" =>
        \E p \in Projects, m \in Machines, v, e, n, c \in Nat :
            /\ evidence.p = p /\ evidence.stamp = <<m, v, e, n>> /\ evidence.on = <<m, c>>
            /\ v <= record[p].rev /\ e <= record[p].epoch /\ n <= record[p].tools
            /\ Stamp(p) = <<m, v, e, n>> => Stands(p, m, c)

LEMMA EvidencedStep ==
    ASSUME MachineInvariant, Overlapping = FALSE, Evidenced, [Next]_vars
    PROVE  Evidenced'
<1> USE TestMachineAssumption
<1>1. record \in [Projects -> Records] /\ content \in [Machines -> Nat]
  BY DEF MachineInvariant, Types, Evidenced
<1>2. ASSUME NEW q \in Projects, Run(q) PROVE Evidenced'
  <2>1. record' = record /\ content' = content /\ record[q] \in Records
    BY <1>1, <1>2 DEF Run, AgentUnchanged
  <2>2. PICK m \in Machines, v \in Nat, e \in Nat, n \in Nat :
            /\ record[q].at = m /\ record[q].rev = v /\ record[q].epoch = e
            /\ record[q].tools = n /\ record[q].complete
    BY <1>2, <2>1 DEF Run, Usable, Authorized, Records
  <2>3. PICK c \in Nat : content[m] = c
    BY <1>1
  <2>4. /\ evidence'.p = q /\ evidence'.on = <<m, c>> /\ evidence'.stamp = <<m, v, e, n>>
        /\ evidence' = [at |-> evidence'.at, p |-> evidence'.p, stamp |-> evidence'.stamp,
                        on |-> evidence'.on]
    BY <1>2, <2>2, <2>3 DEF Run, Stamp
  <2>5. Stands(q, m, c)'
    BY <2>1, <2>2, <2>3 DEF Stands
  <2>6. v <= record'[q].rev /\ e <= record'[q].epoch /\ n <= record'[q].tools
    BY <2>1, <2>2
  <2> QED BY <1>1, <2>1, <2>4, <2>5, <2>6 DEF Evidenced
<1>3. ASSUME NEW q \in Projects, Install(q)
      PROVE  /\ record' = record /\ locked' = locked /\ manager' = manager /\ evidence' = evidence
             /\ content' \in [Machines -> Nat]
             /\ \A p \in Projects : record[p].complete /\ Authorized(p) /\ locked[p] = None
                    => content'[record[p].at] = content[record[p].at]
  <2>1. /\ record' = record /\ locked' = locked /\ manager' = manager /\ evidence' = evidence
        /\ targets[q].connected # None /\ record[q].at = targets[q].connected
        /\ \A p \in Projects \ {q} : ~Holds(p, record[q].at)
        /\ ~record[q].complete /\ content' = [content EXCEPT ![record[q].at] = @ + 1]
    BY <1>3 DEF Install, AgentUnchanged
  <2>2. record[q].at \in Machines
    BY <1>1, <2>1 DEF Records
  <2>3. content' \in [Machines -> Nat]
    BY <1>1, <2>1, <2>2
  <2>4. ASSUME NEW p \in Projects, record[p].complete, Authorized(p), locked[p] = None
        PROVE  content'[record[p].at] = content[record[p].at]
    <3>1. p # q
      BY <2>1, <2>4
    <3>2. targets[p].connected = record[p].at /\ record[p].at # None
      BY <2>4 DEF MachineInvariant, Users, Authorized
    <3>3. record[p].at # record[q].at /\ record[p].at \in Machines
      BY <1>1, <2>1, <3>1, <3>2 DEF Holds, Records
    <3> QED BY <1>1, <2>1, <2>2, <3>3
  <2> QED BY <2>1, <2>3, <2>4
<1>4. content' = content \/ \E q \in Projects : Install(q)
  <2>1. ASSUME NEW p \in Projects, \/ Touch(p) \/ KeyFails(p) \/ BaselineBegin(p) \/ BaselineDone(p)
                                   \/ Run(p)
        PROVE  content' = content
    BY <2>1 DEF Touch, KeyFails, StopUnchanged, BaselineBegin, BaselineDone, Run
  <2>2. ASSUME NEW t \in Requests, Connect(t) PROVE content' = content
    BY <2>2 DEF Connect, Ask, Register, Reserve, Begin, Fail, Refuse, Pin, Promote, Publish,
                Reconcile, ConnectUnchanged
  <2>3. ASSUME NEW s \in Stoppers, Stopping(s) PROVE content' = content
    BY <2>3 DEF Stopping, Count, Cancel, Mark, StopUnchanged
  <2>4. ASSUME Restart \/ Ran \/ UNCHANGED vars PROVE content' = content
    BY <2>4 DEF Restart, Ran, vars
  <2> QED BY <2>1, <2>2, <2>3, <2>4, Zenon DEF Next, Agents
<1>5. UNCHANGED evidence \/ Ran \/ \E q \in Projects : Run(q)
  <2>1. ASSUME NEW p \in Projects, \/ Touch(p) \/ KeyFails(p) \/ BaselineBegin(p) \/ BaselineDone(p)
                                   \/ Install(p)
        PROVE  UNCHANGED evidence
    BY <2>1 DEF Touch, KeyFails, StopUnchanged, BaselineBegin, BaselineDone, Install
  <2>2. ASSUME NEW t \in Requests, Connect(t) PROVE UNCHANGED evidence
    BY <2>2 DEF Connect, Ask, Register, Reserve, Begin, Fail, Refuse, Pin, Promote, Publish,
                Reconcile, ConnectUnchanged
  <2>3. ASSUME NEW s \in Stoppers, Stopping(s) PROVE UNCHANGED evidence
    BY <2>3 DEF Stopping, Count, Cancel, Mark, StopUnchanged
  <2>4. ASSUME Restart \/ UNCHANGED vars PROVE UNCHANGED evidence
    BY <2>4 DEF Restart, vars
  <2> QED BY <2>1, <2>2, <2>3, <2>4, Zenon DEF Next, Agents
<1> DEFINE Whole == evidence = [at |-> evidence.at, p |-> evidence.p, stamp |-> evidence.stamp,
                                on |-> evidence.on]
           Same == /\ evidence.at # "none" /\ evidence'.p = evidence.p
                   /\ evidence'.stamp = evidence.stamp /\ evidence'.on = evidence.on
<1>6. /\ content' \in [Machines -> Nat] /\ Whole'
      /\ evidence'.at = "none" \/ Same \/ \E q \in Projects : Run(q)
  <2>1. Whole /\ content' \in [Machines -> Nat]
    BY <1>1, <1>3, <1>4 DEF Evidenced
  <2>2. CASE UNCHANGED evidence
    BY <2>1, <2>2
  <2>3. CASE Ran
    <3>1. evidence.at = "running"
          /\ (evidence' = [evidence EXCEPT !.at = "kept"] \/ evidence' = NoEvidence)
      BY <2>3 DEF Ran
    <3> QED BY <2>1, <3>1 DEF NoEvidence
  <2>4. ASSUME NEW q \in Projects, Run(q) PROVE Whole'
    BY <2>4 DEF Run
  <2> QED BY <1>5, <2>1, <2>2, <2>3, <2>4
<1>7. CASE evidence'.at = "none"
  BY <1>6, <1>7 DEF Evidenced
<1>8. CASE Same
  <2>1. PICK p \in Projects, m \in Machines, v \in Nat, e \in Nat, n \in Nat, c \in Nat :
            /\ evidence.p = p /\ evidence.stamp = <<m, v, e, n>> /\ evidence.on = <<m, c>>
            /\ v <= record[p].rev /\ e <= record[p].epoch /\ n <= record[p].tools
            /\ Stamp(p) = <<m, v, e, n>> => Stands(p, m, c)
    BY <1>8 DEF Evidenced
  <2>2. /\ record[p] \in Records /\ record'[p] \in Records /\ GrowsFor(p)
    BY <1>1, StepKept, RecordGrows DEF MachineInvariant, Types
  <2>3. /\ record[p].rev \in Nat /\ record[p].epoch \in Nat /\ record[p].tools \in Nat
        /\ record'[p].rev \in Nat /\ record'[p].epoch \in Nat /\ record'[p].tools \in Nat
    BY <2>2 DEF Records
  <2>4. v <= record'[p].rev /\ e <= record'[p].epoch /\ n <= record'[p].tools
    BY <2>1, <2>2, <2>3 DEF GrowsFor, Grows
  <2>5. ASSUME Stamp(p)' = <<m, v, e, n>> PROVE Stands(p, m, c)'
    <3>1. record'[p].at = m /\ record'[p].rev = v /\ record'[p].epoch = e /\ record'[p].tools = n
      BY <2>5 DEF Stamp
    <3>2. record[p].rev = v /\ record[p].epoch = e /\ record[p].tools = n
      BY <2>1, <2>2, <2>3, <3>1 DEF GrowsFor, Grows
    <3>3. record[p].at = m /\ (record[p].complete => record'[p].complete)
      BY <2>2, <3>1, <3>2 DEF GrowsFor, Grows
    <3>4. Stands(p, m, c)
      BY <2>1, <3>2, <3>3 DEF Stamp
    <3>5. ASSUME Authorized(p)', locked'[p] = None PROVE content'[m] = c
      <4>1. Authorized(p) /\ locked[p] = None
        BY <2>2, <3>1, <3>2, <3>5 DEF GrowsFor
      <4>2. content'[m] = content[m]
        BY <1>3, <1>4, <3>3, <3>4, <4>1 DEF Stands
      <4> QED BY <3>4, <4>1, <4>2 DEF Stands
    <3> QED BY <3>3, <3>4, <3>5 DEF Stands
  <2> QED BY <1>6, <1>8, <2>1, <2>4, <2>5 DEF Evidenced
<1> QED BY <1>2, <1>6, <1>7, <1>8

\* Evidence that may still be used was made on the machine the project is
\* connected to, with the tools that are on it (certified_execution.py: the
\* stamp before a command is the stamp after it).
THEOREM EvidenceStaysTrue ==
    ASSUME Overlapping = FALSE
    PROVE  Spec => []EvidenceStands
<1>1. Init => Evidenced
  BY DEF Init, Evidenced, NoEvidence
<1>2. MachineInvariant /\ Evidenced /\ [Next]_vars => MachineInvariant' /\ Evidenced'
  BY StepKept, EvidencedStep
<1>3. ASSUME Evidenced PROVE EvidenceStands
  <2> SUFFICES ASSUME evidence.at = "kept", locked[evidence.p] = None, Current(evidence)
               PROVE  evidence.on = <<record[evidence.p].at, content[record[evidence.p].at]>>
    BY DEF EvidenceStands
  <2>1. PICK p \in Projects, m \in Machines, v \in Nat, e \in Nat, n \in Nat, c \in Nat :
            /\ evidence.p = p /\ evidence.stamp = <<m, v, e, n>> /\ evidence.on = <<m, c>>
            /\ Stamp(p) = <<m, v, e, n>> => Stands(p, m, c)
    BY <1>3 DEF Evidenced
  <2>2. Authorized(p) /\ Stamp(p) = <<m, v, e, n>>
    BY <2>1 DEF Current, Usable
  <2>3. record[p].at = m /\ content[m] = c
    BY <2>1, <2>2 DEF Stands, Stamp
  <2> QED BY <2>1, <2>3
<1> QED BY <1>1, <1>2, <1>3, InitHolds, PTL DEF Spec

(***************************************************************************)
(* Stops.  The stops that came after a request and are not over are the    *)
(* ones that the stop count is ahead of it, unless the request was         *)
(* cancelled: a stop that gets to its mark has cancelled every request of  *)
(* its project that could still reach the lock of the record.              *)
(***************************************************************************)
Pending(t) ==
    \/ request[t].at \in {"job", "reserved", "signing"} /\ t \notin cancelled
    \/ request[t].at \in Publishing

After(p, n) == {s \in Stoppers : stopper[s].at # "idle" /\ stopper[s].p = p /\ stopper[s].n > n}

Counts(t) ==
    generation[request[t].p] = request[t].gen + Cardinality(After(request[t].p, request[t].gen))

Counted == \A t \in Requests : Pending(t) => Counts(t)

\* A request that goes on, when no stop comes or ends.
Same(t) == Pending(t) /\ request'[t].p = request[t].p /\ request'[t].gen = request[t].gen

LEMMA CountsKept ==
    ASSUME Counted, NEW t \in Requests, Same(t), UNCHANGED <<generation, stopper>>
    PROVE  Counts(t)'
<1>1. After(request[t].p, request[t].gen)' = After(request[t].p, request[t].gen)
  BY DEF After, Same
<1> HIDE DEF After
<1> QED BY <1>1 DEF Counted, Counts, Same

LEMMA CountedStep ==
    ASSUME MachineInvariant, Overlapping = FALSE, Counted, [Next]_vars
    PROVE  Counted'
<1> USE TestMachineAssumption
<1>1. request \in [Requests -> Asks] /\ generation \in [Projects -> Nat] /\ Types
      /\ stopper \in [Stoppers -> Stays] /\ IsFiniteSet(Stoppers)
  BY DEF MachineInvariant, Types
<1>2. ASSUME UNCHANGED <<generation, stopper>>,
             \A t \in Requests : Pending(t)' => Same(t)
      PROVE  Counted'
  BY <1>2, CountsKept DEF Counted
<1>3. ASSUME UNCHANGED <<generation, stopper, cancelled, request>>
      PROVE  Counted'
  BY <1>2, <1>3 DEF Pending, Same
<1>4. ASSUME NEW p \in Projects,
             \/ Touch(p) \/ KeyFails(p) \/ BaselineBegin(p) \/ BaselineDone(p) \/ Install(p) \/ Run(p)
      PROVE  Counted'
  BY <1>3, <1>4 DEF Touch, KeyFails, StopUnchanged, BaselineBegin, BaselineDone, Install, Run,
                    AgentUnchanged, manages
<1>5. ASSUME Ran \/ UNCHANGED vars PROVE Counted'
  BY <1>3, <1>5 DEF Ran, AgentUnchanged, manages, vars
<1>6. ASSUME Restart PROVE Counted'
  BY <1>6 DEF Restart, Counted, Pending, Publishing, Idle
<1>7. ASSUME NEW t \in Requests, request'[t].at \in {"idle", "asked", "failed"},
             \A u \in Requests \ {t} : request'[u] = request[u],
             UNCHANGED <<generation, stopper, cancelled>>
      PROVE  Counted'
  BY <1>2, <1>7 DEF Pending, Same, Publishing
<1>8. ASSUME NEW t \in Requests, NEW label \in Labels, Pending(t)' => Pending(t),
             request' = [request EXCEPT ![t].at = label],
             UNCHANGED <<generation, stopper, cancelled>>
      PROVE  Counted'
  <2>1. /\ request'[t].p = request[t].p /\ request'[t].gen = request[t].gen
        /\ \A u \in Requests \ {t} : request'[u] = request[u]
    BY <1>1, <1>8, RequestStep
  <2> QED BY <1>2, <1>8, <2>1 DEF Pending, Same
<1>9. ASSUME NEW t \in Requests, Over(t), UNCHANGED <<generation, stopper, cancelled>>
      PROVE  Counted'
  BY <1>1, <1>7, <1>9, RequestOver
<1>10. ASSUME NEW t \in Requests, NEW p \in Projects, NEW m \in Machines, Ask(t, p, m)
       PROVE  Counted'
  BY <1>1, <1>7, <1>10 DEF Ask, ConnectUnchanged
<1>11. ASSUME NEW t \in Requests, Register(t) PROVE Counted'
  <2>1. /\ request[t].at = "asked" /\ UNCHANGED <<generation, stopper>>
        /\ \/ Over(t) /\ UNCHANGED cancelled
           \/ /\ generation[request[t].p] = request[t].gen
              /\ To(t, "job") /\ cancelled' = cancelled \ {t}
    BY <1>11 DEF Register, At
  <2>2. CASE Over(t) /\ UNCHANGED cancelled
    BY <1>9, <2>1, <2>2
  <2>3. CASE /\ generation[request[t].p] = request[t].gen
             /\ To(t, "job") /\ cancelled' = cancelled \ {t}
    <3>1. /\ request'[t].p = request[t].p /\ request'[t].gen = request[t].gen
          /\ \A u \in Requests \ {t} : request'[u] = request[u]
      BY <1>1, <2>3, RequestStep DEF To, Labels, Busy
    <3>2. After(request[t].p, request[t].gen) = {}
      BY <2>1, <2>3 DEF MachineInvariant, Stops, After
    <3>3. After(request[t].p, request[t].gen)' = After(request[t].p, request[t].gen)
      BY <2>1, <3>1 DEF After
    <3>4. request[t].gen \in Nat /\ Cardinality({}) = 0
      BY <1>1, FS_EmptySet DEF Asks
    <3>5. Counts(t)'
      BY <2>1, <2>3, <3>1, <3>2, <3>3, <3>4 DEF Counts
    <3>6. ASSUME NEW u \in Requests, u # t, Pending(u)' PROVE Counts(u)'
      <4>1. Same(u)
        BY <2>3, <3>1, <3>6 DEF Same, Pending
      <4> QED BY <2>1, <4>1, CountsKept
    <3> QED BY <3>5, <3>6 DEF Counted
  <2> QED BY <2>1, <2>2, <2>3
<1>12. ASSUME NEW t \in Requests,
              Reserve(t) \/ Begin(t) \/ Fail(t) \/ Refuse(t) \/ Pin(t) \/ Promote(t)
       PROVE  Counted'
  <2>1. /\ UNCHANGED <<generation, stopper, cancelled>>
        /\ \/ Over(t)
           \/ To(t, "reserved") /\ request[t].at = "job" /\ t \notin cancelled
           \/ To(t, "failed")
           \/ To(t, "pinned") /\ request[t].at = "signing" /\ t \notin cancelled
           \/ To(t, "promoted") /\ request[t].at = "pinned"
           \/ Begin(t)
    BY <1>12 DEF Reserve, Ends, Begin, Fail, Refuse, Pin, Overtaken, Promote, At, ConnectUnchanged
  <2>2. ASSUME NEW label \in {"reserved", "failed", "pinned", "promoted"}, To(t, label)
        PROVE  label \in Labels /\ request'[t].at = label
               /\ request' = [request EXCEPT ![t].at = label]
    BY <1>1, <2>2, RequestStep DEF To, Labels, Busy
  <2>3. CASE Over(t)
    BY <1>9, <2>1, <2>3
  <2>4. CASE To(t, "reserved") /\ request[t].at = "job" /\ t \notin cancelled
    BY <1>8, <2>1, <2>2, <2>4 DEF Pending
  <2>5. CASE To(t, "failed")
    BY <1>8, <2>1, <2>2, <2>5 DEF Pending, Publishing
  <2>6. CASE To(t, "pinned") /\ request[t].at = "signing" /\ t \notin cancelled
    BY <1>8, <2>1, <2>2, <2>6 DEF Pending
  <2>7. CASE To(t, "promoted") /\ request[t].at = "pinned"
    BY <1>8, <2>1, <2>2, <2>7 DEF Pending, Publishing
  <2>8. CASE Begin(t)
    <3>1. /\ request[t].at = "reserved"
          /\ request' = [request EXCEPT ![t] = [request[t] EXCEPT
                            !.at = "signing", !.seq = record[request[t].p].seq]]
      BY <1>1, <2>8 DEF Begin, At
    <3>2. /\ request'[t].at = "signing" /\ request'[t].p = request[t].p
          /\ request'[t].gen = request[t].gen
          /\ \A u \in Requests \ {t} : request'[u] = request[u]
      BY <1>1, <3>1 DEF Asks
    <3> QED BY <1>2, <2>1, <3>1, <3>2 DEF Pending, Same, Publishing
  <2> QED BY <2>1, <2>3, <2>4, <2>5, <2>6, <2>7, <2>8
<1>13. ASSUME NEW t \in Requests, Publish(t) \/ Reconcile(t) PROVE Counted'
  BY <1>9, <1>13 DEF Publish, Reconcile, Ends, ConnectUnchanged
<1>14. \A t \in Requests : Pending(t) =>
            /\ request[t].p \in Projects /\ request[t].gen \in Nat
            /\ request[t].at \in Busy /\ request[t].gen <= generation[request[t].p]
  <2> SUFFICES ASSUME NEW t \in Requests, Pending(t)
               PROVE  /\ request[t].p \in Projects /\ request[t].gen \in Nat
                      /\ request[t].at \in Busy /\ request[t].gen <= generation[request[t].p]
    OBVIOUS
  <2>1. request[t].at \in Busy /\ request[t].at # "idle"
    BY DEF Pending, Busy, Publishing
  <2> QED BY <1>1, <2>1, OwnProject DEF Asks, MachineInvariant, Jobs
<1>15. ASSUME NEW s \in Stoppers, NEW p \in Projects,
              NEW kind \in {"stop", "resume", "release"}, Count(s, p, kind)
       PROVE  Counted'
  <2>1. /\ request' = request /\ cancelled' = cancelled /\ stopper[s].at = "idle"
        /\ generation' = [generation EXCEPT ![p] = @ + 1]
        /\ stopper' = [stopper EXCEPT ![s] = [at |-> "counted", p |-> p, kind |-> kind,
                                              n |-> generation[p] + 1]]
    BY <1>15 DEF Count, StopUnchanged
  <2>2. /\ stopper'[s].at = "counted" /\ stopper'[s].p = p /\ stopper'[s].n = generation[p] + 1
        /\ \A o \in Stoppers \ {s} : stopper'[o] = stopper[o]
    BY <1>1, <2>1
  <2> SUFFICES ASSUME NEW t \in Requests, Pending(t)' PROVE Counts(t)'
    BY DEF Counted
  <2>3. Pending(t) /\ Counts(t)
    BY <2>1 DEF Pending, Counted
  <2> DEFINE q == request[t].p
             n == request[t].gen
             A == After(q, n)
  <2>4. q \in Projects /\ n \in Nat /\ n <= generation[q] /\ generation[q] \in Nat
    BY <1>1, <1>14, <2>3
  <2>5. CASE p = q
    <3>1. After(q, n)' = A \cup {s} /\ s \notin A
      BY <2>1, <2>2, <2>4, <2>5 DEF After
    <3>2. IsFiniteSet(A)
      BY <1>1, FS_Subset DEF After
    <3>3. Cardinality(A \cup {s}) = Cardinality(A) + 1 /\ Cardinality(A) \in Nat
      BY <3>1, <3>2, FS_AddElement, FS_CardinalityType
    <3>4. generation'[q] = generation[q] + 1
      BY <1>1, <2>1, <2>4, <2>5
    <3>5. generation[q] = n + Cardinality(A)
      BY <2>3 DEF Counts
    <3> QED BY <2>1, <2>4, <3>1, <3>3, <3>4, <3>5 DEF Counts
  <2>6. CASE p # q
    <3>1. After(q, n)' = A
      BY <2>1, <2>2, <2>6 DEF After
    <3>2. generation'[q] = generation[q]
      BY <1>1, <2>1, <2>4, <2>6
    <3> QED BY <2>1, <2>3, <3>1, <3>2 DEF Counts
  <2> QED BY <2>5, <2>6
<1>16. ASSUME NEW s \in Stoppers, Cancel(s) PROVE Counted'
  <2>1. /\ request' = request /\ cancelled \subseteq cancelled' /\ stopper[s].at = "counted"
        /\ generation' = generation /\ stopper' = [stopper EXCEPT ![s].at = "cancelled"]
    BY <1>16 DEF Cancel, StopUnchanged
  <2>2. \A o \in Stoppers : /\ stopper'[o].at # "idle" <=> stopper[o].at # "idle"
                            /\ stopper'[o].p = stopper[o].p /\ stopper'[o].n = stopper[o].n
    BY <1>1, <2>1 DEF Stays
  <2> SUFFICES ASSUME NEW t \in Requests, Pending(t)' PROVE Counts(t)'
    BY DEF Counted
  <2>3. Counts(t)
    BY <2>1 DEF Pending, Counted
  <2>4. After(request[t].p, request[t].gen)' = After(request[t].p, request[t].gen)
    BY <2>1, <2>2 DEF After
  <2> QED BY <2>1, <2>3, <2>4 DEF Counts
<1>17. ASSUME NEW s \in Stoppers, Mark(s) PROVE Counted'
  <2> DEFINE p == stopper[s].p
  <2>1. /\ request' = request /\ cancelled' = cancelled /\ generation' = generation
        /\ stopper[s].at = "cancelled" /\ locked[p] = None
        /\ stopper' = [stopper EXCEPT ![s] = Still]
    BY <1>17 DEF Mark, StopUnchanged
  <2>2. stopper'[s].at = "idle" /\ \A o \in Stoppers \ {s} : stopper'[o] = stopper[o]
    BY <1>1, <2>1 DEF Still
  <2> SUFFICES ASSUME NEW t \in Requests, Pending(t)' PROVE Counts(t)'
    BY DEF Counted
  <2>3. Pending(t) /\ Counts(t) /\ request[t].at # "idle" /\ request[t].at \in Busy
    BY <1>14, <2>1 DEF Pending, Counted, Publishing
  <2>4. request[t].p # p
    <3>1. ASSUME request[t].p = p PROVE FALSE
      <4>1. t \in cancelled
        BY <2>1, <2>3, <3>1 DEF MachineInvariant, Stops
      <4>2. request[t].at \in Publishing
        BY <2>3, <4>1 DEF Pending
      <4>3. locked[p] = t
        BY <3>1, <4>2 DEF MachineInvariant, Locks
      <4> QED BY <2>1, <4>3
    <3> QED BY <3>1
  <2>5. After(request[t].p, request[t].gen)' = After(request[t].p, request[t].gen)
    BY <2>1, <2>2, <2>4 DEF After
  <2> QED BY <2>1, <2>3, <2>5 DEF Counts
<1> QED
  BY <1>4, <1>5, <1>6, <1>10, <1>11, <1>12, <1>13, <1>15, <1>16, <1>17, Zenon
     DEF Next, Connect, Stopping, Agents

\* A Connect is never published after a stop or Release that was asked for after
\* it and is over (machine_stop and machine_connect, project_manager.py, and
\* finalize, test_machine.py).
THEOREM StopsWin ==
    ASSUME Overlapping = FALSE
    PROVE  Spec => StoppedNeverPublishes
<1>1. Init => Counted
  BY DEF Init, Counted, Pending, Publishing, Idle
<1>2. MachineInvariant /\ Counted /\ [Next]_vars => MachineInvariant' /\ Counted'
  BY StepKept, CountedStep
<1>3. ASSUME Counted
      PROVE  [\A t \in Requests :
                At(t, "promoted") /\ request'[t] = Idle /\ manager' = manager
                => LET p == request[t].p IN
                   generation[p] = request[t].gen + Unfinished(p, request[t].gen)]_vars
  <2> SUFFICES ASSUME NEW t \in Requests, At(t, "promoted")
               PROVE  LET p == request[t].p IN
                      generation[p] = request[t].gen + Unfinished(p, request[t].gen)
    OBVIOUS
  <2>1. Counts(t)
    BY <1>3 DEF Counted, Pending, Publishing, At
  <2> QED BY <2>1 DEF Counts, After, Unfinished
<1> QED BY <1>1, <1>2, <1>3, InitHolds, PTL DEF Spec, StoppedNeverPublishes
=============================================================================
