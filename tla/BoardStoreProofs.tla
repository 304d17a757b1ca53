-------------------------- MODULE BoardStoreProofs --------------------------
(***************************************************************************)
(* Theorems about BoardStore, for every value of its constants; the last   *)
(* one is that it implements AtomicBoard.                                  *)
(***************************************************************************)
EXTENDS BoardStore, TLAPS, WellFoundedInduction, SequenceTheorems, FiniteSetTheorems

(***************************************************************************)
(* Lemmas about the operators of the model.                                *)
(***************************************************************************)

\* A set of naturals that is not empty has a least element.
LEMMA LeastNatural ==
    ASSUME NEW T \in SUBSET Nat, T # {}
    PROVE  \E m \in T : \A n \in T : m <= n
<1> DEFINE R == OpToRel(<, Nat)
<1>1. PICK m \in T : \A n \in T : <<n, m>> \notin R
  BY NatLessThanWellFounded, WFMin
<1>2. \A n \in T : ~(n < m)
  BY <1>1 DEF OpToRel
<1> QED BY <1>2

\* Numbers in a finite sequence of lines have a greatest one.
LEMMA BoundExists ==
    ASSUME NEW lines \in Seq(Lines)
    PROVE  \E b \in Nat : \A k \in DOMAIN lines : lines[k].seq <= b
<1> DEFINE Bounded(i) == \E b \in Nat : \A k \in 1..i : lines[k].seq <= b
           Unbounded == {i \in 0..Len(lines) : ~Bounded(i)}
<1>1. /\ Len(lines) \in Nat /\ DOMAIN lines = 1..Len(lines)
      /\ \A k \in 1..Len(lines) : lines[k].seq \in Nat
  <2>1. /\ Len(lines) \in Nat /\ DOMAIN lines = 1..Len(lines)
        /\ \A k \in 1..Len(lines) : lines[k] \in Lines
    BY ElementOfSeq, LenProperties
  <2> QED BY <2>1 DEF Lines
<1>2. SUFFICES ASSUME Unbounded # {} PROVE FALSE
  <2>1. Len(lines) \notin Unbounded => Bounded(Len(lines))
    BY <1>1
  <2> QED BY <1>1, <2>1
<1>3. PICK i \in Unbounded : \A j \in Unbounded : i <= j
  <2>1. Unbounded \in SUBSET Nat
    BY <1>1
  <2> HIDE DEF Unbounded
  <2> QED BY <1>2, <2>1, LeastNatural
<1>4. i \in 0..Len(lines) /\ ~Bounded(i)
  BY <1>3
<1> HIDE DEF Bounded
<1>5. i # 0
  <2>1. \A k \in 1..0 : lines[k].seq <= 0
    OBVIOUS
  <2>2. Bounded(0)
    BY <2>1 DEF Bounded
  <2> QED BY <1>4, <2>2
<1>6. Bounded(i - 1)
  BY <1>1, <1>3, <1>4, <1>5
<1>7. PICK b \in Nat : \A k \in 1..(i-1) : lines[k].seq <= b
  BY <1>6 DEF Bounded
<1>8. lines[i].seq \in Nat
  BY <1>1, <1>4, <1>5
<1>9. CASE lines[i].seq <= b
  <2>1. \A k \in 1..i : lines[k].seq <= b
    BY <1>1, <1>4, <1>7, <1>9
  <2> QED BY <1>4, <2>1 DEF Bounded
<1>10. CASE ~(lines[i].seq <= b)
  <2>1. \A k \in 1..i : lines[k].seq <= lines[i].seq
    BY <1>1, <1>4, <1>7, <1>8, <1>10
  <2> QED BY <1>4, <1>8, <2>1 DEF Bounded
<1> QED BY <1>9, <1>10

LEMMA LastSequenceType ==
    ASSUME log \in Seq(Lines)
    PROVE  LastSequence \in Nat /\ \A k \in DOMAIN log : log[k].seq <= LastSequence
<1> DEFINE Numbers == {0} \cup {log[k].seq : k \in DOMAIN log}
           IsBound(n) == \A k \in DOMAIN log : log[k].seq <= n
           Bounds == {b \in Nat : IsBound(b)}
<1>1. \A k \in DOMAIN log : log[k].seq \in Nat
  <2>1. \A k \in DOMAIN log : log[k] \in Lines
    BY ElementOfSeq, LenProperties
  <2> QED BY <2>1 DEF Lines
<1>2. Bounds \in SUBSET Nat /\ Bounds # {}
  BY BoundExists
<1>3. PICK m \in Bounds : \A b \in Bounds : m <= b
  <2> HIDE DEF Bounds
  <2> QED BY <1>2, LeastNatural
<1>4. m \in Nat /\ IsBound(m)
  BY <1>3
<1>5. m \in Numbers
  <2>1. SUFFICES ASSUME m # 0, \A k \in DOMAIN log : log[k].seq # m PROVE FALSE
    OBVIOUS
  <2>2. m - 1 \in Nat /\ IsBound(m - 1)
    BY <1>1, <1>4, <2>1
  <2> QED BY <1>3, <1>4, <2>2
<1>6. LastSequence = CHOOSE n \in Numbers : IsBound(n)
  BY DEF LastSequence
<1>7. LastSequence \in Numbers /\ IsBound(LastSequence)
  <2> HIDE DEF Numbers, IsBound
  <2> QED BY <1>4, <1>5, <1>6
<1> QED BY <1>1, <1>7

LEMMA AppendLineType ==
    ASSUME NEW S, NEW file \in Seq(S), NEW line \in S, NEW half \in S, NEW garbled \in S
    PROVE  AppendLine(file, line, half, garbled) \in Seq(S)
BY DEF AppendLine

LEMMA ZerosType ==
    ASSUME NEW L \in Nat
    PROVE  /\ [n \in 1..L |-> 0] \in Seq(Nat)
           /\ Len([n \in 1..L |-> 0]) = L
OBVIOUS

\* A bounded set of naturals that is not empty has a greatest element.
LEMMA GreatestNatural ==
    ASSUME NEW T \in SUBSET Nat, T # {}, NEW b \in Nat, \A n \in T : n <= b
    PROVE  \E m \in T : \A n \in T : n <= m
<1> DEFINE Bounds == {c \in Nat : \A n \in T : n <= c}
<1>1. Bounds \in SUBSET Nat /\ Bounds # {}
  OBVIOUS
<1>2. PICK m \in Bounds : \A c \in Bounds : m <= c
  <2> HIDE DEF Bounds
  <2> QED BY <1>1, LeastNatural
<1>3. m \in T
  <2>1. SUFFICES ASSUME m \notin T PROVE FALSE
    OBVIOUS
  <2>2. m \in Nat /\ \A n \in T : n \in Nat /\ n <= m /\ n # m
    BY <1>2, <2>1
  <2>3. m # 0
    <3>1. PICK n \in T : TRUE
      OBVIOUS
    <3> QED BY <2>2, <3>1
  <2>4. m - 1 \in Bounds
    BY <2>2, <2>3
  <2> QED BY <1>2, <2>2, <2>4
<1> QED BY <1>2, <1>3

LEMMA PrunedType ==
    ASSUME NEW dirs
    PROVE  /\ DOMAIN Pruned(dirs) \subseteq DOMAIN dirs
           /\ \A b \in DOMAIN Pruned(dirs) : Pruned(dirs)[b] = dirs[b]
BY DEF Pruned

LEMMA InitialStateType == InitialState \in BoardState
<1>1. <<>> \in Seq(Nat) /\ [i \in Items |-> 0] \in [Items -> Nat]
  BY EmptySeq
<1> QED BY <1>1 DEF InitialState, BoardState

(***************************************************************************)
(* Type correctness.  The names of the backups must be known to be bounded *)
(* for "the newest backup" to name one.                                    *)
(***************************************************************************)
BackupsBounded == \E b \in Nat : \A n \in DOMAIN backups : n <= b

LEMMA NewestUsableType ==
    ASSUME BackupType, BackupsBounded, Usable # {}
    PROVE  NewestUsable \in Usable /\ \A b \in Usable : b <= NewestUsable
<1>1. Usable \in SUBSET Nat
  BY DEF BackupType, Usable
<1>2. \E m \in Usable : \A n \in Usable : n <= m
  BY <1>1, GreatestNatural DEF BackupsBounded, Usable
<1> QED BY <1>2 DEF NewestUsable

LEMMA HoldType ==
    ASSUME ProcessType, NEW w \in Writers, NEW s \in BoardState, Hold(w, s), UNCHANGED local
    PROVE  ProcessType'
BY DEF ProcessType, Hold, local

LEMMA ReleaseType ==
    ASSUME LockType, ProcessType, NEW w \in Writers, Release(w)
    PROVE  LockType' /\ ProcessType'
<1>1. ProcessType'
  BY InitialStateType DEF ProcessType, Release, Hold
<1>2. LockType'
  BY BoardStoreAssumption DEF LockType, Release, Free, Goto, Labels, Outside
<1> QED BY <1>1, <1>2

LEMMA GotoType ==
    ASSUME LockType, NEW w \in Writers, NEW label \in Labels \ Outside,
           pc[w] \notin Outside, Goto(w, label), UNCHANGED lock
    PROVE  LockType'
BY DEF LockType, Goto

\* What a step of the holder may rely on: a recovery has a backup to copy
\* from, a backup's directory exists before its state is written.
StepReady ==
    \A w \in Writers :
        /\ pc[w] \in {"restore"} => Usable # {}
        /\ pc[w] \in {"snapstate"} => NextEvent(mem[w]) \in DOMAIN backups

TypeInvariant == TypeOK /\ BackupsBounded /\ StepReady

\* The files and ghosts that a step leaves alone keep their types.
LEMMA UnchangedFiles ==
    ASSUME FileType, BackupType, BackupsBounded, UNCHANGED files
    PROVE  FileType' /\ BackupType' /\ BackupsBounded'
BY DEF FileType, BackupType, BackupsBounded, files

LEMMA UnchangedGhosts ==
    ASSUME GhostType, UNCHANGED <<ghosts, bounds>>
    PROVE  GhostType'
BY DEF GhostType, ghosts, bounds

\* Only the holder is in the middle of a transaction, so its step decides.
LEMMA ReadyStep ==
    ASSUME LockType, StepReady, NEW w \in Writers, lock = w \/ pc'[w] \in Outside,
           \A v \in Writers \ {w} : pc'[v] = pc[v] /\ mem'[v] = mem[v],
           lock = w \/ UNCHANGED backups,
           pc'[w] = "restore" => Usable' # {},
           pc'[w] = "snapstate" => NextEvent(mem'[w]) \in DOMAIN backups'
    PROVE  StepReady'
<1> SUFFICES ASSUME NEW v \in Writers
             PROVE  /\ pc'[v] \in {"restore"} => Usable' # {}
                    /\ pc'[v] \in {"snapstate"} => NextEvent(mem'[v]) \in DOMAIN backups'
  BY DEF StepReady, NextEvent
<1>1. CASE v = w
  BY <1>1
<1>2. CASE v # w /\ lock = w
  <2>1. pc[v] \in Outside
    BY <1>2 DEF LockType
  <2> QED BY <1>2, <2>1 DEF Outside
<1>3. CASE v # w /\ lock # w
  BY <1>3 DEF StepReady, Usable, NextEvent
<1> QED BY <1>1, <1>2, <1>3
LEMMA RecordedType ==
    ASSUME ProcessType, GhostType, NEW w \in Writers
    PROVE  /\ Recorded(w) \in BoardState /\ stamps + 1 \in Nat
           /\ mem[w] \in BoardState
<1>1. mem[w] \in BoardState /\ stamps + 1 \in Nat
  BY DEF ProcessType, GhostType
<1>2. Append(mem[w].hist, stamps + 1) \in Seq(Nat)
  BY <1>1 DEF BoardState
<1> QED BY <1>1, <1>2 DEF Recorded, BoardState

LEMMA RecordingType ==
    ASSUME TypeInvariant, NEW w \in Writers, NEW s \in BoardState, Recording(w, s),
           pc[w] = "edit"
    PROVE  TypeInvariant'
<1> USE DEF TypeInvariant, TypeOK
<1>1. ProcessType'
  BY HoldType DEF Recording
<1>2. LockType' /\ GhostType'
  BY DEF Recording, LockType, GhostType, ghosts
<1>3. FileType' /\ BackupType' /\ BackupsBounded'
  BY UnchangedFiles DEF Recording
<1>4. StepReady'
  <2>1. lock = w
    BY DEF LockType, Outside
  <2>2. \A v \in Writers \ {w} : pc'[v] = pc[v] /\ mem'[v] = mem[v]
    BY DEF Recording, Hold, ProcessType
  <2> QED BY <2>1, <2>2, ReadyStep DEF Recording
<1> QED BY <1>1, <1>2, <1>3, <1>4

\* A step of the holder that moves on to another label inside the lock, with
\* a well-typed board, and leaves files of the right types.
LEMMA HolderStep ==
    ASSUME TypeInvariant, NEW w \in Writers, pc[w] \notin Outside,
           NEW s \in BoardState, Hold(w, s),
           NEW label \in Labels \ Outside, Goto(w, label),
           UNCHANGED <<lock, local, ghosts, bounds>>,
           FileType', BackupType', BackupsBounded',
           label = "restore" => Usable' # {},
           label = "snapstate" => NextEvent(s) \in DOMAIN backups'
    PROVE  TypeInvariant'
<1> USE DEF TypeInvariant, TypeOK
<1>1. LockType' /\ ProcessType'
  BY GotoType, HoldType
<1>2. GhostType'
  BY UnchangedGhosts
<1>3. StepReady'
  <2>1. lock = w
    BY DEF LockType, Outside
  <2>2. \A v \in Writers \ {w} : pc'[v] = pc[v] /\ mem'[v] = mem[v]
    BY DEF Hold, Goto, ProcessType, LockType
  <2>3. pc'[w] = label /\ mem'[w] = s
    BY DEF Hold, Goto, ProcessType, LockType
  <2> QED BY <2>1, <2>2, <2>3, ReadyStep
<1> QED BY <1>1, <1>2, <1>3

\* The same for a step that leaves the board in memory alone.
LEMMA HoldSame ==
    ASSUME ProcessType, NEW w \in Writers, UNCHANGED mem
    PROVE  mem[w] \in BoardState /\ Hold(w, mem[w])
BY DEF ProcessType, Hold

\* A step that gives the board up.
LEMMA ReleaseStep ==
    ASSUME TypeInvariant, NEW w \in Writers, Release(w), UNCHANGED backups,
           FileType', GhostType'
    PROVE  TypeInvariant'
<1> USE DEF TypeInvariant, TypeOK
<1>1. LockType' /\ ProcessType'
  BY ReleaseType
<1>2. BackupType' /\ BackupsBounded'
  BY DEF BackupType, BackupsBounded
<1>3. StepReady'
  <2>1. \A v \in Writers \ {w} : pc'[v] = pc[v] /\ mem'[v] = mem[v]
    BY DEF Release, Hold, Goto, ProcessType, LockType
  <2>2. pc'[w] = "idle"
    BY DEF Release, Goto, LockType
  <2> QED BY <2>1, <2>2, ReadyStep DEF Outside
<1> QED BY <1>1, <1>2, <1>3
\* Taking the lock and loading the board.
LEMMA LoadingType ==
    ASSUME TypeInvariant, NEW w \in Writers, Loading(w)
    PROVE  TypeInvariant'
<1> USE DEF TypeInvariant, TypeOK
<1>1. CASE Acquire(w)
  <2>1. LockType'
    BY <1>1, BoardStoreAssumption DEF Acquire, LockType, At, Goto, Labels, Outside
  <2>2. ProcessType'
    BY <1>1 DEF Acquire, ProcessType, local
  <2>3. FileType' /\ BackupType' /\ BackupsBounded' /\ GhostType'
    BY <1>1, UnchangedFiles, UnchangedGhosts DEF Acquire
  <2>4. StepReady'
    BY <1>1 DEF Acquire, StepReady, Goto, LockType, files, Usable, NextEvent
  <2> QED BY <2>1, <2>2, <2>3, <2>4
<1>2. CASE LoadState(w)
  <2>1. stateFile \in BoardState
    BY <1>2 DEF LoadState, FileType
  <2>2. FileType' /\ BackupType' /\ BackupsBounded'
    BY <1>2, UnchangedFiles DEF LoadState
  <2> QED BY <1>2, <2>1, <2>2, HolderStep DEF LoadState, At, Labels, Outside
<1>3. CASE LoadBackup(w)
  <2>1. backups[NewestUsable].state \in BoardState
    BY <1>3, NewestUsableType DEF LoadBackup, Usable, BackupType
  <2>2. FileType' /\ BackupType' /\ BackupsBounded' /\ Usable' # {}
    BY <1>3, UnchangedFiles DEF LoadBackup, files, Usable
  <2> QED BY <1>3, <2>1, <2>2, HolderStep DEF LoadBackup, At, Labels, Outside
<1>4. CASE RestoreLog(w)
  <2>1. backups[NewestUsable].log \in Seq(Lines)
    BY <1>4, NewestUsableType DEF RestoreLog, At, StepReady, Usable, BackupType
  <2>2. FileType' /\ BackupType' /\ BackupsBounded'
    BY <1>4, <2>1 DEF RestoreLog, FileType, BackupType, BackupsBounded
  <2> QED BY <1>4, <2>2, HolderStep, HoldSame DEF RestoreLog, At, Labels, Outside
<1>5. CASE RestoreState(w)
  <2>1. mem[w] \in BoardState
    BY DEF ProcessType
  <2>2. FileType' /\ BackupType' /\ BackupsBounded'
    BY <1>5, <2>1 DEF RestoreState, FileType, BackupType, BackupsBounded
  <2> QED BY <1>5, <2>2, HolderStep, HoldSame DEF RestoreState, At, Labels, Outside
<1>6. CASE LoadLog(w)
  <2> DEFINE s == [InitialState EXCEPT !.hist = [n \in 1..LastSequence |-> 0],
                                       !.exported = LastSequence]
  <2>1. LastSequence \in Nat
    BY LastSequenceType DEF FileType
  <2>2. s \in BoardState
    BY <2>1, ZerosType, InitialStateType DEF BoardState
  <2>3. FileType' /\ BackupType' /\ BackupsBounded'
    BY <1>6, UnchangedFiles DEF LoadLog
  <2> QED BY <1>6, <2>2, <2>3, HolderStep DEF LoadLog, At, Labels, Outside
<1>7. CASE LoadNothing(w)
  <2>1. FileType' /\ BackupType' /\ BackupsBounded'
    BY <1>7, UnchangedFiles DEF LoadNothing
  <2> QED BY <1>7, <2>1, InitialStateType, HolderStep DEF LoadNothing, At, Labels, Outside
<1> QED BY <1>1, <1>2, <1>3, <1>4, <1>5, <1>6, <1>7 DEF Loading

\* The body of the with statement.
LEMMA BodyType ==
    ASSUME TypeInvariant, NEW w \in Writers, Body(w)
    PROVE  TypeInvariant'
<1> USE DEF TypeInvariant, TypeOK
<1>0. Recorded(w) \in BoardState /\ stamps + 1 \in Nat /\ mem[w] \in BoardState
  BY RecordedType
<1>1. ASSUME NEW i \in Items, ChangeItem(w, i) PROVE TypeInvariant'
  <2>1. [Recorded(w) EXCEPT !.hot[i] = stamps + 1] \in BoardState
    BY <1>0 DEF BoardState
  <2> QED BY <1>1, <2>1, RecordingType DEF ChangeItem, CanRecord, At
<1>2. ASSUME NEW i \in Items, FinishItem(w, i) PROVE TypeInvariant'
  <2>1. [Recorded(w) EXCEPT !.hot[i] = stamps + 1, !.done = @ \cup {i}] \in BoardState
    BY <1>0 DEF BoardState
  <2> QED BY <1>2, <2>1, RecordingType DEF FinishItem, CanRecord, At
<1>3. ASSUME NEW a \in Agents, DirectOwner(w, a) PROVE TypeInvariant'
  <2>1. [Recorded(w) EXCEPT !.wanted = IF a \in @ THEN @ \ {a} ELSE @ \cup {a}] \in BoardState
    BY <1>0 DEF BoardState
  <2> QED BY <1>3, <2>1, RecordingType DEF DirectOwner, CanRecord, At
<1>4. ASSUME NEW q \in Requests, Cancel(w, q) PROVE TypeInvariant'
  <2> DEFINE s == [Recorded(w) EXCEPT !.hot[q] = 0, !.cancelled = @ \cup {q}]
  <2>1. s \in BoardState
    BY <1>0 DEF BoardState
  <2>2. ProcessType'
    <3>1. mem' = [mem EXCEPT ![w] = s] /\ cancelling' = [cancelling EXCEPT ![w] = q] /\ sweep' = sweep
      BY <1>4 DEF Cancel, Hold
    <3> QED BY <2>1, <3>1 DEF ProcessType
  <2>3. LockType' /\ GhostType'
    BY <1>4 DEF Cancel, LockType, GhostType, ghosts
  <2>4. FileType' /\ BackupType' /\ BackupsBounded'
    BY <1>4, UnchangedFiles DEF Cancel
  <2>5. StepReady'
    <3>1. lock = w
      BY <1>4 DEF Cancel, CanRecord, At, LockType, Outside
    <3>2. \A v \in Writers \ {w} : pc'[v] = pc[v] /\ mem'[v] = mem[v]
      BY <1>4 DEF Cancel, Hold, ProcessType
    <3> QED BY <1>4, <3>1, <3>2, ReadyStep DEF Cancel, CanRecord, At
  <2> QED BY <2>2, <2>3, <2>4, <2>5
<1>5. CASE Abort(w)
  <2>1. FileType' /\ GhostType' /\ UNCHANGED backups
    BY <1>5, UnchangedFiles, UnchangedGhosts DEF Abort, files
  <2> QED BY <1>5, <2>1, ReleaseStep DEF Abort
<1>6. CASE EndBody(w)
  <2>1. FileType' /\ BackupType' /\ BackupsBounded' /\ GhostType' /\ UNCHANGED backups
    BY <1>6, UnchangedFiles, UnchangedGhosts DEF EndBody, files
  <2>2. CASE mem[w] = stateFile
    BY <1>6, <2>1, <2>2, ReleaseStep DEF EndBody
  <2>3. CASE mem[w] # stateFile
    BY <1>6, <2>1, <2>3, HolderStep, HoldSame DEF EndBody, At, Labels, Outside
  <2> QED BY <2>2, <2>3
<1> QED BY <1>1, <1>2, <1>3, <1>4, <1>5, <1>6 DEF Body
\* Writing the files.
LEMMA ColdVersionType ==
    ASSUME cold \in Seq(ColdLines), NEW i \in ColdItems
    PROVE  ColdVersion(i) \in Nat
<1>1. PICK k \in DOMAIN cold : cold[k].item = i
  BY DEF ColdItems
<1>2. ColdEntry(i) \in DOMAIN cold
  BY <1>1 DEF ColdEntry
<1>3. cold[ColdEntry(i)] \in ColdLines
  BY <1>2, ElementOfSeq, LenProperties
<1> QED BY <1>3 DEF ColdVersion, ColdLines

LEMMA LinesType ==
    /\ HalfEvent \in Lines /\ GarbledEvent \in Lines
    /\ HalfItem \in ColdLines /\ GarbledItem \in ColdLines
    /\ \A n, id \in Nat : EventLine(n, id) \in Lines
    /\ \A i \in Items, v \in Nat : ItemLine(i, v) \in ColdLines
BY DEF HalfEvent, GarbledEvent, HalfItem, GarbledItem, EventLine, ItemLine, Lines, ColdLines

LEMMA WithoutType ==
    ASSUME cold \in Seq(ColdLines), NEW i
    PROVE  Without(i) \in Seq(ColdLines)
<1>1. /\ Len(cold) \in Nat /\ DOMAIN cold = 1..Len(cold)
      /\ \A k \in DOMAIN cold : cold[k] \in ColdLines
  BY ElementOfSeq, LenProperties
<1>2. Without(i) \in [1..Len(cold) -> ColdLines]
  BY <1>1, LinesType DEF Without
<1> QED BY <1>1, <1>2

LEMMA WithBackupType ==
    ASSUME BackupType, BackupsBounded, NEW n \in Nat,
           NEW lines \in Seq(Lines), NEW s \in BoardState \cup {Absent},
           backups' = WithBackup(n, lines, s)
    PROVE  BackupType' /\ BackupsBounded' /\ n \in DOMAIN backups'
<1>1. DOMAIN backups' = DOMAIN backups \cup {n}
  BY DEF WithBackup
<1>2. \A b \in DOMAIN backups' :
        backups'[b] = IF b = n THEN [log |-> lines, state |-> s] ELSE backups[b]
  BY DEF WithBackup
<1>3. BackupType'
  BY <1>1, <1>2 DEF BackupType
<1>4. BackupsBounded'
  <2>1. PICK b \in Nat : \A m \in DOMAIN backups : m <= b
    BY DEF BackupsBounded
  <2>2. \A m \in DOMAIN backups' : m <= b + n
    BY <1>1, <2>1 DEF BackupType
  <2> QED BY <2>1, <2>2 DEF BackupsBounded
<1> QED BY <1>1, <1>3, <1>4

LEMMA PersistingType ==
    ASSUME TypeInvariant, NEW w \in Writers, Persisting(w)
    PROVE  TypeInvariant'
<1> USE DEF TypeInvariant, TypeOK
<1>0. mem[w] \in BoardState
  BY DEF ProcessType
<1>1. CASE ExportOne(w)
  <2> DEFINE n == mem[w].exported + 1
             s == [mem[w] EXCEPT !.exported = n]
  <2>1. mem[w].hist \in Seq(Nat) /\ n \in 1..Len(mem[w].hist) /\ n \in Nat
    BY <1>0, <1>1 DEF ExportOne, BoardState
  <2>2. EventLine(n, mem[w].hist[n]) \in Lines /\ s \in BoardState
    BY <1>0, <2>1, LinesType, ElementOfSeq DEF BoardState
  <2>3. log' \in Seq(Lines)
    BY <1>1, <2>2, LinesType, AppendLineType DEF ExportOne, FileType
  <2>4. FileType' /\ BackupType' /\ BackupsBounded'
    BY <1>1, <2>3 DEF ExportOne, FileType, BackupType, BackupsBounded
  <2>5. Goto(w, "export")
    BY <1>1 DEF ExportOne, At, Goto, LockType
  <2> QED BY <1>1, <2>2, <2>4, <2>5, HolderStep DEF ExportOne, At, Labels, Outside
<1>2. CASE ReturnAgents(w)
  <2> DEFINE hot == [i \in Items |->
            IF mem[w].hot[i] = 0 /\ i \in mem[w].wanted /\ i \in ColdItems
            THEN ColdVersion(i) ELSE mem[w].hot[i]]
  <2>1. hot \in [Items -> Nat]
    BY <1>0, ColdVersionType DEF FileType, BoardState
  <2>2. [mem[w] EXCEPT !.hot = hot] \in BoardState
    BY <1>0, <2>1 DEF BoardState
  <2>3. FileType' /\ BackupType' /\ BackupsBounded'
    BY <1>2, UnchangedFiles DEF ReturnAgents
  <2> QED BY <1>2, <2>2, <2>3, HolderStep DEF ReturnAgents, At, Labels, Outside
<1>3. ASSUME NEW i \in Items, Archive(w, i) PROVE TypeInvariant'
  <2>1. mem[w].hot[i] \in Nat /\ Archived(mem[w], i) \in BoardState
    BY <1>0 DEF BoardState, Archived
  <2>2. cold' \in Seq(ColdLines)
    BY <1>3, <2>1, LinesType, AppendLineType DEF Archive, FileType
  <2>3. FileType' /\ BackupType' /\ BackupsBounded'
    BY <1>3, <2>2 DEF Archive, FileType, BackupType, BackupsBounded
  <2>4. Goto(w, "archive")
    BY <1>3 DEF Archive, At, Goto, LockType
  <2> QED BY <1>3, <2>1, <2>3, <2>4, HolderStep DEF Archive, At, Labels, Outside
<1>4. CASE EndArchive(w)
  <2>1. FileType' /\ BackupType' /\ BackupsBounded'
    BY <1>4, UnchangedFiles DEF EndArchive
  <2> QED BY <1>4, <2>1, HolderStep, HoldSame DEF EndArchive, At, Labels, Outside
<1>5. NextEvent(mem[w]) \in Nat
  BY <1>0 DEF NextEvent, BoardState
<1>6. CASE SkipSnapshot(w)
  <2>1. [mem[w] EXCEPT !.backupAt = IF BackupDue(mem[w]) THEN NextEvent(mem[w]) ELSE @] \in BoardState
    BY <1>0, <1>5 DEF BoardState
  <2>2. FileType' /\ BackupType' /\ BackupsBounded'
    BY <1>6, UnchangedFiles DEF SkipSnapshot
  <2> QED BY <1>6, <2>1, <2>2, HolderStep DEF SkipSnapshot, At, Labels, Outside
<1>7. CASE SnapshotLog(w)
  <2> DEFINE n == NextEvent(mem[w])
             s == [mem[w] EXCEPT !.backupAt = n]
             old == IF n \in DOMAIN backups THEN backups[n].state ELSE Absent
  <2>1. s \in BoardState /\ NextEvent(s) = n
    BY <1>0, <1>5 DEF BoardState, NextEvent
  <2>2. old \in BoardState \cup {Absent} /\ log \in Seq(Lines)
    BY DEF BackupType, FileType
  <2>3. BackupType' /\ BackupsBounded' /\ n \in DOMAIN backups'
    BY <1>5, <1>7, <2>2, WithBackupType DEF SnapshotLog
  <2>4. FileType'
    BY <1>7 DEF SnapshotLog, FileType
  <2> QED BY <1>7, <2>1, <2>3, <2>4, HolderStep DEF SnapshotLog, At, Labels, Outside
<1>8. CASE SnapshotState(w)
  <2> DEFINE n == NextEvent(mem[w])
  <2>1. n \in DOMAIN backups
    BY <1>8 DEF SnapshotState, At, StepReady
  <2>2. BackupType' /\ BackupsBounded'
    BY <1>0, <1>5, <1>8, <2>1, WithBackupType DEF SnapshotState, BackupType
  <2>3. FileType'
    BY <1>8 DEF SnapshotState, FileType
  <2> QED BY <1>8, <2>2, <2>3, HolderStep, HoldSame DEF SnapshotState, At, Labels, Outside
<1>9. CASE Prune(w)
  <2>1. BackupType' /\ BackupsBounded'
    BY <1>9, PrunedType DEF Prune, BackupType, BackupsBounded
  <2>2. FileType'
    BY <1>9 DEF Prune, FileType
  <2> QED BY <1>9, <2>1, <2>2, HolderStep, HoldSame DEF Prune, At, Labels, Outside
<1>10. CASE Commit(w)
  <2>1. LockType'
    BY <1>10, BoardStoreAssumption DEF Commit, At, LockType, Free, Goto, Labels, Outside
  <2>2. ProcessType'
    BY <1>10, HoldType, InitialStateType DEF Commit
  <2>3. FileType' /\ BackupType' /\ BackupsBounded'
    BY <1>0, <1>10 DEF Commit, FileType, BackupType, BackupsBounded
  <2>4. GhostType'
    <3>1. mem[w].hist \in Seq(Nat)
      BY <1>0 DEF BoardState
    <3>2. \A n \in DOMAIN mem[w].hist : mem[w].hist[n] \in Nat
      BY <3>1, ElementOfSeq, LenProperties
    <3> QED BY <1>10, <3>1, <3>2 DEF Commit, GhostType, bounds
  <2>5. StepReady'
    <3>1. pc'[w] \in {"idle", "sweepread"}
      BY <1>10 DEF Commit, Goto, LockType
    <3>2. \A v \in Writers \ {w} : pc'[v] = pc[v] /\ mem'[v] = mem[v]
      BY <1>10 DEF Commit, Hold, Goto, ProcessType, LockType
    <3>3. UNCHANGED backups
      BY <1>10 DEF Commit
    <3> QED BY <3>1, <3>2, <3>3, ReadyStep DEF Outside
  <2> QED BY <2>1, <2>2, <2>3, <2>4, <2>5
<1>11. CASE SweepRead(w)
  <2>1. Without(cancelling[w]) \in Seq(ColdLines)
    BY LinesType, WithoutType DEF FileType
  <2>2. LockType'
    BY <1>11 DEF SweepRead, LockType, At, Goto, Labels, Outside
  <2>3. ProcessType'
    BY <1>11, <2>1 DEF SweepRead, ProcessType
  <2>4. FileType' /\ BackupType' /\ BackupsBounded' /\ GhostType'
    BY <1>11, UnchangedFiles, UnchangedGhosts DEF SweepRead
  <2>5. StepReady'
    BY <1>11 DEF SweepRead, StepReady, Goto, LockType, files, Usable, NextEvent
  <2> QED BY <2>2, <2>3, <2>4, <2>5
<1>12. CASE SweepWrite(w)
  <2>1. FileType' /\ GhostType' /\ UNCHANGED backups
    BY <1>12, UnchangedGhosts DEF SweepWrite, FileType, ProcessType
  <2> QED BY <1>12, <2>1, ReleaseStep DEF SweepWrite
<1> QED BY <1>1, <1>2, <1>3, <1>4, <1>6, <1>7, <1>8, <1>9, <1>10, <1>11, <1>12 DEF Persisting
\* Deaths and losses.
LEMMA CrashingType ==
    ASSUME TypeInvariant, NEW w \in Writers, Crashing(w)
    PROVE  TypeInvariant'
<1> USE DEF TypeInvariant, TypeOK
<1>1. CASE Crash(w)
  <2>1. FileType' /\ GhostType' /\ UNCHANGED backups
    BY <1>1 DEF Crash, files, ghosts, FileType, GhostType
  <2> QED BY <1>1, <2>1, ReleaseStep DEF Crash
<1>2. CASE CrashTearingLog(w)
  <2>1. log' \in Seq(Lines)
    BY <1>2, LinesType, AppendLineType DEF CrashTearingLog, FileType
  <2>2. FileType' /\ GhostType' /\ UNCHANGED backups
    BY <1>2, <2>1 DEF CrashTearingLog, ghosts, FileType, GhostType
  <2> QED BY <1>2, <2>2, ReleaseStep DEF CrashTearingLog
<1>3. CASE CrashTearingCold(w)
  <2>1. cold' \in Seq(ColdLines)
    BY <1>3, LinesType, AppendLineType DEF CrashTearingCold, FileType
  <2>2. FileType' /\ GhostType' /\ UNCHANGED backups
    BY <1>3, <2>1 DEF CrashTearingCold, ghosts, FileType, GhostType
  <2> QED BY <1>3, <2>2, ReleaseStep DEF CrashTearingCold
<1>4. CASE CrashRestoring(w)
  <2> DEFINE saved == backups[NewestUsable].log
  <2>1. saved \in Seq(Lines)
    BY <1>4, NewestUsableType DEF CrashRestoring, At, StepReady, Usable, BackupType
  <2>2. PICK n \in 1..Len(saved) : log' = SubSeq(saved, 1, n)
    BY <1>4 DEF CrashRestoring
  <2>3. \A i \in 1..n : saved[i] \in Lines
    BY <2>1, ElementOfSeq, LenProperties
  <2>4. log' \in Seq(Lines)
    BY <2>1, <2>2, <2>3, SubSeqProperties
  <2>5. FileType' /\ GhostType' /\ UNCHANGED backups
    BY <1>4, <2>4 DEF CrashRestoring, ghosts, FileType, GhostType
  <2> QED BY <1>4, <2>5, ReleaseStep DEF CrashRestoring
<1> QED BY <1>1, <1>2, <1>3, <1>4 DEF Crashing

LEMMA LoseType ==
    ASSUME TypeInvariant, Lose
    PROVE  TypeInvariant'
<1> USE DEF TypeInvariant, TypeOK
<1>1. LockType' /\ ProcessType' /\ BackupType' /\ BackupsBounded' /\ GhostType'
  BY DEF Lose, LockType, ProcessType, BackupType, BackupsBounded, GhostType, local, ghosts
<1>2. FileType'
  BY EmptySeq DEF Lose, FileType
<1>3. StepReady'
  BY DEF Lose, StepReady, Usable, NextEvent
<1> QED BY <1>1, <1>2, <1>3

\* What every reachable state of locked_state satisfies.
LEMMA TypeInvariantHolds == Spec => []TypeInvariant
<1>1. Init => TypeInvariant
  <2> SUFFICES ASSUME Init PROVE TypeInvariant
    OBVIOUS
  <2>1. LockType
    BY BoardStoreAssumption DEF Init, LockType, Labels, Outside
  <2>2. ProcessType
    BY InitialStateType, EmptySeq DEF Init, ProcessType
  <2>3. FileType /\ BackupType /\ GhostType
    BY EmptySeq DEF Init, FileType, BackupType, GhostType
  <2>4. BackupsBounded /\ StepReady
    BY DEF Init, BackupsBounded, StepReady
  <2> QED BY <2>1, <2>2, <2>3, <2>4 DEF TypeInvariant, TypeOK
<1>2. TypeInvariant /\ [Next]_vars => TypeInvariant'
  <2> SUFFICES ASSUME TypeInvariant, [Next]_vars PROVE TypeInvariant'
    OBVIOUS
  <2>1. CASE Lose
    BY <2>1, LoseType
  <2>2. ASSUME NEW w \in Writers, Loading(w) \/ Body(w) \/ Persisting(w) \/ Crashing(w)
        PROVE  TypeInvariant'
    BY <2>2, LoadingType, BodyType, PersistingType, CrashingType
  <2>3. CASE UNCHANGED vars
    BY <2>3 DEF vars, local, files, ghosts, bounds, TypeInvariant, TypeOK, LockType,
        ProcessType, FileType, BackupType, GhostType, BackupsBounded, StepReady, Usable, NextEvent
  <2> QED BY <2>1, <2>2, <2>3 DEF Next
<1> QED BY <1>1, <1>2, PTL DEF Spec

\* Whatever dies or is lost, the files keep their form, and a process is inside
\* a transaction exactly when it holds the lock (locked_state's flock).
THEOREM TypeCorrect == Spec => []TypeOK
<1>1. TypeInvariant => TypeOK
  BY DEF TypeInvariant
<1> QED BY <1>1, TypeInvariantHolds, PTL
(***************************************************************************)
(* The durable log.                                                        *)
(*                                                                         *)
(* Deaths alone (no half lines, nothing lost) never make the log disagree  *)
(* with the committed board.  LogComplete is not inductive: the holder     *)
(* writes lines ahead of state.json, and before the first state.json there *)
(* may be a backup of a transaction that died, which the next process      *)
(* opens.  The invariant says what the log owes to each of those boards.   *)
(***************************************************************************)
Logged(lines, s) == s.exported <= Len(s.hist) /\ LogHolds(lines, s)

Restoring == {"restore", "restorestate"}
Writing   == {"edit", "export"}
Holding   == Writing \cup {"archive", "snapshot", "snapstate", "prune", "commit"}

NoTornLines ==
    /\ \A k \in DOMAIN log : log[k].seq # 0
    /\ \A b \in DOMAIN backups : \A k \in DOMAIN backups[b].log : backups[b].log[k].seq # 0

\* The board that the next process will open.
StoredLogged ==
    /\ stateFile # Corrupt
    /\ stateFile # Absent => Logged(log, stateFile)
    /\ stateFile = Absent => \A b \in Usable : Logged(log, backups[b].state)

\* The board a process holds, and what it may still append without touching
\* the lines the stored board counts on.
HeldLogged ==
    \A w \in Writers :
        /\ pc[w] \in Restoring => stateFile = Absent
        /\ pc[w] \in Restoring \cup Holding => Logged(log, mem[w])
        /\ pc[w] \in Writing =>
            IF stateFile = Absent THEN Usable = {} ELSE stateFile.exported <= mem[w].exported

LogInvariant == NoTornLines /\ StoredLogged /\ HeldLogged

\* A line with a higher number than a board counts as exported changes
\* nothing for that board, and is the last one of its number.
LEMMA AppendLogged ==
    ASSUME NEW lines \in Seq(Lines), NEW n \in Nat, NEW id \in Nat
    PROVE  /\ \A s \in BoardState : Logged(lines, s) /\ s.exported < n
                => Logged(Append(lines, EventLine(n, id)), s)
           /\ LatestIs(Append(lines, EventLine(n, id)), n, id)
<1> DEFINE more == Append(lines, EventLine(n, id))
<1>1. /\ more \in Seq(Lines) /\ Len(lines) \in Nat /\ Len(more) = Len(lines) + 1
      /\ DOMAIN lines = 1..Len(lines) /\ DOMAIN more = 1..(Len(lines) + 1)
      /\ \A k \in DOMAIN lines : more[k] = lines[k]
      /\ more[Len(lines) + 1] = EventLine(n, id)
  BY LinesType, AppendProperties, LenProperties
<1> HIDE DEF more
<1>2. ASSUME NEW m \in Nat, NEW x, m < n, LatestIs(lines, m, x)
      PROVE  LatestIs(more, m, x)
  <2>1. PICK k \in DOMAIN lines :
            lines[k] = EventLine(m, x) /\ \A j \in DOMAIN lines : j > k => lines[j].seq # m
    BY <1>2 DEF LatestIs
  <2>2. \A j \in DOMAIN more : j > k => more[j].seq # m
    BY <1>1, <1>2, <2>1 DEF EventLine
  <2> QED BY <1>1, <2>1, <2>2 DEF LatestIs
<1>3. ASSUME NEW s \in BoardState, Logged(lines, s), s.exported < n
      PROVE  Logged(more, s)
  <2>1. \A m \in 1..s.exported : m \in Nat /\ m < n
    BY <1>3 DEF BoardState
  <2> QED BY <1>2, <1>3, <2>1 DEF Logged, LogHolds
<1>4. LatestIs(more, n, id)
  BY <1>1 DEF LatestIs
<1> QED BY <1>3, <1>4 DEF more

\* A log nothing was written to owes nothing, so it may be replaced.
LEMMA EmptyLogged ==
    ASSUME NEW s, Logged(<<>>, s), NEW lines
    PROVE  Logged(lines, s)
<1>1. \A n, id : ~LatestIs(<<>>, n, id)
  BY DEF LatestIs
<1> QED BY <1>1 DEF Logged, LogHolds

\* A board that only recorded more events is logged as far as before.
LEMMA SameLogged ==
    ASSUME NEW s \in BoardState, NEW t \in BoardState, NEW lines, Logged(lines, s),
           t.exported = s.exported, Len(s.hist) <= Len(t.hist),
           \A n \in 1..Len(s.hist) : t.hist[n] = s.hist[n]
    PROVE  Logged(lines, t)
<1>1. /\ s.exported \in Nat /\ s.exported <= Len(s.hist)
      /\ Len(s.hist) \in Nat /\ Len(t.hist) \in Nat
  BY LenProperties DEF Logged, BoardState
<1>2. \A n \in 1..s.exported : n \in 1..Len(s.hist)
  BY <1>1
<1> QED BY <1>1, <1>2 DEF Logged, LogHolds

\* The others are outside the lock: HeldLogged is about the holder.
LEMMA HolderLogged ==
    ASSUME LockType, NEW w \in Writers, pc[w] \notin Outside,
           \A v \in Writers \ {w} : pc'[v] = pc[v],
           pc'[w] \in Restoring => stateFile' = Absent,
           pc'[w] \in Restoring \cup Holding => Logged(log', mem'[w]),
           pc'[w] \in Writing =>
               IF stateFile' = Absent THEN Usable' = {} ELSE stateFile'.exported <= mem'[w].exported
    PROVE  HeldLogged'
<1> SUFFICES ASSUME NEW v \in Writers \ {w}
             PROVE  pc'[v] \notin Restoring \cup Holding
  BY DEF HeldLogged, Holding
<1>1. pc[v] \in Outside
  BY DEF LockType
<1> QED BY <1>1 DEF Outside, Restoring, Holding, Writing

\* A step that touches neither the stored board nor the log, and leaves its
\* process at a label without obligations.
LEMMA QuietLogged ==
    ASSUME LogInvariant, NEW w \in Writers, UNCHANGED <<stateFile, log, backups>>,
           pc'[w] \in Outside \cup {"load"},
           \A v \in Writers \ {w} : pc'[v] = pc[v] /\ mem'[v] = mem[v]
    PROVE  LogInvariant'
<1>1. NoTornLines' /\ StoredLogged' /\ Usable' = Usable
  BY DEF LogInvariant, NoTornLines, StoredLogged, Usable
<1>2. HeldLogged'
  <2> SUFFICES ASSUME NEW v \in Writers
               PROVE  /\ pc'[v] \in Restoring => stateFile' = Absent
                      /\ pc'[v] \in Restoring \cup Holding => Logged(log', mem'[v])
                      /\ pc'[v] \in Writing =>
                          IF stateFile' = Absent THEN Usable' = {}
                          ELSE stateFile'.exported <= mem'[v].exported
    BY DEF HeldLogged
  <2>1. CASE v = w
    BY <2>1 DEF Outside, Restoring, Holding, Writing
  <2>2. CASE v # w
    BY <1>1, <2>2 DEF LogInvariant, HeldLogged
  <2> QED BY <2>1, <2>2
<1> QED BY <1>1, <1>2 DEF LogInvariant

\* A step of the holder in memory.
LEMMA MemoryLogged ==
    ASSUME TypeInvariant, LogInvariant, NEW w \in Writers, pc[w] \notin Outside,
           UNCHANGED <<stateFile, log, backups>>,
           NEW s \in BoardState, Hold(w, s), NEW label \in Labels, Goto(w, label),
           label \in Restoring => stateFile = Absent,
           label \in Restoring \cup Holding => Logged(log, s),
           label \in Writing =>
               IF stateFile = Absent THEN Usable = {} ELSE stateFile.exported <= s.exported
    PROVE  LogInvariant'
<1>1. NoTornLines' /\ StoredLogged' /\ Usable' = Usable
  BY DEF LogInvariant, NoTornLines, StoredLogged, Usable
<1>2. /\ pc'[w] = label /\ mem'[w] = s
      /\ \A v \in Writers \ {w} : pc'[v] = pc[v]
  BY DEF TypeInvariant, TypeOK, LockType, ProcessType, Hold, Goto
<1>3. HeldLogged'
  BY <1>1, <1>2, HolderLogged DEF TypeInvariant, TypeOK
<1> QED BY <1>1, <1>3 DEF LogInvariant
LEMMA LoadingLogged ==
    ASSUME TypeInvariant, LogInvariant, NEW w \in Writers, Loading(w)
    PROVE  LogInvariant'
<1> USE DEF TypeInvariant, TypeOK
<1>1. CASE Acquire(w)
  <2>1. pc'[w] = "load" /\ \A v \in Writers \ {w} : pc'[v] = pc[v] /\ mem'[v] = mem[v]
    BY <1>1 DEF Acquire, Goto, LockType
  <2> QED BY <1>1, <2>1, QuietLogged DEF Acquire, files
<1>2. CASE LoadState(w)
  <2>1. stateFile # Absent /\ stateFile \in BoardState /\ Logged(log, stateFile)
    BY <1>2 DEF LoadState, FileType, LogInvariant, StoredLogged
  <2>2. stateFile.exported <= stateFile.exported
    BY <2>1 DEF BoardState
  <2> QED BY <1>2, <2>1, <2>2, MemoryLogged
      DEF LoadState, At, files, Labels, Outside, Restoring, Writing
<1>3. CASE LoadBackup(w)
  <2>1. stateFile = Absent
    BY <1>3 DEF LoadBackup, LogInvariant, StoredLogged
  <2>2. NewestUsable \in Usable
    BY <1>3, NewestUsableType DEF LoadBackup
  <2>3. /\ backups[NewestUsable].state \in BoardState
        /\ Logged(log, backups[NewestUsable].state)
    BY <2>1, <2>2 DEF Usable, BackupType, LogInvariant, StoredLogged
  <2> QED BY <1>3, <2>1, <2>3, MemoryLogged
      DEF LoadBackup, At, files, Labels, Outside, Restoring, Writing
<1>4. CASE RestoreLog(w)
  <2>1. stateFile = Absent /\ Logged(log, mem[w])
    BY <1>4 DEF RestoreLog, At, LogInvariant, HeldLogged, Restoring
  <2>2. NewestUsable \in Usable
    BY <1>4, NewestUsableType DEF RestoreLog, At, StepReady
  <2>3. \A s : Logged(log, s) => Logged(log', s)
    BY <1>4, EmptyLogged DEF RestoreLog
  <2>4. NoTornLines'
    BY <1>4, <2>2 DEF RestoreLog, LogInvariant, NoTornLines, Usable
  <2>5. StoredLogged'
    BY <1>4, <2>1, <2>3 DEF RestoreLog, LogInvariant, StoredLogged, Usable
  <2>6. HeldLogged'
    <3>1. /\ pc'[w] = "restorestate" /\ mem' = mem /\ stateFile' = stateFile
          /\ \A v \in Writers \ {w} : pc'[v] = pc[v]
      BY <1>4 DEF RestoreLog, Goto, LockType
    <3> QED BY <1>4, <2>1, <2>3, <3>1, HolderLogged
        DEF RestoreLog, At, Outside, Restoring, Writing
  <2> QED BY <2>4, <2>5, <2>6 DEF LogInvariant
<1>5. CASE RestoreState(w)
  <2>1. stateFile = Absent /\ Logged(log, mem[w]) /\ mem[w] \in BoardState
    BY <1>5 DEF RestoreState, At, LogInvariant, HeldLogged, Restoring, ProcessType
  <2>2. stateFile' = mem[w] /\ mem' = mem /\ log' = log /\ backups' = backups
    BY <1>5, <2>1 DEF RestoreState
  <2>3. stateFile' \notin {Absent, Corrupt}
    BY <2>1, <2>2, FileAssumption
  <2>4. NoTornLines' /\ StoredLogged'
    BY <2>1, <2>2, <2>3 DEF LogInvariant, NoTornLines, StoredLogged
  <2>5. HeldLogged'
    <3>1. pc'[w] = "edit" /\ \A v \in Writers \ {w} : pc'[v] = pc[v]
      BY <1>5 DEF RestoreState, Goto, LockType
    <3>2. mem[w].exported <= mem[w].exported
      BY <2>1 DEF BoardState
    <3> QED BY <1>5, <2>1, <2>2, <2>3, <3>1, <3>2, HolderLogged
        DEF RestoreState, At, Outside, Restoring
  <2> QED BY <2>4, <2>5 DEF LogInvariant
<1>6. CASE LoadLog(w)
  <2> DEFINE s == [InitialState EXCEPT !.hist = [n \in 1..LastSequence |-> 0],
                                       !.exported = LastSequence]
  <2>1. LastSequence \in Nat
    BY LastSequenceType DEF FileType
  <2>2. s \in BoardState /\ s.exported = LastSequence /\ s.hist = [n \in 1..LastSequence |-> 0]
    BY <2>1, ZerosType, InitialStateType DEF BoardState
  <2>3. Logged(log, s)
    BY <2>1, <2>2, ZerosType DEF Logged, LogHolds
  <2>4. stateFile = Absent /\ Usable = {}
    BY <1>6 DEF LoadLog, LogInvariant, StoredLogged
  <2> HIDE DEF s
  <2>5. Hold(w, s)
    BY <1>6 DEF LoadLog, s
  <2> QED BY <1>6, <2>2, <2>3, <2>4, <2>5, MemoryLogged
      DEF LoadLog, At, files, Labels, Outside, Restoring
<1>7. CASE LoadNothing(w)
  <2>1. stateFile = Absent /\ Usable = {}
    BY <1>7 DEF LoadNothing, LogInvariant, StoredLogged
  <2>2. Logged(log, InitialState)
    BY EmptySeq DEF Logged, LogHolds, InitialState
  <2> QED BY <1>7, <2>1, <2>2, InitialStateType, MemoryLogged
      DEF LoadNothing, At, files, Labels, Outside, Restoring
<1> QED BY <1>1, <1>2, <1>3, <1>4, <1>5, <1>6, <1>7 DEF Loading

\* The body only makes the board longer.
LEMMA RecordingLogged ==
    ASSUME TypeInvariant, LogInvariant, NEW w \in Writers, pc[w] = "edit",
           NEW s \in BoardState, Hold(w, s), UNCHANGED <<pc, stateFile, log, backups>>,
           s.hist = Recorded(w).hist, s.exported = mem[w].exported
    PROVE  LogInvariant'
<1> USE DEF TypeInvariant, TypeOK
<1>1. mem[w] \in BoardState /\ Logged(log, mem[w]) /\ stamps + 1 \in Nat
  BY DEF ProcessType, LogInvariant, HeldLogged, Holding, Writing, GhostType
<1>2. /\ mem[w].hist \in Seq(Nat) /\ s.hist = Append(mem[w].hist, stamps + 1)
      /\ Len(mem[w].hist) \in Nat /\ Len(s.hist) = Len(mem[w].hist) + 1
      /\ \A n \in 1..Len(mem[w].hist) : s.hist[n] = mem[w].hist[n]
  BY <1>1, AppendProperties, LenProperties DEF Recorded, BoardState
<1>3. Logged(log, s)
  <2>1. Len(mem[w].hist) <= Len(s.hist)
    BY <1>2
  <2>2. \A n \in 1..Len(mem[w].hist) : s.hist[n] = mem[w].hist[n]
    BY <1>2
  <2> QED BY <1>1, <2>1, <2>2, SameLogged
<1>4. Goto(w, "edit")
  BY DEF Goto, LockType
<1>5. IF stateFile = Absent THEN Usable = {} ELSE stateFile.exported <= s.exported
  BY DEF LogInvariant, HeldLogged, Writing
<1> QED BY <1>3, <1>4, <1>5, MemoryLogged DEF Labels, Outside, Restoring

LEMMA BodyLogged ==
    ASSUME TypeInvariant, LogInvariant, NEW w \in Writers, Body(w)
    PROVE  LogInvariant'
<1> USE DEF TypeInvariant, TypeOK
<1>0. Recorded(w) \in BoardState /\ Recorded(w).exported = mem[w].exported /\ stamps + 1 \in Nat
  BY RecordedType DEF Recorded, BoardState
<1>1. ASSUME NEW i \in Items, ChangeItem(w, i) PROVE LogInvariant'
  <2> DEFINE s == [Recorded(w) EXCEPT !.hot[i] = stamps + 1]
  <2>1. s \in BoardState /\ s.hist = Recorded(w).hist /\ s.exported = mem[w].exported
    BY <1>0 DEF BoardState
  <2> QED BY <1>1, <2>1, RecordingLogged DEF ChangeItem, Recording, CanRecord, At, files
<1>2. ASSUME NEW i \in Items, FinishItem(w, i) PROVE LogInvariant'
  <2> DEFINE s == [Recorded(w) EXCEPT !.hot[i] = stamps + 1, !.done = @ \cup {i}]
  <2>1. s \in BoardState /\ s.hist = Recorded(w).hist /\ s.exported = mem[w].exported
    BY <1>0 DEF BoardState
  <2> QED BY <1>2, <2>1, RecordingLogged DEF FinishItem, Recording, CanRecord, At, files
<1>3. ASSUME NEW a \in Agents, DirectOwner(w, a) PROVE LogInvariant'
  <2> DEFINE s == [Recorded(w) EXCEPT !.wanted = IF a \in @ THEN @ \ {a} ELSE @ \cup {a}]
  <2>1. s \in BoardState /\ s.hist = Recorded(w).hist /\ s.exported = mem[w].exported
    BY <1>0 DEF BoardState
  <2> QED BY <1>3, <2>1, RecordingLogged DEF DirectOwner, Recording, CanRecord, At, files
<1>4. ASSUME NEW q \in Requests, Cancel(w, q) PROVE LogInvariant'
  <2> DEFINE s == [Recorded(w) EXCEPT !.hot[q] = 0, !.cancelled = @ \cup {q}]
  <2>1. s \in BoardState /\ s.hist = Recorded(w).hist /\ s.exported = mem[w].exported
    BY <1>0 DEF BoardState
  <2> QED BY <1>4, <2>1, RecordingLogged DEF Cancel, CanRecord, At, files
<1>5. ASSUME Release(w), UNCHANGED files PROVE LogInvariant'
  <2>1. pc'[w] = "idle" /\ \A v \in Writers \ {w} : pc'[v] = pc[v] /\ mem'[v] = mem[v]
    BY <1>5 DEF Release, Hold, Goto, LockType, ProcessType
  <2> QED BY <1>5, <2>1, QuietLogged DEF files, Outside
<1>6. CASE Abort(w)
  BY <1>5, <1>6 DEF Abort
<1>7. CASE EndBody(w)
  <2>1. CASE mem[w] = stateFile
    BY <1>5, <1>7, <2>1 DEF EndBody
  <2>2. CASE mem[w] # stateFile
    <3>1. Logged(log, mem[w]) /\
          IF stateFile = Absent THEN Usable = {} ELSE stateFile.exported <= mem[w].exported
      BY <1>7 DEF EndBody, At, LogInvariant, HeldLogged, Holding, Writing
    <3> QED BY <1>7, <2>2, <3>1, HoldSame, MemoryLogged
        DEF EndBody, At, files, Labels, Outside, Restoring
  <2> QED BY <2>1, <2>2
<1> QED BY <1>1, <1>2, <1>3, <1>4, <1>6, <1>7 DEF Body
\* One line is written ahead of state.json.
LEMMA ExportLogged ==
    ASSUME TypeInvariant, LogInvariant, NEW w \in Writers, ExportOne(w)
    PROVE  LogInvariant'
<1> USE DEF TypeInvariant, TypeOK
<1> DEFINE n == mem[w].exported + 1
           id == mem[w].hist[n]
           s == [mem[w] EXCEPT !.exported = n]
<1>1. /\ mem[w] \in BoardState /\ mem[w].exported \in Nat /\ mem[w].hist \in Seq(Nat)
      /\ Len(mem[w].hist) \in Nat /\ n \in Nat /\ n \in 1..Len(mem[w].hist)
  BY LenProperties DEF ExportOne, ProcessType, BoardState
<1>2. id \in Nat /\ s \in BoardState /\ s.hist = mem[w].hist /\ s.exported = n
  BY <1>1, ElementOfSeq DEF BoardState
<1>3. log \in Seq(Lines) /\ Logged(log, mem[w])
  BY DEF FileType, ExportOne, At, LogInvariant, HeldLogged, Holding, Writing
<1>4. log' = Append(log, EventLine(n, id))
  <2>1. log # <<>> => log[Len(log)] # HalfEvent
    <3>1. log # <<>> => Len(log) \in DOMAIN log
      BY <1>3, LenProperties, EmptySeq
    <3> QED BY <3>1 DEF LogInvariant, NoTornLines, HalfEvent, EventLine
  <2> QED BY <2>1 DEF ExportOne, AppendLine
<1>5. /\ stateFile' = stateFile /\ backups' = backups /\ Usable' = Usable
      /\ mem' = [mem EXCEPT ![w] = s] /\ pc' = pc
  BY DEF ExportOne, Hold, Usable
<1>6. IF stateFile = Absent THEN Usable = {} ELSE stateFile.exported <= mem[w].exported
  BY DEF ExportOne, At, LogInvariant, HeldLogged, Writing
<1> HIDE DEF n, id, s
<1>7. /\ \A t \in BoardState : Logged(log, t) /\ t.exported < n => Logged(log', t)
      /\ LatestIs(log', n, id)
  BY <1>1, <1>2, <1>3, <1>4, AppendLogged
<1>8. NoTornLines'
  <2>1. \A k \in DOMAIN log' : log'[k].seq # 0
    <3>1. /\ DOMAIN log = 1..Len(log) /\ DOMAIN log' = 1..(Len(log) + 1) /\ Len(log) \in Nat
          /\ \A k \in 1..Len(log) : log'[k] = log[k]
          /\ log'[Len(log) + 1] = EventLine(n, id)
      BY <1>1, <1>2, <1>3, <1>4, LinesType, AppendProperties, LenProperties
    <3>2. EventLine(n, id).seq # 0
      BY <1>1 DEF EventLine
    <3> QED BY <3>1, <3>2 DEF LogInvariant, NoTornLines
  <2> QED BY <1>5, <2>1 DEF LogInvariant, NoTornLines
<1>9. StoredLogged'
  <2>1. CASE stateFile = Absent
    BY <1>5, <1>6, <2>1 DEF LogInvariant, StoredLogged
  <2>2. CASE stateFile # Absent
    <3>1. stateFile \in BoardState /\ Logged(log, stateFile)
      BY <2>2 DEF FileType, LogInvariant, StoredLogged
    <3>2. stateFile.exported < n
      BY <1>1, <1>6, <2>2, <3>1 DEF n, BoardState
    <3> QED BY <1>5, <1>7, <2>2, <3>1, <3>2 DEF LogInvariant, StoredLogged
  <2> QED BY <2>1, <2>2
<1>10. Logged(log', s)
  <2>1. Logged(log', mem[w])
    BY <1>1, <1>3, <1>7 DEF n
  <2>2. \A m \in 1..n : m = n \/ m \in 1..mem[w].exported
    BY <1>1 DEF n
  <2> QED BY <1>1, <1>2, <1>7, <2>1, <2>2 DEF Logged, LogHolds, id
<1>11. HeldLogged'
  <2>1. mem'[w] = s /\ pc'[w] = "export" /\ pc[w] = "export"
    BY <1>5 DEF ExportOne, At, ProcessType
  <2>2. stateFile # Absent => stateFile.exported <= s.exported
    BY <1>1, <1>2, <1>6 DEF n, FileType, LogInvariant, StoredLogged, BoardState
  <2> QED BY <1>5, <1>6, <1>10, <2>1, <2>2, HolderLogged DEF Outside, Restoring
<1> QED BY <1>8, <1>9, <1>11 DEF LogInvariant

\* What the holder's board is known to be in the later steps.
LEMMA HeldBoard ==
    ASSUME TypeInvariant, LogInvariant, NEW w \in Writers, pc[w] \in Holding
    PROVE  mem[w] \in BoardState /\ Logged(log, mem[w])
BY DEF TypeInvariant, TypeOK, ProcessType, LogInvariant, HeldLogged

LEMMA PersistingLogged ==
    ASSUME TypeInvariant, LogInvariant, NEW w \in Writers, Persisting(w)
    PROVE  LogInvariant'
<1> USE DEF TypeInvariant, TypeOK
<1>1. ASSUME NEW s \in BoardState, s.hist = mem[w].hist, s.exported = mem[w].exported,
             pc[w] \in Holding, Hold(w, s), UNCHANGED <<stateFile, log, backups>>,
             NEW label \in Holding \ Writing, Goto(w, label)
      PROVE  LogInvariant'
  <2>1. Logged(log, s)
    BY <1>1, HeldBoard DEF Logged, LogHolds
  <2> QED BY <1>1, <2>1, MemoryLogged DEF Labels, Outside, Restoring, Holding, Writing
<1>0. mem[w] \in BoardState /\ NextEvent(mem[w]) \in Nat
  <2>1. mem[w] \in BoardState
    BY DEF ProcessType
  <2>2. mem[w].hist \in Seq(Nat)
    BY <2>1 DEF BoardState
  <2> QED BY <2>1, <2>2, LenProperties DEF NextEvent
<1>2. CASE ExportOne(w)
  BY <1>2, ExportLogged
<1>3. CASE ReturnAgents(w)
  <2> DEFINE hot == [i \in Items |->
            IF mem[w].hot[i] = 0 /\ i \in mem[w].wanted /\ i \in ColdItems
            THEN ColdVersion(i) ELSE mem[w].hot[i]]
             s == [mem[w] EXCEPT !.hot = hot]
  <2>1. mem[w] \in BoardState
    BY DEF ProcessType
  <2>2. hot \in [Items -> Nat]
    BY <2>1, ColdVersionType DEF FileType, BoardState
  <2>3. s \in BoardState /\ s.hist = mem[w].hist /\ s.exported = mem[w].exported
    BY <2>1, <2>2 DEF BoardState
  <2> HIDE DEF s
  <2>4. Hold(w, s)
    BY <1>3 DEF ReturnAgents, s
  <2> QED BY <1>1, <1>3, <2>3, <2>4 DEF ReturnAgents, At, files, Holding, Writing
<1>4. ASSUME NEW i \in Items, Archive(w, i) PROVE LogInvariant'
  <2> DEFINE s == Archived(mem[w], i)
  <2>1. s \in BoardState /\ s.hist = mem[w].hist /\ s.exported = mem[w].exported
    BY <1>0 DEF BoardState, Archived
  <2>2. Goto(w, "archive")
    BY <1>4 DEF Archive, At, Goto, LockType
  <2> QED BY <1>1, <1>4, <2>1, <2>2 DEF Archive, At, Holding, Writing
<1>5. CASE EndArchive(w)
  BY <1>1, <1>5, HoldSame DEF EndArchive, At, files, Holding, Writing
<1>6. CASE SkipSnapshot(w)
  <2> DEFINE s == [mem[w] EXCEPT !.backupAt = IF BackupDue(mem[w]) THEN NextEvent(mem[w]) ELSE @]
  <2>1. s \in BoardState /\ s.hist = mem[w].hist /\ s.exported = mem[w].exported
    BY <1>0 DEF BoardState
  <2> QED BY <1>1, <1>6, <2>1 DEF SkipSnapshot, At, files, Holding, Writing
<1>7. CASE SnapshotLog(w)
  <2> DEFINE n == NextEvent(mem[w])
             s == [mem[w] EXCEPT !.backupAt = n]
  <2>1. /\ s \in BoardState /\ s.hist = mem[w].hist /\ s.exported = mem[w].exported
    BY <1>0 DEF BoardState
  <2>2. \A b \in DOMAIN backups' :
            \/ b \in DOMAIN backups /\ backups'[b] = backups[b]
            \/ /\ b = n /\ backups'[b].log = log
               /\ backups'[b].state = IF n \in DOMAIN backups THEN backups[n].state ELSE Absent
    BY <1>7 DEF SnapshotLog, WithBackup
  <2>3. \A b \in Usable' : b \in Usable /\ backups'[b].state = backups[b].state
    BY <2>2 DEF Usable
  <2>4. NoTornLines'
    BY <1>7, <2>2 DEF SnapshotLog, LogInvariant, NoTornLines
  <2>5. StoredLogged'
    BY <1>7, <2>3 DEF SnapshotLog, LogInvariant, StoredLogged
  <2>6. HeldLogged'
    <3>1. /\ pc'[w] = "snapstate" /\ mem'[w] = s /\ log' = log
          /\ \A v \in Writers \ {w} : pc'[v] = pc[v]
      BY <1>7 DEF SnapshotLog, Goto, Hold, LockType, ProcessType
    <3>2. Logged(log, s)
      BY <1>7, <2>1, HeldBoard DEF SnapshotLog, At, Holding, Logged, LogHolds
    <3> QED BY <1>7, <3>1, <3>2, HolderLogged DEF SnapshotLog, At, Outside, Restoring, Writing
  <2> QED BY <2>4, <2>5, <2>6 DEF LogInvariant
<1>8. CASE SnapshotState(w)
  <2> DEFINE n == NextEvent(mem[w])
  <2>1. n \in DOMAIN backups
    BY <1>8 DEF SnapshotState, At, StepReady
  <2>2. mem[w] \in BoardState /\ Logged(log, mem[w])
    BY <1>8, HeldBoard DEF SnapshotState, At, Holding
  <2>3. /\ DOMAIN backups' = DOMAIN backups
        /\ \A b \in DOMAIN backups : /\ backups'[b].log = backups[b].log
                                     /\ b # n => backups'[b].state = backups[b].state
        /\ backups'[n].state = mem[w]
    BY <1>8, <2>1 DEF SnapshotState, WithBackup
  <2>4. NoTornLines'
    BY <1>8, <2>3 DEF SnapshotState, LogInvariant, NoTornLines
  <2>5. StoredLogged'
    BY <1>8, <2>2, <2>3 DEF SnapshotState, LogInvariant, StoredLogged, Usable
  <2>6. HeldLogged'
    <3>1. /\ pc'[w] = "prune" /\ mem' = mem /\ log' = log
          /\ \A v \in Writers \ {w} : pc'[v] = pc[v]
      BY <1>8 DEF SnapshotState, Goto, LockType
    <3> QED BY <1>8, <2>2, <3>1, HolderLogged DEF SnapshotState, At, Outside, Restoring, Writing
  <2> QED BY <2>4, <2>5, <2>6 DEF LogInvariant
<1>9. CASE Prune(w)
  <2>1. mem[w] \in BoardState /\ Logged(log, mem[w])
    BY <1>9, HeldBoard DEF Prune, At, Holding
  <2>2. \A b \in DOMAIN backups' : b \in DOMAIN backups /\ backups'[b] = backups[b]
    BY <1>9, PrunedType DEF Prune
  <2>3. NoTornLines' /\ StoredLogged'
    BY <1>9, <2>2 DEF Prune, LogInvariant, NoTornLines, StoredLogged, Usable
  <2>4. HeldLogged'
    <3>1. /\ pc'[w] = "commit" /\ mem' = mem /\ log' = log
          /\ \A v \in Writers \ {w} : pc'[v] = pc[v]
      BY <1>9 DEF Prune, Goto, LockType
    <3> QED BY <1>9, <2>1, <3>1, HolderLogged DEF Prune, At, Outside, Restoring, Writing
  <2> QED BY <2>3, <2>4 DEF LogInvariant
<1>10. CASE Commit(w)
  <2>1. mem[w] \in BoardState /\ Logged(log, mem[w])
    BY <1>10, HeldBoard DEF Commit, At, Holding
  <2>2. stateFile' = mem[w] /\ stateFile' \notin {Absent, Corrupt}
    BY <1>10, <2>1, FileAssumption DEF Commit
  <2>3. NoTornLines' /\ StoredLogged'
    BY <1>10, <2>1, <2>2 DEF Commit, LogInvariant, NoTornLines, StoredLogged
  <2>4. HeldLogged'
    <3>1. pc'[w] \in {"idle", "sweepread"} /\ \A v \in Writers \ {w} : pc'[v] = pc[v]
      BY <1>10 DEF Commit, Goto, LockType
    <3> QED BY <1>10, <3>1, HolderLogged DEF Commit, At, Outside, Restoring, Holding, Writing
  <2> QED BY <2>3, <2>4 DEF LogInvariant
<1>11. CASE SweepRead(w)
  <2>1. pc'[w] = "sweepwrite" /\ \A v \in Writers \ {w} : pc'[v] = pc[v] /\ mem'[v] = mem[v]
    BY <1>11 DEF SweepRead, Goto, LockType
  <2> QED BY <1>11, <2>1, QuietLogged DEF SweepRead, files, Outside
<1>12. CASE SweepWrite(w)
  <2>1. pc'[w] = "idle" /\ \A v \in Writers \ {w} : pc'[v] = pc[v] /\ mem'[v] = mem[v]
    BY <1>12 DEF SweepWrite, Release, Hold, Goto, LockType, ProcessType
  <2> QED BY <1>12, <2>1, QuietLogged DEF SweepWrite, Outside
<1> QED BY <1>2, <1>3, <1>4, <1>5, <1>6, <1>7, <1>8, <1>9, <1>10, <1>11, <1>12 DEF Persisting
LEMMA CrashingLogged ==
    ASSUME TypeInvariant, LogInvariant, TornWrites = FALSE, NEW w \in Writers, Crashing(w)
    PROVE  LogInvariant'
<1> USE DEF TypeInvariant, TypeOK
<1>1. Release(w) /\ UNCHANGED <<stateFile, backups>>
  BY DEF Crashing, Crash, CrashTearingLog, CrashTearingCold, CrashRestoring, files
<1>2. pc'[w] = "idle" /\ \A v \in Writers \ {w} : pc'[v] = pc[v] /\ mem'[v] = mem[v]
  BY <1>1 DEF Release, Hold, Goto, LockType, ProcessType
<1>3. CASE Crash(w)
  BY <1>1, <1>2, <1>3, QuietLogged DEF Crash, files, Outside
<1>4. CASE CrashRestoring(w)
  <2> DEFINE saved == backups[NewestUsable].log
  <2>1. NewestUsable \in Usable /\ saved \in Seq(Lines)
    BY <1>4, NewestUsableType DEF CrashRestoring, At, StepReady, Usable, BackupType
  <2>2. PICK n \in 1..Len(saved) : log' = SubSeq(saved, 1, n)
    BY <1>4 DEF CrashRestoring
  <2>3. \A k \in DOMAIN log' : k \in DOMAIN saved /\ log'[k] = saved[k]
    <3>1. DOMAIN saved = 1..Len(saved) /\ Len(saved) \in Nat /\ \A i \in 1..n : saved[i] \in Lines
      BY <2>1, ElementOfSeq, LenProperties
    <3>2. /\ log' \in Seq(Lines) /\ Len(log') = n
          /\ \A k \in 1..n : log'[k] = saved[k]
      BY <2>2, <3>1, SubSeqProperties
    <3>3. DOMAIN log' = 1..n
      BY <3>2, LenProperties
    <3> QED BY <3>1, <3>2, <3>3
  <2>4. NoTornLines'
    BY <1>1, <2>1, <2>3 DEF LogInvariant, NoTornLines, Usable
  <2>5. stateFile = Absent /\ log = <<>>
    BY <1>4 DEF CrashRestoring, At, LogInvariant, HeldLogged, Restoring
  <2>6. StoredLogged'
    BY <1>1, <2>5, EmptyLogged DEF LogInvariant, StoredLogged, Usable
  <2>7. HeldLogged'
    BY <1>2, <1>4, HolderLogged DEF CrashRestoring, At, Outside, Restoring, Holding, Writing
  <2> QED BY <2>4, <2>6, <2>7 DEF LogInvariant
<1> QED BY <1>3, <1>4 DEF Crashing, CrashTearingLog, CrashTearingCold

LEMMA LogInvariantHolds ==
    ASSUME TornWrites = FALSE, MaxLosses = 0
    PROVE  Spec => []LogInvariant
<1>1. Init => LogInvariant
  <2> SUFFICES ASSUME Init PROVE LogInvariant
    OBVIOUS
  <2>1. NoTornLines /\ HeldLogged
    BY DEF Init, NoTornLines, HeldLogged, Restoring, Holding, Writing
  <2>2. StoredLogged
    BY FileAssumption DEF Init, StoredLogged, Usable
  <2> QED BY <2>1, <2>2 DEF LogInvariant
<1>2. TypeInvariant /\ LogInvariant /\ [Next]_vars => LogInvariant'
  <2> SUFFICES ASSUME TypeInvariant, LogInvariant, [Next]_vars PROVE LogInvariant'
    OBVIOUS
  <2>1. ~Lose
    BY DEF Lose, TypeInvariant, TypeOK, GhostType
  <2>2. ASSUME NEW w \in Writers, Loading(w) \/ Body(w) \/ Persisting(w) \/ Crashing(w)
        PROVE  LogInvariant'
    BY <2>2, LoadingLogged, BodyLogged, PersistingLogged, CrashingLogged
  <2>3. CASE UNCHANGED vars
    BY <2>3 DEF vars, files, LogInvariant, NoTornLines, StoredLogged, HeldLogged, Usable
  <2> QED BY <2>1, <2>2, <2>3 DEF Next
<1> QED BY <1>1, <1>2, TypeInvariantHolds, PTL DEF Spec

\* However many processes die, and wherever between two writes, the log holds
\* every event the committed board counts as exported, under its number
\* (_persist_visible_board writes events.jsonl before state.json).
THEOREM LogNeverBehind ==
    ASSUME TornWrites = FALSE, MaxLosses = 0
    PROVE  Spec => []LogComplete
<1>1. LogInvariant => LogComplete
  BY DEF LogInvariant, StoredLogged, LogComplete, Readable, Logged
<1> QED BY <1>1, LogInvariantHolds, PTL

(***************************************************************************)
(* The archive.  What cancel_task is about to write back is an earlier     *)
(* archive with lines left out, so it names no record twice either.        *)
(***************************************************************************)
NoneTwice(lines) ==
    \A j, k \in DOMAIN lines : lines[j].item = lines[k].item /\ lines[j].item # None => j = k

ColdInvariant == NoneTwice(cold) /\ \A w \in Writers : NoneTwice(sweep[w])

LEMMA AppendedOnce ==
    ASSUME NEW lines \in Seq(ColdLines), NoneTwice(lines),
           NEW line \in ColdLines, NEW half \in ColdLines, NEW garbled \in ColdLines,
           garbled.item = None,
           line.item = None \/ \A k \in DOMAIN lines : lines[k].item # line.item
    PROVE  NoneTwice(AppendLine(lines, line, half, garbled))
<1>1. DOMAIN lines = 1..Len(lines) /\ Len(lines) \in Nat
  BY LenProperties
<1>2. CASE lines # <<>> /\ lines[Len(lines)] = half
  <2> DEFINE new == [lines EXCEPT ![Len(lines)] = garbled]
  <2>1. /\ DOMAIN new = DOMAIN lines
        /\ \A k \in DOMAIN lines : new[k] = lines[k] \/ new[k].item = None
    BY <1>1
  <2>2. NoneTwice(new)
    <3> HIDE DEF new
    <3> QED BY <2>1 DEF NoneTwice
  <2> QED BY <1>2, <2>2 DEF AppendLine
<1>3. CASE ~(lines # <<>> /\ lines[Len(lines)] = half)
  <2> DEFINE new == Append(lines, line)
  <2>1. new \in Seq(ColdLines) /\ Len(new) = Len(lines) + 1
    BY AppendProperties
  <2>2. DOMAIN new = 1..(Len(lines) + 1)
    BY <2>1, LenProperties
  <2>3. new[Len(lines) + 1] = line /\ \A k \in 1..Len(lines) : new[k] = lines[k]
    BY AppendProperties
  <2>4. NoneTwice(new)
    <3> HIDE DEF new
    <3> QED BY <1>1, <2>2, <2>3 DEF NoneTwice
  <2> QED BY <1>3, <2>4 DEF AppendLine
<1> QED BY <1>2, <1>3

LEMMA ColdStep ==
    ASSUME TypeInvariant, ColdInvariant, NEW w \in Writers, Persisting(w) \/ Crashing(w)
    PROVE  ColdInvariant'
<1> USE DEF TypeInvariant, TypeOK
<1>1. cold \in Seq(ColdLines) /\ sweep \in [Writers -> Seq(ColdLines)]
  BY DEF FileType, ProcessType
<1>2. /\ HalfItem \in ColdLines /\ GarbledItem \in ColdLines
      /\ HalfItem.item = None /\ GarbledItem.item = None
  BY DEF HalfItem, GarbledItem, ItemLine, ColdLines
<1>3. NoneTwice(<<>>)
  BY DEF NoneTwice
<1>4. ASSUME UNCHANGED cold, UNCHANGED sweep PROVE ColdInvariant'
  BY <1>4 DEF ColdInvariant, NoneTwice
<1>5. ASSUME NEW i \in Items, Archive(w, i) PROVE ColdInvariant'
  <2>1. sweep' = sweep /\ (i \in ColdItems => cold' = cold)
    BY <1>5 DEF Archive, local
  <2>2. CASE i \notin ColdItems
    <3> DEFINE line == ItemLine(i, mem[w].hot[i])
    <3>1. line \in ColdLines /\ line.item = i /\ i # None
      BY BoardStoreAssumption DEF ProcessType, BoardState, ItemLine, ColdLines
    <3>2. \A k \in DOMAIN cold : cold[k].item # i
      BY <2>2, <3>1 DEF ColdItems
    <3>3. cold' = AppendLine(cold, line, HalfItem, GarbledItem)
      BY <1>5, <2>2 DEF Archive
    <3> HIDE DEF line
    <3>4. NoneTwice(cold')
      BY <1>1, <1>2, <3>1, <3>2, <3>3, AppendedOnce DEF ColdInvariant
    <3> QED BY <2>1, <3>4 DEF ColdInvariant, NoneTwice
  <2> QED BY <1>4, <2>1, <2>2
<1>6. CASE SweepRead(w)
  <2> DEFINE left == Without(cancelling[w])
  <2>1. /\ DOMAIN left = DOMAIN cold
        /\ \A k \in DOMAIN cold : left[k] = cold[k] \/ left[k].item = None
    BY <1>2 DEF Without
  <2>2. NoneTwice(left)
    <3> HIDE DEF left
    <3> QED BY <2>1 DEF NoneTwice, ColdInvariant
  <2>3. sweep' = [sweep EXCEPT ![w] = left] /\ cold' = cold
    BY <1>6 DEF SweepRead, files
  <2> HIDE DEF left
  <2>4. \A v \in Writers : NoneTwice(sweep'[v])
    BY <1>1, <2>2, <2>3 DEF ColdInvariant
  <2>5. NoneTwice(cold')
    BY <2>3 DEF ColdInvariant
  <2> QED BY <2>4, <2>5 DEF ColdInvariant, NoneTwice
<1>7. ASSUME Release(w), NoneTwice(cold') PROVE ColdInvariant'
  <2>1. \A v \in Writers : NoneTwice(sweep'[v])
    BY <1>1, <1>3, <1>7 DEF Release, ColdInvariant
  <2> QED BY <1>7, <2>1 DEF ColdInvariant, NoneTwice
<1>8. CASE SweepWrite(w)
  BY <1>7, <1>8 DEF SweepWrite, ColdInvariant
<1>9. CASE Crashing(w)
  <2>1. CASE CrashTearingCold(w)
    BY <1>1, <1>2, <1>7, <2>1, AppendedOnce DEF CrashTearingCold, ColdInvariant
  <2>2. CASE Crash(w) \/ CrashTearingLog(w) \/ CrashRestoring(w)
    BY <1>7, <2>2 DEF Crash, CrashTearingLog, CrashRestoring, files, ColdInvariant
  <2> QED BY <1>9, <2>1, <2>2 DEF Crashing
<1>10. CASE \/ ExportOne(w) \/ ReturnAgents(w) \/ EndArchive(w) \/ SkipSnapshot(w)
            \/ SnapshotLog(w) \/ SnapshotState(w) \/ Prune(w) \/ Commit(w)
  BY <1>4, <1>10 DEF ExportOne, ReturnAgents, EndArchive, SkipSnapshot, SnapshotLog,
                     SnapshotState, Prune, Commit, files, local
<1> QED BY <1>5, <1>6, <1>8, <1>9, <1>10 DEF Persisting

(***************************************************************************)
(* Whoever dies after appending a record to the archive, whatever half     *)
(* lines that leaves, and whoever rewrites the archive outside the lock,   *)
(* no record is in it twice (_append_cold compares identities first).      *)
(***************************************************************************)
THEOREM ArchivedOnce == Spec => []ColdOnce
<1>1. Init => ColdInvariant
  BY DEF Init, ColdInvariant, NoneTwice
<1>2. TypeInvariant /\ ColdInvariant /\ [Next]_vars => ColdInvariant'
  <2> SUFFICES ASSUME TypeInvariant, ColdInvariant, [Next]_vars PROVE ColdInvariant'
    OBVIOUS
  <2>1. ASSUME UNCHANGED cold, UNCHANGED sweep PROVE ColdInvariant'
    BY <2>1 DEF ColdInvariant, NoneTwice
  <2>2. CASE UNCHANGED vars
    BY <2>1, <2>2 DEF vars, files, local
  <2>3. CASE Lose
    <3>1. sweep' = sweep /\ cold' \in {cold, <<>>}
      BY <2>3 DEF Lose, local
    <3> QED BY <3>1 DEF ColdInvariant, NoneTwice
  <2>4. ASSUME NEW w \in Writers, Loading(w) PROVE ColdInvariant'
    BY <2>1, <2>4 DEF Loading, Acquire, LoadState, LoadBackup, RestoreLog, RestoreState,
                      LoadLog, LoadNothing, files, local
  <2>5. ASSUME NEW w \in Writers, Body(w) PROVE ColdInvariant'
    <3>1. CASE Release(w) /\ UNCHANGED files
      <4>1. cold' = cold /\ sweep \in [Writers -> Seq(ColdLines)]
        BY <3>1 DEF files, TypeInvariant, TypeOK, ProcessType
      <4>2. NoneTwice(<<>>)
        BY DEF NoneTwice
      <4>3. \A v \in Writers : NoneTwice(sweep'[v])
        BY <3>1, <4>1, <4>2 DEF Release, ColdInvariant
      <4>4. NoneTwice(cold')
        BY <4>1 DEF ColdInvariant
      <4> QED BY <4>3, <4>4 DEF ColdInvariant, NoneTwice
    <3>2. CASE \E i \in Items : ChangeItem(w, i) \/ FinishItem(w, i)
      BY <2>1, <3>2 DEF ChangeItem, FinishItem, Recording, files, local
    <3>3. CASE \E a \in Agents : DirectOwner(w, a)
      BY <2>1, <3>3 DEF DirectOwner, Recording, files, local
    <3>4. CASE \E q \in Requests : Cancel(w, q)
      BY <2>1, <3>4 DEF Cancel, files
    <3>5. CASE Abort(w)
      BY <3>1, <3>5 DEF Abort
    <3>6. CASE EndBody(w) /\ ~Release(w)
      BY <2>1, <3>6 DEF EndBody, files, local
    <3>7. CASE EndBody(w) /\ Release(w)
      BY <3>1, <3>7 DEF EndBody
    <3> QED BY <2>5, <3>2, <3>3, <3>4, <3>5, <3>6, <3>7 DEF Body
  <2>6. ASSUME NEW w \in Writers, Persisting(w) \/ Crashing(w) PROVE ColdInvariant'
    BY <2>6, ColdStep
  <2> QED BY <2>2, <2>3, <2>4, <2>5, <2>6 DEF Next
<1>3. ColdInvariant => ColdOnce
  BY DEF ColdInvariant, NoneTwice, ColdOnce
<1> QED BY <1>1, <1>2, <1>3, TypeInvariantHolds, PTL DEF Spec

(***************************************************************************)
(* The backups.                                                            *)
(*                                                                         *)
(* However the board's files are lost, the newest complete backup is less  *)
(* than BackupEvery events behind.  A process that dies between the log    *)
(* and the state of a backup leaves an incomplete directory, which counts  *)
(* among the ones that are kept: the directories that complete a backup    *)
(* are never all pruned as long as fewer processes die so than are kept.   *)
(***************************************************************************)
NearPeak(s) == Len(peak) - Len(s.hist) < BackupEvery

\* A complete backup is as new as the one the board last made.
Anchored(s) == s.backupAt <= 1 \/ \E b \in Usable : s.backupAt <= b

\* The directories being written, and those left without a state.
Underway == {NextEvent(mem[w]) : w \in {v \in Writers : pc[v] = "snapstate"}}
Incomplete == {b \in DOMAIN backups : backups[b].state = Absent} \ Underway
FewIncomplete == Cardinality(Incomplete) <= crashes /\ crashes <= MaxCrashes

BackupsNamed ==
    \A b \in DOMAIN backups :
        /\ b # 0 /\ backups[b].log # <<>>
        /\ b \in Usable => /\ Len(backups[b].state.hist) + 1 = b
                           /\ backups[b].state.backupAt <= b
PeakSaved == Len(peak) < BackupEvery \/ \E b \in Usable : Len(peak) + 1 - b < BackupEvery

LoggedAtAll(s) == s.exported # 0 => log # <<>>
StoredSaved == Readable => NearPeak(stateFile) /\ Anchored(stateFile) /\ LoggedAtAll(stateFile)

\* What a process at this label knows of the board it holds.
SavedAt(label, s) ==
    /\ label \in Restoring \cup Holding => NearPeak(s)
    /\ label \in (Restoring \cup Holding) \ {"snapstate"} => Anchored(s)
    /\ label = "snapstate" => s.backupAt = NextEvent(s)
    /\ label \in {"prune", "commit"} => NextEvent(s) - s.backupAt < BackupEvery
    /\ label \in Holding \cup {"restorestate"} => LoggedAtAll(s)
    /\ label \in {"archive", "snapshot"} => s.exported = Len(s.hist)
HeldSaved == \A w \in Writers : SavedAt(pc[w], mem[w])

BackupInvariant == BackupsNamed /\ FewIncomplete /\ PeakSaved /\ StoredSaved /\ HeldSaved

LEMMA BoardFields ==
    ASSUME NEW s \in BoardState
    PROVE  /\ Len(s.hist) \in Nat /\ NextEvent(s) \in Nat /\ NextEvent(s) = Len(s.hist) + 1
           /\ s.exported \in Nat /\ s.backupAt \in Nat
<1>1. s.hist \in Seq(Nat) /\ s.exported \in Nat /\ s.backupAt \in Nat
  BY DEF BoardState
<1> QED BY <1>1, LenProperties DEF NextEvent

LEMMA DirectoriesFinite ==
    ASSUME BackupType, BackupsBounded
    PROVE  IsFiniteSet(DOMAIN backups)
<1>1. PICK c \in Nat : \A n \in DOMAIN backups : n <= c
  BY DEF BackupsBounded
<1>2. DOMAIN backups \subseteq Nat
  BY DEF BackupType
<1>3. DOMAIN backups \subseteq 0..c
  BY <1>1, <1>2
<1>4. IsFiniteSet(0..c)
  BY FS_Interval
<1> QED BY <1>3, <1>4, FS_Subset

\* Incomplete directories do not become more, or one more for one more death.
LEMMA IncompleteStep ==
    ASSUME BackupType, BackupsBounded, GhostType, FewIncomplete, NEW n,
           \/ Incomplete' \subseteq Incomplete /\ crashes' = crashes
           \/ Incomplete' \subseteq Incomplete \cup {n} /\ crashes < MaxCrashes /\ crashes' = crashes + 1
    PROVE  FewIncomplete'
<1>1. IsFiniteSet(Incomplete)
  BY DirectoriesFinite, FS_Subset DEF Incomplete
<1>2. /\ Cardinality(Incomplete) \in Nat /\ Cardinality(Incomplete) <= crashes
      /\ crashes \in Nat /\ MaxCrashes \in Nat /\ crashes <= MaxCrashes
  BY <1>1, FS_CardinalityType, BoardStoreAssumption DEF FewIncomplete, GhostType
<1>3. CASE Incomplete' \subseteq Incomplete /\ crashes' = crashes
  <2>1. Cardinality(Incomplete') \in Nat /\ Cardinality(Incomplete') <= Cardinality(Incomplete)
    BY <1>1, <1>3, FS_Subset, FS_CardinalityType
  <2> QED BY <1>2, <1>3, <2>1 DEF FewIncomplete
<1>4. CASE Incomplete' \subseteq Incomplete \cup {n} /\ crashes < MaxCrashes /\ crashes' = crashes + 1
  <2>1. /\ IsFiniteSet(Incomplete \cup {n})
        /\ Cardinality(Incomplete \cup {n}) \in Nat
        /\ Cardinality(Incomplete \cup {n}) <= Cardinality(Incomplete) + 1
    BY <1>1, <1>2, FS_AddElement, FS_CardinalityType
  <2>2. /\ Cardinality(Incomplete') \in Nat
        /\ Cardinality(Incomplete') <= Cardinality(Incomplete \cup {n})
    BY <1>4, <2>1, FS_Subset, FS_CardinalityType
  <2> QED BY <1>2, <1>4, <2>1, <2>2 DEF FewIncomplete
<1> QED BY <1>3, <1>4

\* The others are outside the lock: HeldSaved is about the holder.
LEMMA HeldStep ==
    ASSUME LockType, NEW w \in Writers, pc[w] \notin Outside,
           \A v \in Writers \ {w} : pc'[v] = pc[v], SavedAt(pc[w], mem[w])'
    PROVE  HeldSaved'
<1> SUFFICES ASSUME NEW v \in Writers \ {w} PROVE SavedAt(pc[v], mem[v])'
  BY DEF HeldSaved
<1>1. pc'[v] \in Outside
  BY DEF LockType
<1> QED BY <1>1 DEF SavedAt, Outside, Restoring, Holding, Writing

\* A step of the holder that writes no backup and commits nothing.
LEMMA HolderSaved ==
    ASSUME TypeInvariant, BackupInvariant, NEW w \in Writers,
           pc[w] \notin Outside \cup {"snapstate"}, pc'[w] # "snapstate",
           \A v \in Writers \ {w} : pc'[v] = pc[v],
           UNCHANGED <<backups, peak, crashes>>, StoredSaved', SavedAt(pc[w], mem[w])'
    PROVE  BackupInvariant'
<1> USE DEF TypeInvariant, TypeOK
<1>1. \A v \in Writers : pc[v] # "snapstate" /\ pc'[v] # "snapstate"
  BY DEF LockType, Outside
<1>2. Underway = {} /\ Underway' = {}
  BY <1>1 DEF Underway
<1>3. FewIncomplete'
  BY <1>2 DEF BackupInvariant, FewIncomplete, Incomplete
<1>4. BackupsNamed' /\ PeakSaved'
  BY DEF BackupInvariant, BackupsNamed, PeakSaved, Usable
<1>5. HeldSaved'
  BY HeldStep
<1> QED BY <1>3, <1>4, <1>5 DEF BackupInvariant

\* A process that enters or leaves, or writes outside the lock.
LEMMA OutsideSaved ==
    ASSUME TypeInvariant, TypeInvariant', BackupInvariant, NEW w \in Writers,
           UNCHANGED <<stateFile, backups, peak>>, pc'[w] \in Outside \cup {"load"},
           log # <<>> => log' # <<>>,
           \A v \in Writers \ {w} : pc'[v] = pc[v] /\ mem'[v] = mem[v],
           \/ pc[w] # "snapstate" /\ crashes' = crashes
           \/ crashes < MaxCrashes /\ crashes' = crashes + 1
    PROVE  BackupInvariant'
<1> USE DEF TypeInvariant, TypeOK
<1>1. Underway \subseteq Underway' \cup {NextEvent(mem[w])}
  BY DEF Underway, Outside, NextEvent
<1>2. pc[w] # "snapstate" => Underway \subseteq Underway'
  BY DEF Underway, Outside, NextEvent
<1>3. FewIncomplete'
  <2>1. CASE pc[w] # "snapstate" /\ crashes' = crashes
    BY <1>2, <2>1, IncompleteStep DEF BackupInvariant, Incomplete
  <2>2. CASE crashes < MaxCrashes /\ crashes' = crashes + 1
    BY <1>1, <2>2, IncompleteStep DEF BackupInvariant, Incomplete
  <2> QED BY <2>1, <2>2
<1>4. BackupsNamed' /\ PeakSaved' /\ StoredSaved'
  BY DEF BackupInvariant, BackupsNamed, PeakSaved, StoredSaved, Readable, NearPeak, Anchored,
         LoggedAtAll, Usable
<1>5. ASSUME NEW v \in Writers PROVE SavedAt(pc[v], mem[v])'
  <2>1. CASE v = w
    BY <2>1 DEF SavedAt, Outside, Restoring, Holding, Writing
  <2>2. CASE v # w
    <3>1. SavedAt(pc[v], mem[v]) /\ pc'[v] = pc[v] /\ mem'[v] = mem[v]
      BY <2>2 DEF BackupInvariant, HeldSaved
    <3> QED BY <3>1 DEF SavedAt, NearPeak, Anchored, LoggedAtAll, NextEvent, Usable
  <2> QED BY <2>1, <2>2
<1> QED BY <1>3, <1>4, <1>5 DEF BackupInvariant, HeldSaved

\* What is stored keeps its promise while it is only appended to.
LEMMA StoredSame ==
    ASSUME StoredSaved, UNCHANGED <<stateFile, backups, peak>>, log # <<>> => log' # <<>>
    PROVE  StoredSaved'
BY DEF StoredSaved, Readable, NearPeak, Anchored, LoggedAtAll, Usable

\* The newest complete backup is near the peak, and the base of the next one.
LEMMA NewestSaved ==
    ASSUME TypeInvariant, BackupInvariant, Usable # {}
    PROVE  /\ NearPeak(backups[NewestUsable].state) /\ Anchored(backups[NewestUsable].state)
           /\ backups[NewestUsable].log # <<>>
<1> USE DEF TypeInvariant, TypeOK
<1>1. PICK n : n = NewestUsable
  OBVIOUS
<1>2. n \in Usable /\ \A b \in Usable : b <= n
  BY <1>1, NewestUsableType
<1>3. PICK s : s = backups[n].state
  OBVIOUS
<1>4. /\ Len(s.hist) + 1 = n /\ s.backupAt <= n /\ backups[n].log # <<>>
  BY <1>2, <1>3 DEF BackupInvariant, BackupsNamed, Usable
<1>5. s \in BoardState
  BY <1>2, <1>3 DEF BackupType, Usable
<1>6. Usable \subseteq Nat /\ Len(peak) \in Nat /\ Len(s.hist) \in Nat /\ BackupEvery \in Nat
  BY <1>5, BoardFields, BoardStoreAssumption, LenProperties DEF BackupType, Usable, GhostType
<1>7. NearPeak(s)
  BY <1>2, <1>4, <1>6 DEF BackupInvariant, PeakSaved, NearPeak
<1>8. Anchored(s)
  BY <1>2, <1>4 DEF Anchored
<1> QED BY <1>1, <1>3, <1>4, <1>7, <1>8

LEMMA LoadingSaved ==
    ASSUME TypeInvariant, TypeInvariant', BackupInvariant, NEW w \in Writers, Loading(w)
    PROVE  BackupInvariant'
<1> USE DEF TypeInvariant, TypeOK
<1>0. StoredSaved /\ SavedAt(pc[w], mem[w]) /\ PeakSaved
  BY DEF BackupInvariant, HeldSaved
<1>1. CASE Acquire(w)
  <2>1. /\ pc[w] = "idle" /\ pc'[w] = "load"
        /\ \A v \in Writers \ {w} : pc'[v] = pc[v] /\ mem'[v] = mem[v]
    BY <1>1 DEF Acquire, At, Goto, LockType
  <2>2. UNCHANGED <<stateFile, backups, peak, log, crashes>>
    BY <1>1 DEF Acquire, files, ghosts, bounds
  <2> QED BY <2>1, <2>2, OutsideSaved
<1>2. CASE LoadState(w)
  <2>1. /\ pc[w] = "load" /\ pc'[w] = "edit" /\ mem'[w] = stateFile /\ Readable
        /\ \A v \in Writers \ {w} : pc'[v] = pc[v]
    BY <1>2 DEF LoadState, At, Goto, Hold, LockType, ProcessType, Readable
  <2>2. UNCHANGED <<stateFile, backups, peak, log, crashes>>
    BY <1>2 DEF LoadState, files, ghosts, bounds
  <2>3. NearPeak(stateFile) /\ Anchored(stateFile) /\ LoggedAtAll(stateFile)
    BY <1>0, <2>1 DEF StoredSaved
  <2>4. SavedAt(pc[w], mem[w])'
    BY <2>1, <2>2, <2>3 DEF SavedAt, NearPeak, Anchored, LoggedAtAll, Usable
  <2> QED BY <1>0, <2>1, <2>2, <2>4, StoredSame, HolderSaved DEF Outside
<1>3. CASE LoadBackup(w)
  <2>1. PICK s : s = backups[NewestUsable].state
    OBVIOUS
  <2>2. /\ pc[w] = "load" /\ pc'[w] = "restore" /\ mem'[w] = s /\ Usable # {}
        /\ \A v \in Writers \ {w} : pc'[v] = pc[v]
    BY <1>3, <2>1 DEF LoadBackup, At, Goto, Hold, LockType, ProcessType
  <2>3. UNCHANGED <<stateFile, backups, peak, log, crashes>>
    BY <1>3 DEF LoadBackup, files, ghosts, bounds
  <2>4. NearPeak(s) /\ Anchored(s)
    BY <2>1, <2>2, NewestSaved
  <2>5. SavedAt(pc[w], mem[w])'
    BY <2>2, <2>3, <2>4 DEF SavedAt, NearPeak, Anchored, Usable, Holding, Writing
  <2> QED BY <1>0, <2>2, <2>3, <2>5, StoredSame, HolderSaved DEF Outside
<1>4. CASE RestoreLog(w)
  <2>1. /\ pc[w] = "restore" /\ pc'[w] = "restorestate" /\ mem'[w] = mem[w]
        /\ \A v \in Writers \ {w} : pc'[v] = pc[v]
    BY <1>4 DEF RestoreLog, At, Goto, LockType
  <2>2. UNCHANGED <<stateFile, backups, peak, crashes>>
    BY <1>4 DEF RestoreLog, ghosts, bounds
  <2>3. Usable # {}
    BY <2>1 DEF StepReady
  <2>4. log' # <<>>
    BY <1>4, <2>3, NewestSaved DEF RestoreLog
  <2>5. NearPeak(mem[w]) /\ Anchored(mem[w])
    BY <1>0, <2>1 DEF SavedAt, Restoring
  <2>6. SavedAt(pc[w], mem[w])'
    BY <2>1, <2>2, <2>4, <2>5 DEF SavedAt, NearPeak, Anchored, LoggedAtAll, Usable, Holding, Writing
  <2> QED BY <1>0, <2>1, <2>2, <2>4, <2>6, StoredSame, HolderSaved DEF Outside
<1>5. CASE RestoreState(w)
  <2>1. /\ pc[w] = "restorestate" /\ pc'[w] = "edit" /\ mem'[w] = mem[w]
        /\ \A v \in Writers \ {w} : pc'[v] = pc[v]
    BY <1>5 DEF RestoreState, At, Goto, LockType
  <2>2. UNCHANGED <<backups, peak, crashes, log>>
    BY <1>5 DEF RestoreState, ghosts, bounds
  <2>3. NearPeak(mem[w]) /\ Anchored(mem[w]) /\ LoggedAtAll(mem[w])
    BY <1>0, <2>1 DEF SavedAt, Restoring
  <2>4. SavedAt(pc[w], mem[w])'
    BY <2>1, <2>2, <2>3 DEF SavedAt, NearPeak, Anchored, LoggedAtAll, Usable
  <2>5. CASE stateFile # Absent
    <3>1. stateFile' = stateFile
      BY <1>5, <2>5 DEF RestoreState
    <3> QED BY <1>0, <2>1, <2>2, <2>4, <3>1, StoredSame, HolderSaved DEF Outside
  <2>6. CASE stateFile = Absent
    <3>1. stateFile' = mem[w]
      BY <1>5, <2>6 DEF RestoreState
    <3>2. StoredSaved'
      BY <2>2, <2>3, <3>1 DEF StoredSaved, NearPeak, Anchored, LoggedAtAll, Usable
    <3> QED BY <2>1, <2>2, <2>4, <3>2, HolderSaved DEF Outside
  <2> QED BY <2>5, <2>6
<1>6. CASE LoadLog(w)
  <2>1. PICK s : s = [InitialState EXCEPT !.hist = [n \in 1..LastSequence |-> 0],
                                          !.exported = LastSequence]
    OBVIOUS
  <2>2. /\ pc[w] = "load" /\ pc'[w] = "edit" /\ mem'[w] = s /\ Usable = {} /\ log # <<>>
        /\ \A v \in Writers \ {w} : pc'[v] = pc[v]
    BY <1>6, <2>1 DEF LoadLog, At, Goto, Hold, LockType, ProcessType
  <2>3. UNCHANGED <<stateFile, backups, peak, log, crashes>>
    BY <1>6 DEF LoadLog, files, ghosts, bounds
  <2>4. s.backupAt = 0 /\ s.hist = [n \in 1..LastSequence |-> 0]
    BY <2>1 DEF InitialState
  <2>5. Len(s.hist) \in Nat
    <3>1. LastSequence \in Nat
      BY LastSequenceType DEF FileType
    <3> QED BY <2>4, <3>1, ZerosType
  <2>6. Len(peak) < BackupEvery /\ Len(peak) \in Nat /\ BackupEvery \in Nat
    BY <1>0, <2>2, LenProperties, BoardStoreAssumption DEF PeakSaved, GhostType
  <2>7. NearPeak(s) /\ Anchored(s) /\ LoggedAtAll(s)
    <3>1. NearPeak(s)
      BY <2>5, <2>6 DEF NearPeak
    <3>2. Anchored(s)
      BY <2>4 DEF Anchored
    <3> QED BY <2>2, <3>1, <3>2 DEF LoggedAtAll
  <2>8. SavedAt(pc[w], mem[w])'
    BY <2>2, <2>3, <2>7 DEF SavedAt, NearPeak, Anchored, LoggedAtAll, Usable
  <2> QED BY <1>0, <2>2, <2>3, <2>8, StoredSame, HolderSaved DEF Outside
<1>7. CASE LoadNothing(w)
  <2>1. PICK s : s = InitialState
    OBVIOUS
  <2>2. /\ pc[w] = "load" /\ pc'[w] = "edit" /\ mem'[w] = s /\ Usable = {}
        /\ \A v \in Writers \ {w} : pc'[v] = pc[v]
    BY <1>7, <2>1 DEF LoadNothing, At, Goto, Hold, LockType, ProcessType
  <2>3. UNCHANGED <<stateFile, backups, peak, log, crashes>>
    BY <1>7 DEF LoadNothing, files, ghosts, bounds
  <2>4. s.backupAt = 0 /\ s.hist = <<>> /\ s.exported = 0
    BY <2>1 DEF InitialState
  <2>5. Len(s.hist) = 0
    BY <2>4, EmptySeq
  <2>6. Len(peak) < BackupEvery /\ Len(peak) \in Nat /\ BackupEvery \in Nat
    BY <1>0, <2>2, LenProperties, BoardStoreAssumption DEF PeakSaved, GhostType
  <2>7. NearPeak(s) /\ Anchored(s) /\ LoggedAtAll(s)
    <3>1. NearPeak(s)
      BY <2>5, <2>6 DEF NearPeak
    <3> QED BY <2>4, <3>1 DEF Anchored, LoggedAtAll
  <2>8. SavedAt(pc[w], mem[w])'
    BY <2>2, <2>3, <2>7 DEF SavedAt, NearPeak, Anchored, LoggedAtAll, Usable
  <2> QED BY <1>0, <2>2, <2>3, <2>8, StoredSame, HolderSaved DEF Outside
<1> QED BY <1>1, <1>2, <1>3, <1>4, <1>5, <1>6, <1>7 DEF Loading

\* The body of a transaction only lengthens the history.
LEMMA EditSaved ==
    ASSUME TypeInvariant, BackupInvariant, NEW w \in Writers, pc[w] = "edit",
           pc'[w] \in Writing, \A v \in Writers \ {w} : pc'[v] = pc[v],
           UNCHANGED <<stateFile, log, backups, peak, crashes>>, mem'[w] \in BoardState,
           Len(mem[w].hist) <= Len(mem'[w].hist),
           mem'[w].exported = mem[w].exported, mem'[w].backupAt = mem[w].backupAt
    PROVE  BackupInvariant'
<1> USE DEF TypeInvariant, TypeOK
<1>1. StoredSaved /\ SavedAt("edit", mem[w])
  BY DEF BackupInvariant, HeldSaved
<1>2. /\ Len(peak) \in Nat /\ BackupEvery \in Nat
      /\ Len(mem[w].hist) \in Nat /\ Len(mem'[w].hist) \in Nat
  BY BoardFields, BoardStoreAssumption, LenProperties DEF ProcessType, GhostType
<1>3. NearPeak(mem[w]) /\ Anchored(mem[w]) /\ LoggedAtAll(mem[w])
  BY <1>1 DEF SavedAt, Holding, Writing
<1>4. NearPeak(mem[w])'
  BY <1>2, <1>3 DEF NearPeak
<1>5. Anchored(mem[w])' /\ LoggedAtAll(mem[w])'
  BY <1>3 DEF Anchored, LoggedAtAll, Usable
<1>6. SavedAt(pc[w], mem[w])'
  BY <1>4, <1>5 DEF SavedAt, Writing
<1> QED BY <1>1, <1>6, StoredSame, HolderSaved DEF Outside, Writing

LEMMA RecordingSaved ==
    ASSUME TypeInvariant, TypeInvariant', BackupInvariant, NEW w \in Writers, NEW s,
           pc[w] = "edit", UNCHANGED <<pc, files, peak, crashes>>, Hold(w, s),
           s.hist = Recorded(w).hist, s.exported = mem[w].exported,
           s.backupAt = mem[w].backupAt
    PROVE  BackupInvariant'
<1> USE DEF TypeInvariant, TypeOK
<1>1. mem'[w] = s /\ mem'[w] \in BoardState /\ mem[w] \in BoardState /\ stamps + 1 \in Nat
  BY RecordedType DEF Hold, ProcessType
<1>2. mem'[w].hist = Append(mem[w].hist, stamps + 1) /\ mem[w].hist \in Seq(Nat)
  BY <1>1 DEF Recorded, BoardState
<1>3. Len(mem[w].hist) <= Len(mem'[w].hist)
  BY <1>1, <1>2, AppendProperties, LenProperties
<1> QED BY <1>1, <1>3, EditSaved DEF Writing, files

LEMMA BodySaved ==
    ASSUME TypeInvariant, TypeInvariant', BackupInvariant, NEW w \in Writers, Body(w)
    PROVE  BackupInvariant'
<1> USE DEF TypeInvariant, TypeOK
<1>0. mem[w] \in BoardState /\ Recorded(w) \in BoardState
  BY RecordedType
<1>1. ASSUME NEW i \in Items, ChangeItem(w, i) PROVE BackupInvariant'
  <2>1. PICK s : s = [Recorded(w) EXCEPT !.hot[i] = stamps + 1]
    OBVIOUS
  <2>2. s.hist = Recorded(w).hist /\ s.exported = mem[w].exported /\ s.backupAt = mem[w].backupAt
    BY <1>0, <2>1 DEF Recorded, BoardState
  <2> QED BY <1>1, <2>1, <2>2, RecordingSaved DEF ChangeItem, CanRecord, At, Recording, ghosts
<1>2. ASSUME NEW i \in Items, FinishItem(w, i) PROVE BackupInvariant'
  <2>1. PICK s : s = [Recorded(w) EXCEPT !.hot[i] = stamps + 1, !.done = @ \cup {i}]
    OBVIOUS
  <2>2. s.hist = Recorded(w).hist /\ s.exported = mem[w].exported /\ s.backupAt = mem[w].backupAt
    BY <1>0, <2>1 DEF Recorded, BoardState
  <2> QED BY <1>2, <2>1, <2>2, RecordingSaved DEF FinishItem, CanRecord, At, Recording, ghosts
<1>3. ASSUME NEW a \in Agents, DirectOwner(w, a) PROVE BackupInvariant'
  <2>1. PICK s : s = [Recorded(w) EXCEPT !.wanted =
                        IF a \in @ THEN @ \ {a} ELSE @ \cup {a}]
    OBVIOUS
  <2>2. s.hist = Recorded(w).hist /\ s.exported = mem[w].exported /\ s.backupAt = mem[w].backupAt
    BY <1>0, <2>1 DEF Recorded, BoardState
  <2> QED BY <1>3, <2>1, <2>2, RecordingSaved DEF DirectOwner, CanRecord, At, Recording, ghosts
<1>4. ASSUME NEW q \in Requests, Cancel(w, q) PROVE BackupInvariant'
  <2>1. PICK s : s = [Recorded(w) EXCEPT !.hot[q] = 0, !.cancelled = @ \cup {q}]
    OBVIOUS
  <2>2. s.hist = Recorded(w).hist /\ s.exported = mem[w].exported /\ s.backupAt = mem[w].backupAt
    BY <1>0, <2>1 DEF Recorded, BoardState
  <2> QED BY <1>4, <2>1, <2>2, RecordingSaved DEF Cancel, CanRecord, At, ghosts
<1>5. ASSUME Release(w), pc[w] = "edit", UNCHANGED <<files, ghosts, bounds>> PROVE BackupInvariant'
  <2>1. pc'[w] = "idle" /\ \A v \in Writers \ {w} : pc'[v] = pc[v] /\ mem'[v] = mem[v]
    BY <1>5 DEF Release, Hold, Goto, LockType, ProcessType
  <2> QED BY <1>5, <2>1, OutsideSaved DEF files, ghosts, bounds, Outside
<1>6. CASE Abort(w)
  BY <1>5, <1>6 DEF Abort, At
<1>7. CASE EndBody(w)
  <2>1. CASE mem[w] = stateFile
    BY <1>5, <1>7, <2>1 DEF EndBody, At
  <2>2. CASE mem[w] # stateFile
    <3>1. /\ pc[w] = "edit" /\ pc'[w] = "export" /\ mem' = mem
          /\ \A v \in Writers \ {w} : pc'[v] = pc[v]
      BY <1>7, <2>2 DEF EndBody, At, Goto, LockType
    <3>2. UNCHANGED <<stateFile, log, backups, peak, crashes>>
      BY <1>7 DEF EndBody, files, ghosts, bounds
    <3>3. Len(mem[w].hist) \in Nat
      BY <1>0, BoardFields
    <3> QED BY <1>0, <3>1, <3>2, <3>3, EditSaved DEF Writing
  <2> QED BY <2>1, <2>2
<1> QED BY <1>1, <1>2, <1>3, <1>4, <1>6, <1>7 DEF Body

\* A step of the holder that leaves the history it holds alone.
LEMMA MemorySaved ==
    ASSUME TypeInvariant, BackupInvariant, NEW w \in Writers,
           pc[w] \in Holding \ {"snapstate"}, pc'[w] \in {"export", "archive", "snapshot"},
           \A v \in Writers \ {w} : pc'[v] = pc[v],
           UNCHANGED <<stateFile, backups, peak, crashes>>, log # <<>> => log' # <<>>,
           mem'[w].hist = mem[w].hist, mem'[w].backupAt = mem[w].backupAt,
           mem'[w].exported = mem[w].exported \/ log' # <<>>,
           pc'[w] # "export" => mem'[w].exported = Len(mem'[w].hist)
    PROVE  BackupInvariant'
<1>1. StoredSaved /\ SavedAt(pc[w], mem[w])
  BY DEF BackupInvariant, HeldSaved
<1>2. NearPeak(mem[w]) /\ Anchored(mem[w]) /\ LoggedAtAll(mem[w])
  BY <1>1 DEF SavedAt
<1>3. NearPeak(mem[w])' /\ Anchored(mem[w])' /\ LoggedAtAll(mem[w])'
  BY <1>2 DEF NearPeak, Anchored, LoggedAtAll, Usable
<1>4. SavedAt(pc[w], mem[w])'
  BY <1>3 DEF SavedAt
<1> QED BY <1>1, <1>4, StoredSame, HolderSaved DEF Outside, Holding, Writing

LEMMA ExportSaved ==
    ASSUME TypeInvariant, BackupInvariant, NEW w \in Writers, ExportOne(w)
    PROVE  BackupInvariant'
<1> USE DEF TypeInvariant, TypeOK
<1> DEFINE n == mem[w].exported + 1
           line == EventLine(n, mem[w].hist[n])
<1>1. /\ mem[w] \in BoardState /\ mem' = [mem EXCEPT ![w] = [mem[w] EXCEPT !.exported = n]]
      /\ log' = AppendLine(log, line, HalfEvent, GarbledEvent)
  BY DEF ExportOne, Hold, ProcessType
<1>2. mem'[w].hist = mem[w].hist /\ mem'[w].backupAt = mem[w].backupAt
  BY <1>1 DEF ProcessType, BoardState
<1>3. log' # <<>>
  <2> HIDE DEF line
  <2>1. log \in Seq(Lines)
    BY DEF FileType
  <2>2. CASE log # <<>> /\ log[Len(log)] = HalfEvent
    <3>1. log' = [log EXCEPT ![Len(log)] = GarbledEvent]
      BY <1>1, <2>2 DEF AppendLine
    <3>2. DOMAIN log' = 1..Len(log) /\ Len(log) \in Nat /\ Len(log) # 0
      BY <2>1, <2>2, <3>1, LenProperties, EmptySeq
    <3>3. 1 \in DOMAIN log' /\ DOMAIN <<>> = {}
      BY <3>2
    <3> QED BY <3>3
  <2>3. CASE ~(log # <<>> /\ log[Len(log)] = HalfEvent)
    <3>1. log' = Append(log, line)
      BY <1>1, <2>3 DEF AppendLine
    <3>2. Append(log, line) # <<>>
      BY <2>1, AppendProperties, LenProperties
    <3> QED BY <3>1, <3>2
  <2> QED BY <2>2, <2>3
<1>4. /\ pc[w] = "export" /\ pc' = pc
      /\ UNCHANGED <<stateFile, backups, peak, crashes>>
  BY DEF ExportOne, At, ghosts, bounds
<1> QED BY <1>2, <1>3, <1>4, MemorySaved DEF Holding, Writing

LEMMA SkipSaved ==
    ASSUME TypeInvariant, BackupInvariant, NEW w \in Writers, SkipSnapshot(w)
    PROVE  BackupInvariant'
<1> USE DEF TypeInvariant, TypeOK
<1>1. PICK s : s = [mem[w] EXCEPT !.backupAt =
                        IF BackupDue(mem[w]) THEN NextEvent(mem[w]) ELSE @]
  OBVIOUS
<1>2. /\ pc[w] = "snapshot" /\ pc'[w] = "commit" /\ mem'[w] = s
      /\ \A v \in Writers \ {w} : pc'[v] = pc[v]
      /\ UNCHANGED <<stateFile, log, backups, peak, crashes>>
  BY <1>1 DEF SkipSnapshot, At, Goto, Hold, LockType, ProcessType, files, ghosts, bounds
<1>3. StoredSaved /\ SavedAt("snapshot", mem[w])
  BY <1>2 DEF BackupInvariant, HeldSaved
<1>4. /\ NearPeak(mem[w]) /\ Anchored(mem[w]) /\ LoggedAtAll(mem[w])
      /\ mem[w].exported = Len(mem[w].hist)
  BY <1>3 DEF SavedAt, Holding
<1>5. mem[w] \in BoardState /\ BackupEvery \in Nat \ {0}
  BY BoardStoreAssumption DEF ProcessType
<1>6. /\ s.hist = mem[w].hist /\ s.exported = mem[w].exported
      /\ s.backupAt = IF BackupDue(mem[w]) THEN NextEvent(mem[w]) ELSE mem[w].backupAt
  BY <1>1, <1>5 DEF BoardState
<1>7. NearPeak(s) /\ LoggedAtAll(s) /\ NextEvent(s) = NextEvent(mem[w])
  BY <1>4, <1>6 DEF NearPeak, LoggedAtAll, NextEvent
<1>8. Anchored(s) /\ NextEvent(mem[w]) - s.backupAt < BackupEvery
  <2>1. NextEvent(mem[w]) \in Nat /\ mem[w].backupAt \in Nat
    BY <1>5, BoardFields
  <2>2. CASE BackupDue(mem[w])
    <3>1. log = <<>>
      BY <2>2 DEF SkipSnapshot
    <3>2. Len(mem[w].hist) = 0
      BY <1>4, <3>1 DEF LoggedAtAll
    <3>3. s.backupAt = 1 /\ NextEvent(mem[w]) = 1
      BY <1>6, <2>2, <3>2 DEF NextEvent
    <3> QED BY <1>5, <3>3 DEF Anchored
  <2>3. CASE ~BackupDue(mem[w])
    <3>1. s.backupAt = mem[w].backupAt
      BY <1>6, <2>3
    <3>2. Anchored(s)
      BY <1>4, <3>1 DEF Anchored
    <3>3. NextEvent(mem[w]) - s.backupAt < BackupEvery
      BY <1>5, <2>1, <2>3, <3>1 DEF BackupDue
    <3> QED BY <3>2, <3>3
  <2> QED BY <2>2, <2>3
<1>9. SavedAt(pc[w], mem[w])'
  <2>1. NearPeak(mem[w])' /\ LoggedAtAll(mem[w])' /\ Anchored(mem[w])'
    BY <1>2, <1>7, <1>8 DEF NearPeak, LoggedAtAll, Anchored, Usable
  <2>2. NextEvent(mem'[w]) - mem'[w].backupAt < BackupEvery
    BY <1>2, <1>7, <1>8
  <2> QED BY <1>2, <2>1, <2>2 DEF SavedAt, NextEvent
<1> QED BY <1>2, <1>3, <1>9, StoredSame, HolderSaved DEF Outside

LEMMA SnapshotLogSaved ==
    ASSUME TypeInvariant, BackupInvariant, NEW w \in Writers, SnapshotLog(w)
    PROVE  BackupInvariant'
<1> USE DEF TypeInvariant, TypeOK
<1>1. PICK n : n = NextEvent(mem[w])
  OBVIOUS
<1>2. PICK s : s = [mem[w] EXCEPT !.backupAt = n]
  OBVIOUS
<1>3. /\ pc[w] = "snapshot" /\ pc'[w] = "snapstate" /\ mem'[w] = s /\ log # <<>>
      /\ \A v \in Writers \ {w} : pc'[v] = pc[v]
      /\ UNCHANGED <<stateFile, log, peak, crashes>>
  BY <1>1, <1>2 DEF SnapshotLog, At, Goto, Hold, LockType, ProcessType, ghosts, bounds
<1>4. StoredSaved /\ PeakSaved /\ SavedAt("snapshot", mem[w]) /\ FewIncomplete /\ BackupsNamed
  BY <1>3 DEF BackupInvariant, HeldSaved
<1>5. NearPeak(mem[w]) /\ mem[w] \in BoardState /\ n \in Nat \ {0}
  <2>1. NearPeak(mem[w])
    BY <1>4 DEF SavedAt, Holding
  <2>2. mem[w] \in BoardState
    BY DEF ProcessType
  <2>3. Len(mem[w].hist) \in Nat /\ n = Len(mem[w].hist) + 1
    BY <1>1, <2>2, BoardFields
  <2> QED BY <2>1, <2>2, <2>3
<1>6. s.hist = mem[w].hist /\ s.backupAt = n /\ NextEvent(s) = n
  BY <1>1, <1>2, <1>5 DEF BoardState, NextEvent
<1>7. /\ DOMAIN backups' = DOMAIN backups \cup {n} /\ backups'[n].log = log
      /\ backups'[n].state = IF n \in DOMAIN backups THEN backups[n].state ELSE Absent
      /\ \A b \in DOMAIN backups : /\ backups'[b].state = backups[b].state
                                   /\ b # n => backups'[b].log = backups[b].log
  BY <1>1 DEF SnapshotLog, WithBackup
<1>8. Usable' = Usable
  BY <1>7 DEF Usable
<1>9. BackupsNamed'
  BY <1>3, <1>4, <1>5, <1>7, <1>8 DEF BackupsNamed, Usable
<1>10. PeakSaved' /\ StoredSaved'
  BY <1>3, <1>4, <1>8 DEF PeakSaved, StoredSaved, Readable, NearPeak, Anchored, LoggedAtAll
<1>11. FewIncomplete'
  <2>1. n \in Underway'
    BY <1>3, <1>6 DEF Underway, NextEvent
  <2>2. \A v \in Writers : pc[v] # "snapstate"
    BY <1>3 DEF LockType, Outside
  <2>3. Underway = {}
    BY <2>2 DEF Underway
  <2>4. Incomplete' \subseteq Incomplete
    BY <1>7, <2>1, <2>3 DEF Incomplete
  <2> QED BY <1>3, <1>4, <2>4, IncompleteStep
<1>12. HeldSaved'
  <2>1. NearPeak(mem[w])' /\ LoggedAtAll(mem[w])' /\ mem'[w].backupAt = NextEvent(mem'[w])
    BY <1>3, <1>5, <1>6 DEF NearPeak, LoggedAtAll
  <2>2. SavedAt(pc[w], mem[w])'
    BY <1>3, <2>1 DEF SavedAt, NextEvent
  <2> QED BY <1>3, <2>2, HeldStep DEF Outside
<1> QED BY <1>9, <1>10, <1>11, <1>12 DEF BackupInvariant

LEMMA SnapshotStateSaved ==
    ASSUME TypeInvariant, BackupInvariant, NEW w \in Writers, SnapshotState(w)
    PROVE  BackupInvariant'
<1> USE DEF TypeInvariant, TypeOK
<1>1. PICK n : n = NextEvent(mem[w])
  OBVIOUS
<1>2. /\ pc[w] = "snapstate" /\ pc'[w] = "prune" /\ mem' = mem
      /\ \A v \in Writers \ {w} : pc'[v] = pc[v]
      /\ UNCHANGED <<stateFile, log, peak, crashes>>
  BY DEF SnapshotState, At, Goto, LockType, ghosts, bounds
<1>3. StoredSaved /\ PeakSaved /\ SavedAt("snapstate", mem[w]) /\ FewIncomplete /\ BackupsNamed
  BY <1>2 DEF BackupInvariant, HeldSaved
<1>4. NearPeak(mem[w]) /\ LoggedAtAll(mem[w]) /\ mem[w].backupAt = n
  BY <1>1, <1>3 DEF SavedAt, Holding
<1>5. /\ mem[w] \in BoardState /\ mem[w] # Absent /\ n \in Nat /\ n = Len(mem[w].hist) + 1
      /\ BackupEvery \in Nat \ {0} /\ n \in DOMAIN backups
  BY <1>1, <1>2, BoardFields, FileAssumption, BoardStoreAssumption DEF ProcessType, StepReady
<1>6. /\ DOMAIN backups' = DOMAIN backups /\ backups'[n].state = mem[w]
      /\ backups'[n].log = backups[n].log
      /\ \A b \in DOMAIN backups : b # n => backups'[b] = backups[b]
  BY <1>1, <1>5 DEF SnapshotState, WithBackup
<1>7. Usable' = Usable \cup {n}
  BY <1>5, <1>6 DEF Usable
<1>8. BackupsNamed'
  <2> SUFFICES ASSUME NEW b \in DOMAIN backups'
               PROVE  /\ b # 0 /\ backups'[b].log # <<>>
                      /\ b \in Usable' => /\ Len(backups'[b].state.hist) + 1 = b
                                          /\ backups'[b].state.backupAt <= b
    BY DEF BackupsNamed
  <2>1. b # 0 /\ backups'[b].log # <<>>
    BY <1>3, <1>6 DEF BackupsNamed
  <2>2. CASE b = n
    BY <1>4, <1>5, <1>6, <2>1, <2>2
  <2>3. CASE b # n
    <3>1. b \in Usable' => b \in Usable
      BY <1>7, <2>3
    <3> QED BY <1>3, <1>6, <2>1, <2>3, <3>1 DEF BackupsNamed
  <2> QED BY <2>2, <2>3
<1>9. PeakSaved' /\ StoredSaved'
  BY <1>2, <1>3, <1>7 DEF PeakSaved, StoredSaved, Readable, NearPeak, Anchored, LoggedAtAll
<1>10. FewIncomplete'
  <2>1. Underway \subseteq {n}
    <3>1. \A v \in Writers : pc[v] = "snapstate" => v = w
      BY <1>2 DEF LockType, Outside
    <3> QED BY <1>1, <3>1 DEF Underway
  <2>2. Incomplete' \subseteq Incomplete
    BY <1>5, <1>6, <2>1 DEF Incomplete
  <2> QED BY <1>2, <1>3, <2>2, IncompleteStep
<1>11. HeldSaved'
  <2>1. NearPeak(mem[w])' /\ LoggedAtAll(mem[w])'
    BY <1>2, <1>4 DEF NearPeak, LoggedAtAll
  <2>2. Anchored(mem[w])'
    <3>1. mem'[w].backupAt = n
      BY <1>2, <1>4
    <3>2. mem'[w].backupAt <= n /\ n \in Usable'
      BY <1>5, <1>7, <3>1
    <3> QED BY <3>2 DEF Anchored
  <2>3. n - mem'[w].backupAt < BackupEvery /\ NextEvent(mem'[w]) = n
    BY <1>1, <1>2, <1>4, <1>5
  <2>4. SavedAt(pc[w], mem[w])'
    BY <1>2, <2>1, <2>2, <2>3 DEF SavedAt, NextEvent
  <2> QED BY <1>2, <2>4, HeldStep DEF Outside
<1> QED BY <1>8, <1>9, <1>10, <1>11 DEF BackupInvariant

\* Pruning never removes the newest complete backup: the directories with a
\* higher name are incomplete, and fewer than are kept.
LEMMA PruneSaved ==
    ASSUME TypeInvariant, BackupInvariant, MaxCrashes < Keep, NEW w \in Writers, Prune(w)
    PROVE  BackupInvariant'
<1> USE DEF TypeInvariant, TypeOK
<1>1. /\ pc[w] = "prune" /\ pc'[w] = "commit" /\ mem' = mem
      /\ \A v \in Writers \ {w} : pc'[v] = pc[v]
      /\ backups' = Pruned(backups)
      /\ UNCHANGED <<stateFile, log, peak, crashes>>
  BY DEF Prune, At, Goto, LockType, ghosts, bounds
<1>2. StoredSaved /\ PeakSaved /\ SavedAt("prune", mem[w]) /\ FewIncomplete /\ BackupsNamed
  BY <1>1 DEF BackupInvariant, HeldSaved
<1>3. /\ NearPeak(mem[w]) /\ Anchored(mem[w]) /\ LoggedAtAll(mem[w])
      /\ NextEvent(mem[w]) - mem[w].backupAt < BackupEvery
  BY <1>2 DEF SavedAt, Holding
<1>4. Underway = {} /\ Underway' = {}
  <2>1. \A v \in Writers : pc[v] # "snapstate" /\ pc'[v] # "snapstate"
    BY <1>1 DEF LockType, Outside
  <2> QED BY <2>1 DEF Underway
<1>5. \A b \in DOMAIN backups' : b \in DOMAIN backups /\ backups'[b] = backups[b]
  BY <1>1, PrunedType
<1>6. FewIncomplete'
  <2>1. Incomplete' \subseteq Incomplete
    BY <1>4, <1>5 DEF Incomplete
  <2> QED BY <1>1, <1>2, <2>1, IncompleteStep
<1>7. Usable' \subseteq Usable /\ BackupsNamed'
  BY <1>2, <1>5 DEF Usable, BackupsNamed
<1>8. \A b \in Usable : \E m \in Usable' : b <= m
  <2> SUFFICES ASSUME Usable # {} PROVE \A b \in Usable : \E m \in Usable' : b <= m
    OBVIOUS
  <2>1. PICK m : m = NewestUsable
    OBVIOUS
  <2>2. m \in Usable /\ \A b \in Usable : b <= m
    BY <2>1, NewestUsableType
  <2>3. PICK above : above = {y \in DOMAIN backups : y > m}
    OBVIOUS
  <2>4. above \subseteq Incomplete
    <3>1. Usable \subseteq Nat /\ DOMAIN backups \subseteq Nat
      BY DEF BackupType, Usable
    <3>2. \A y \in above : y \in DOMAIN backups /\ y \notin Usable
      BY <2>2, <2>3, <3>1
    <3> QED BY <1>4, <3>2 DEF Usable, Incomplete
  <2>5. IsFiniteSet(Incomplete)
    BY DirectoriesFinite, FS_Subset DEF Incomplete
  <2>6. /\ Cardinality(above) \in Nat /\ Cardinality(Incomplete) \in Nat
        /\ Cardinality(above) <= Cardinality(Incomplete)
    BY <2>4, <2>5, FS_Subset, FS_CardinalityType
  <2>7. Cardinality(above) < Keep
    BY <1>2, <2>6, BoardStoreAssumption DEF FewIncomplete, GhostType
  <2>8. m \in DOMAIN backups'
    BY <1>1, <2>2, <2>3, <2>7 DEF Pruned, Usable
  <2>9. m \in Usable'
    BY <1>5, <2>2, <2>8 DEF Usable
  <2> QED BY <2>2, <2>9
<1>9. Usable \subseteq Nat /\ Len(peak) \in Nat /\ BackupEvery \in Nat
  BY BoardStoreAssumption, LenProperties DEF BackupType, Usable, GhostType
<1>10. PeakSaved'
  <2>1. CASE Len(peak) < BackupEvery
    BY <1>1, <2>1 DEF PeakSaved
  <2>2. CASE \E b \in Usable : Len(peak) + 1 - b < BackupEvery
    <3>1. PICK b \in Usable : Len(peak) + 1 - b < BackupEvery
      BY <2>2
    <3>2. PICK m \in Usable' : b <= m
      BY <1>8
    <3>3. Len(peak) + 1 - m < BackupEvery
      BY <1>7, <1>9, <3>1, <3>2
    <3> QED BY <1>1, <3>2, <3>3 DEF PeakSaved
  <2> QED BY <1>2, <2>1, <2>2 DEF PeakSaved
<1>11. ASSUME NEW s \in BoardState, Anchored(s) PROVE s.backupAt <= 1 \/ \E m \in Usable' : s.backupAt <= m
  <2>1. SUFFICES ASSUME NEW b \in Usable, s.backupAt <= b PROVE \E m \in Usable' : s.backupAt <= m
    BY <1>11 DEF Anchored
  <2>2. PICK m \in Usable' : b <= m
    BY <1>8
  <2>3. s.backupAt \in Nat
    BY BoardFields
  <2>4. s.backupAt <= m
    BY <1>7, <1>9, <2>1, <2>2, <2>3
  <2> QED BY <2>2, <2>4
<1>12. StoredSaved'
  <2> SUFFICES ASSUME Readable PROVE NearPeak(stateFile)' /\ Anchored(stateFile)' /\ LoggedAtAll(stateFile)'
    BY <1>1 DEF StoredSaved, Readable
  <2>1. NearPeak(stateFile) /\ Anchored(stateFile) /\ LoggedAtAll(stateFile) /\ stateFile \in BoardState
    BY <1>2 DEF StoredSaved, Readable, FileType
  <2>2. Anchored(stateFile)'
    BY <1>1, <1>11, <2>1 DEF Anchored
  <2> QED BY <1>1, <2>1, <2>2 DEF NearPeak, LoggedAtAll
<1>13. HeldSaved'
  <2>1. mem[w] \in BoardState
    BY DEF ProcessType
  <2>2. Anchored(mem[w])'
    BY <1>1, <1>3, <1>11, <2>1 DEF Anchored
  <2>3. NearPeak(mem[w])' /\ LoggedAtAll(mem[w])'
    BY <1>1, <1>3 DEF NearPeak, LoggedAtAll
  <2>4. SavedAt(pc[w], mem[w])'
    BY <1>1, <1>3, <2>2, <2>3 DEF SavedAt, NextEvent
  <2> QED BY <1>1, <2>4, HeldStep DEF Outside
<1> QED BY <1>6, <1>7, <1>10, <1>12, <1>13 DEF BackupInvariant

\* The committed board is at most BackupEvery events past its last backup.
LEMMA CommitSaved ==
    ASSUME TypeInvariant, BackupInvariant, NEW w \in Writers, Commit(w)
    PROVE  BackupInvariant'
<1> USE DEF TypeInvariant, TypeOK
<1>1. PICK s : s = mem[w]
  OBVIOUS
<1>2. /\ pc[w] = "commit" /\ pc'[w] \in {"idle", "sweepread"}
      /\ \A v \in Writers \ {w} : pc'[v] = pc[v]
      /\ stateFile' = s /\ UNCHANGED <<log, backups, crashes>>
      /\ peak' = IF Len(s.hist) > Len(peak) THEN s.hist ELSE peak
  BY <1>1 DEF Commit, At, Goto, LockType, bounds
<1>3. PeakSaved /\ SavedAt("commit", mem[w]) /\ FewIncomplete /\ BackupsNamed
  BY <1>2 DEF BackupInvariant, HeldSaved
<1>4. /\ NearPeak(s) /\ Anchored(s) /\ LoggedAtAll(s)
      /\ NextEvent(s) - s.backupAt < BackupEvery
  BY <1>1, <1>3 DEF SavedAt, Holding
<1>5. /\ s \in BoardState /\ BackupEvery \in Nat \ {0} /\ Usable \subseteq Nat
      /\ Len(peak) \in Nat /\ Len(s.hist) \in Nat /\ s.backupAt \in Nat
      /\ NextEvent(s) = Len(s.hist) + 1
  <2>1. s \in BoardState
    BY <1>1 DEF ProcessType
  <2> QED BY <2>1, BoardFields, BoardStoreAssumption, LenProperties DEF BackupType, Usable, GhostType
<1>6. Usable' = Usable /\ BackupsNamed'
  BY <1>2, <1>3 DEF Usable, BackupsNamed
<1>7. FewIncomplete'
  <2>1. \A v \in Writers : pc[v] # "snapstate" /\ pc'[v] # "snapstate"
    BY <1>2 DEF LockType, Outside
  <2>2. Underway = {} /\ Underway' = {}
    BY <2>1 DEF Underway
  <2> QED BY <1>2, <1>3, <2>2 DEF FewIncomplete, Incomplete
<1>8. PeakSaved' /\ Len(peak') - Len(s.hist) < BackupEvery
  <2>1. CASE ~(Len(s.hist) > Len(peak))
    <3>1. peak' = peak
      BY <1>2, <2>1
    <3> QED BY <1>3, <1>4, <1>6, <3>1 DEF PeakSaved, NearPeak
  <2>2. CASE Len(s.hist) > Len(peak)
    <3>1. Len(peak') = Len(s.hist)
      BY <1>2, <2>2
    <3>2. CASE s.backupAt <= 1
      <4>1. Len(peak') < BackupEvery
        BY <1>4, <1>5, <3>1, <3>2
      <4> QED BY <1>5, <3>1, <4>1 DEF PeakSaved
    <3>3. CASE \E b \in Usable : s.backupAt <= b
      <4>1. PICK b \in Usable : s.backupAt <= b
        BY <3>3
      <4>2. Len(peak') + 1 - b < BackupEvery
        BY <1>4, <1>5, <3>1, <4>1
      <4>3. PeakSaved'
        BY <1>6, <4>2 DEF PeakSaved
      <4>4. Len(peak') - Len(s.hist) < BackupEvery
        BY <1>5, <3>1
      <4> QED BY <4>3, <4>4
    <3> QED BY <1>4, <3>2, <3>3 DEF Anchored
  <2> QED BY <2>1, <2>2
<1>9. StoredSaved'
  BY <1>2, <1>4, <1>6, <1>8 DEF StoredSaved, NearPeak, Anchored, LoggedAtAll
<1>10. HeldSaved'
  <2>1. SavedAt(pc[w], mem[w])'
    BY <1>2 DEF SavedAt, Restoring, Holding, Writing
  <2> QED BY <1>2, <2>1, HeldStep DEF Outside
<1> QED BY <1>6, <1>7, <1>8, <1>9, <1>10 DEF BackupInvariant

LEMMA PersistingSaved ==
    ASSUME TypeInvariant, TypeInvariant', BackupInvariant, MaxCrashes < Keep,
           NEW w \in Writers, Persisting(w)
    PROVE  BackupInvariant'
<1> USE DEF TypeInvariant, TypeOK
<1>0. mem[w] \in BoardState
  BY DEF ProcessType
<1>1. CASE ReturnAgents(w)
  <2>1. /\ pc[w] = "export" /\ pc'[w] = "archive" /\ \A v \in Writers \ {w} : pc'[v] = pc[v]
        /\ UNCHANGED <<stateFile, log, backups, peak, crashes>>
        /\ mem[w].exported = Len(mem[w].hist)
    BY <1>1 DEF ReturnAgents, At, Goto, LockType, files, ghosts, bounds
  <2>2. /\ mem'[w].hist = mem[w].hist /\ mem'[w].backupAt = mem[w].backupAt
        /\ mem'[w].exported = mem[w].exported
    BY <1>0, <1>1 DEF ReturnAgents, Hold, ProcessType, BoardState
  <2> QED BY <2>1, <2>2, MemorySaved DEF Holding, Writing
<1>2. ASSUME NEW i \in Items, Archive(w, i) PROVE BackupInvariant'
  <2>1. /\ pc[w] = "archive" /\ pc' = pc
        /\ UNCHANGED <<stateFile, log, backups, peak, crashes>>
    BY <1>2 DEF Archive, At, ghosts, bounds
  <2>2. /\ mem'[w].hist = mem[w].hist /\ mem'[w].backupAt = mem[w].backupAt
        /\ mem'[w].exported = mem[w].exported
    BY <1>0, <1>2 DEF Archive, Archived, Hold, ProcessType, BoardState
  <2>3. mem[w].exported = Len(mem[w].hist)
    BY <2>1 DEF BackupInvariant, HeldSaved, SavedAt
  <2> QED BY <2>1, <2>2, <2>3, MemorySaved DEF Holding, Writing
<1>3. CASE EndArchive(w)
  <2>1. /\ pc[w] = "archive" /\ pc'[w] = "snapshot" /\ mem' = mem
        /\ \A v \in Writers \ {w} : pc'[v] = pc[v]
        /\ UNCHANGED <<stateFile, log, backups, peak, crashes>>
    BY <1>3 DEF EndArchive, At, Goto, LockType, files, ghosts, bounds
  <2>2. mem[w].exported = Len(mem[w].hist)
    BY <2>1 DEF BackupInvariant, HeldSaved, SavedAt
  <2> QED BY <2>1, <2>2, MemorySaved DEF Holding, Writing
<1>4. CASE SweepRead(w)
  <2>1. /\ pc[w] = "sweepread" /\ pc'[w] = "sweepwrite" /\ mem' = mem
        /\ \A v \in Writers \ {w} : pc'[v] = pc[v]
        /\ UNCHANGED <<stateFile, log, backups, peak, crashes>>
    BY <1>4 DEF SweepRead, At, Goto, LockType, files, ghosts, bounds
  <2> QED BY <2>1, OutsideSaved DEF Outside
<1>5. CASE SweepWrite(w)
  <2>1. /\ pc[w] = "sweepwrite" /\ pc'[w] = "idle"
        /\ \A v \in Writers \ {w} : pc'[v] = pc[v] /\ mem'[v] = mem[v]
        /\ UNCHANGED <<stateFile, log, backups, peak, crashes>>
    BY <1>5 DEF SweepWrite, At, Release, Goto, Hold, LockType, ProcessType, ghosts, bounds
  <2> QED BY <2>1, OutsideSaved DEF Outside
<1> QED BY <1>1, <1>2, <1>3, <1>4, <1>5, ExportSaved, SkipSaved, SnapshotLogSaved,
           SnapshotStateSaved, PruneSaved, CommitSaved DEF Persisting

LEMMA CrashingSaved ==
    ASSUME TypeInvariant, TypeInvariant', BackupInvariant, NEW w \in Writers, Crashing(w)
    PROVE  BackupInvariant'
<1> USE DEF TypeInvariant, TypeOK
<1>1. /\ Release(w) /\ UNCHANGED <<stateFile, backups, peak>>
      /\ crashes < MaxCrashes /\ crashes' = crashes + 1
  BY DEF Crashing, Crash, CrashTearingLog, CrashTearingCold, CrashRestoring, files, ghosts
<1>2. pc'[w] = "idle" /\ \A v \in Writers \ {w} : pc'[v] = pc[v] /\ mem'[v] = mem[v]
  BY <1>1 DEF Release, Hold, Goto, LockType, ProcessType
<1>3. log # <<>> => log' # <<>>
  <2>1. CASE CrashTearingLog(w)
    <3>1. log \in Seq(Lines)
      BY DEF FileType
    <3>2. log' = AppendLine(log, HalfEvent, HalfEvent, HalfEvent)
      BY <2>1 DEF CrashTearingLog
    <3>3. CASE log # <<>> /\ log[Len(log)] = HalfEvent
      <4>1. DOMAIN log' = DOMAIN log /\ DOMAIN log = 1..Len(log) /\ Len(log) \in Nat /\ Len(log) # 0
        BY <3>1, <3>2, <3>3, LenProperties, EmptySeq DEF AppendLine
      <4>2. 1 \in DOMAIN log' /\ DOMAIN <<>> = {}
        BY <4>1
      <4> QED BY <4>2
    <3>4. CASE ~(log # <<>> /\ log[Len(log)] = HalfEvent)
      <4>1. log' = Append(log, HalfEvent)
        BY <3>2, <3>4 DEF AppendLine
      <4> QED BY <3>1, <4>1, AppendProperties, LenProperties
    <3> QED BY <3>3, <3>4
  <2>2. CASE Crash(w) \/ CrashTearingCold(w) \/ CrashRestoring(w)
    BY <2>2 DEF Crash, CrashTearingCold, CrashRestoring, files
  <2> QED BY <2>1, <2>2 DEF Crashing
<1> QED BY <1>1, <1>2, <1>3, OutsideSaved DEF Outside

LEMMA LoseSaved ==
    ASSUME TypeInvariant, BackupInvariant, Lose
    PROVE  BackupInvariant'
<1> USE DEF TypeInvariant, TypeOK
<1>1. /\ lock = None /\ UNCHANGED <<pc, mem, backups, peak, crashes>>
      /\ stateFile' \in {Absent, Corrupt}
  BY DEF Lose, ghosts
<1>2. Usable' = Usable /\ Underway' = Underway
  BY <1>1 DEF Usable, Underway, NextEvent
<1>3. BackupsNamed' /\ FewIncomplete' /\ PeakSaved'
  BY <1>1, <1>2 DEF BackupInvariant, BackupsNamed, FewIncomplete, Incomplete, PeakSaved
<1>4. StoredSaved'
  BY <1>1 DEF StoredSaved, Readable
<1>5. \A w \in Writers : pc'[w] \in Outside
  BY <1>1, BoardStoreAssumption DEF LockType
<1>6. HeldSaved'
  BY <1>5 DEF HeldSaved, SavedAt, Outside, Restoring, Holding, Writing
<1> QED BY <1>3, <1>4, <1>6 DEF BackupInvariant

(***************************************************************************)
(* Whatever is lost outside the backups, whoever dies, a process that      *)
(* opens the board finds all but fewer than BackupEvery of the events ever *)
(* committed (_snapshot_board, _recover_from_backup), as long as fewer     *)
(* processes die than backups are kept.                                    *)
(***************************************************************************)
THEOREM BackupsSuffice ==
    ASSUME MaxCrashes < Keep
    PROVE  Spec => []RecoveryBounded
<1>1. Init => BackupInvariant
  <2> SUFFICES ASSUME Init PROVE BackupInvariant
    OBVIOUS
  <2>1. \A w \in Writers : pc[w] = "idle"
    BY DEF Init
  <2>2. HeldSaved
    BY <2>1 DEF HeldSaved, SavedAt, Restoring, Holding, Writing
  <2>3. StoredSaved
    BY DEF Init, StoredSaved, Readable
  <2>4. BackupsNamed /\ PeakSaved
    <3>1. Len(peak) = 0 /\ DOMAIN backups = {}
      BY EmptySeq DEF Init
    <3> QED BY <3>1, BoardStoreAssumption DEF BackupsNamed, PeakSaved
  <2>5. FewIncomplete
    <3>1. Incomplete = {} /\ crashes = 0
      BY DEF Init, Incomplete
    <3> QED BY <3>1, FS_EmptySet, BoardStoreAssumption DEF FewIncomplete
  <2> QED BY <2>2, <2>3, <2>4, <2>5 DEF BackupInvariant
<1>2. TypeInvariant /\ TypeInvariant' /\ BackupInvariant /\ [Next]_vars => BackupInvariant'
  <2> SUFFICES ASSUME TypeInvariant, TypeInvariant', BackupInvariant, [Next]_vars
               PROVE  BackupInvariant'
    OBVIOUS
  <2>1. ASSUME NEW w \in Writers, Loading(w) \/ Body(w) \/ Persisting(w) \/ Crashing(w)
        PROVE  BackupInvariant'
    BY <2>1, LoadingSaved, BodySaved, PersistingSaved, CrashingSaved
  <2>2. CASE UNCHANGED vars
    <3>1. UNCHANGED <<pc, mem, stateFile, log, backups, peak, crashes>>
      BY <2>2 DEF vars, files, ghosts, bounds
    <3>2. BackupsNamed' /\ FewIncomplete' /\ PeakSaved' /\ StoredSaved'
      BY <3>1, StoredSame DEF BackupInvariant, BackupsNamed, FewIncomplete, Incomplete, Underway,
         PeakSaved, Usable, NextEvent
    <3>3. HeldSaved'
      BY <3>1 DEF BackupInvariant, HeldSaved, SavedAt, NearPeak, Anchored, LoggedAtAll, Usable, NextEvent
    <3> QED BY <3>2, <3>3 DEF BackupInvariant
  <2> QED BY <2>1, <2>2, LoseSaved DEF Next
<1>3. BackupInvariant => RecoveryBounded
  BY DEF BackupInvariant, HeldSaved, SavedAt, NearPeak, RecoveryBounded, Holding, Writing
<1> QED BY <1>1, <1>2, <1>3, TypeInvariantHolds, PTL DEF Spec

-----------------------------------------------------------------------------
(***************************************************************************)
(* The refinement of AtomicBoard: its invariant.  Where no line is left    *)
(* half written and no archive is rewritten outside the lock, a            *)
(* transaction carries the stored board on: what its holder has in memory  *)
(* still shows every record the stored board shows, and what it is about   *)
(* to archive is not hidden from the stored board's readers, so that the   *)
(* append alone changes nothing they see.                                  *)
(***************************************************************************)
Carries(s) ==
    /\ stateFile.cancelled \subseteq s.cancelled
    /\ \A i \in Items :
        /\ stateFile.index[i] # 0 => s.index[i] # 0
        /\ i \in Seen(stateFile) => i \in Seen(s)
        /\ s.hot[i] # 0 => stateFile.index[i] = 0 \/ i \in Seen(stateFile)

WholeLines == \A k \in DOMAIN cold : cold[k].item # None

NoSweeps ==
    \A w \in Writers : cancelling[w] = None /\ pc[w] \notin {"sweepread", "sweepwrite"}

Recovering == \A w \in Writers : pc[w] \in Restoring => ~Readable

Carried ==
    \A w \in Writers : pc[w] \in Holding /\ Readable =>
        /\ Carries(mem[w])
        /\ \/ Atomic!Extends(stateFile.hist, mem[w].hist)
           \/ pc[w] = "edit" /\ mem[w] = stateFile

AtomicInvariant == WholeLines /\ NoSweeps /\ Recovering /\ Carried

(***************************************************************************)
(* Lemmas.                                                                 *)
(***************************************************************************)
LEMMA SameView ==
    ASSUME UNCHANGED <<stateFile, cold>>
    PROVE  Visible' = Visible /\ Readable' = Readable /\ ColdItems' = ColdItems
BY DEF Visible, Readable, Seen, ColdItems

LEMMA ExtendsByOne ==
    ASSUME NEW old \in Seq(Nat), NEW new \in Seq(Nat), NEW e \in Nat,
           Atomic!Extends(old, new) \/ new = old
    PROVE  Atomic!Extends(old, Append(new, e))
<1>1. /\ Len(old) \in Nat /\ DOMAIN old = 1..Len(old)
      /\ Len(new) \in Nat
      /\ Len(Append(new, e)) = Len(new) + 1
      /\ \A n \in 1..Len(new) : Append(new, e)[n] = new[n]
  BY LenProperties, AppendProperties
<1>2. Len(old) <= Len(new) /\ \A n \in DOMAIN old : new[n] = old[n]
  BY <1>1 DEF Atomic!Extends
<1> QED BY <1>1, <1>2 DEF Atomic!Extends

\* A step that leaves its process outside a transaction, or before its load.
LEMMA QuietCarried ==
    ASSUME AtomicInvariant, NEW w \in Writers, UNCHANGED <<stateFile, cold>>,
           pc'[w] \in {"idle", "load"}, cancelling'[w] = None,
           \A v \in Writers \ {w} :
               pc'[v] = pc[v] /\ mem'[v] = mem[v] /\ cancelling'[v] = cancelling[v]
    PROVE  AtomicInvariant' /\ Visible' = Visible
<1>1. Visible' = Visible /\ Readable' = Readable /\ ColdItems' = ColdItems
  BY SameView
<1>2. WholeLines' /\ NoSweeps' /\ Recovering'
  BY <1>1 DEF AtomicInvariant, WholeLines, NoSweeps, Recovering, Restoring
<1>3. Carried'
  <2> SUFFICES ASSUME NEW v \in Writers, pc'[v] \in Holding, Readable'
               PROVE  /\ Carries(mem[v])'
                      /\ \/ Atomic!Extends(stateFile.hist, mem[v].hist)'
                         \/ pc'[v] = "edit" /\ mem'[v] = stateFile'
    BY DEF Carried
  <2>1. v # w
    BY DEF Holding, Writing
  <2>2. /\ Carries(mem[v])
        /\ \/ Atomic!Extends(stateFile.hist, mem[v].hist)
           \/ pc[v] = "edit" /\ mem[v] = stateFile
    BY <1>1, <2>1 DEF AtomicInvariant, Carried
  <2> QED BY <1>1, <2>1, <2>2 DEF Carries, Seen, Atomic!Extends
<1> QED BY <1>1, <1>2, <1>3 DEF AtomicInvariant

\* A step of the holder in memory.
LEMMA MemoryCarried ==
    ASSUME TypeInvariant, AtomicInvariant, NEW w \in Writers, pc[w] \notin Outside,
           UNCHANGED <<stateFile, cold, cancelling>>,
           NEW s \in BoardState, Hold(w, s), NEW label \in Labels \ Outside, Goto(w, label),
           label \in Restoring => ~Readable,
           label \in Holding /\ Readable =>
               /\ Carries(s)
               /\ \/ Atomic!Extends(stateFile.hist, s.hist)
                  \/ label = "edit" /\ s = stateFile
    PROVE  AtomicInvariant' /\ Visible' = Visible
<1>1. Visible' = Visible /\ Readable' = Readable /\ ColdItems' = ColdItems
  BY SameView
<1>2. /\ pc'[w] = label /\ mem'[w] = s
      /\ \A v \in Writers \ {w} : pc'[v] = pc[v] /\ pc[v] \in Outside
  BY DEF TypeInvariant, TypeOK, LockType, ProcessType, Hold, Goto
<1>3. WholeLines' /\ NoSweeps' /\ Recovering'
  BY <1>1, <1>2 DEF AtomicInvariant, WholeLines, NoSweeps, Recovering, Restoring, Outside
<1>4. Carried'
  <2> SUFFICES ASSUME NEW v \in Writers, pc'[v] \in Holding, Readable'
               PROVE  /\ Carries(mem[v])'
                      /\ \/ Atomic!Extends(stateFile.hist, mem[v].hist)'
                         \/ pc'[v] = "edit" /\ mem'[v] = stateFile'
    BY DEF Carried
  <2>1. v = w
    BY <1>2 DEF Outside, Holding, Writing
  <2> QED BY <1>1, <1>2, <2>1 DEF Carries, Seen, Atomic!Extends
<1> QED BY <1>1, <1>3, <1>4 DEF AtomicInvariant

(***************************************************************************)
(* Every step keeps the invariant and is a step of the abstract board.     *)
(***************************************************************************)
LEMMA LoadingCarried ==
    ASSUME TypeInvariant, AtomicInvariant, NEW w \in Writers, Loading(w)
    PROVE  AtomicInvariant' /\ [Atomic!Next]_Visible
<1> USE DEF TypeInvariant, TypeOK
<1>0. mem[w] \in BoardState
  BY DEF ProcessType
<1>1. CASE Acquire(w)
  <2>1. /\ pc'[w] = "load" /\ cancelling'[w] = None
        /\ \A v \in Writers \ {w} :
               pc'[v] = pc[v] /\ mem'[v] = mem[v] /\ cancelling'[v] = cancelling[v]
    BY <1>1 DEF Acquire, Goto, LockType, local, AtomicInvariant, NoSweeps
  <2> QED BY <1>1, <2>1, QuietCarried DEF Acquire, files
<1>2. CASE LoadState(w)
  <2>1. stateFile \in BoardState /\ Carries(stateFile)
    BY <1>2 DEF LoadState, FileType, Carries, Seen
  <2> QED BY <1>2, <2>1, MemoryCarried
      DEF LoadState, At, files, local, Labels, Outside, Restoring
<1>3. CASE LoadBackup(w)
  <2>1. backups[NewestUsable].state \in BoardState /\ ~Readable
    BY <1>3, NewestUsableType DEF LoadBackup, Usable, BackupType, Readable
  <2> QED BY <1>3, <2>1, MemoryCarried DEF LoadBackup, At, files, local, Labels, Outside
<1>4. CASE RestoreLog(w)
  <2>1. ~Readable
    BY <1>4 DEF RestoreLog, At, AtomicInvariant, Recovering, Restoring
  <2> QED BY <1>0, <1>4, <2>1, HoldSame, MemoryCarried
      DEF RestoreLog, At, local, Labels, Outside
<1>5. CASE RestoreState(w)
  <2>1. ~Readable
    BY <1>5 DEF RestoreState, At, AtomicInvariant, Recovering, Restoring
  <2>2. CASE stateFile = Absent
    <3>1. /\ pc'[w] = "edit" /\ mem' = mem /\ stateFile' = mem[w] /\ cold' = cold
          /\ cancelling' = cancelling
          /\ \A v \in Writers \ {w} : pc'[v] = pc[v] /\ pc[v] \in Outside
      BY <1>5, <2>2 DEF RestoreState, At, Goto, LockType, local, Outside
    <3>2. WholeLines' /\ NoSweeps' /\ Recovering'
      BY <3>1 DEF AtomicInvariant, WholeLines, NoSweeps, Recovering, Outside, Restoring
    <3>3. Carried'
      <4> SUFFICES ASSUME NEW v \in Writers, pc'[v] \in Holding
                   PROVE  Carries(mem[v])' /\ pc'[v] = "edit" /\ mem'[v] = stateFile'
        BY DEF Carried
      <4>1. v = w
        BY <3>1 DEF Outside, Holding, Writing
      <4> QED BY <1>0, <3>1, <4>1 DEF Carries, Seen
    <3>4. Visible = Absent
      BY <2>1 DEF Visible
    <3>5. Atomic!Next \/ Visible' = Visible
      BY <3>4 DEF Atomic!Next, Atomic!Open
    <3> QED BY <3>2, <3>3, <3>5 DEF AtomicInvariant
  <2>3. CASE stateFile # Absent
    <3>1. stateFile' = stateFile
      BY <1>5, <2>3 DEF RestoreState
    <3> QED BY <1>0, <1>5, <2>1, <3>1, HoldSame, MemoryCarried
        DEF RestoreState, At, local, Labels, Outside, Restoring
  <2> QED BY <2>2, <2>3
<1>6. CASE LoadLog(w)
  <2> DEFINE s == [InitialState EXCEPT !.hist = [n \in 1..LastSequence |-> 0],
                                       !.exported = LastSequence]
  <2>1. LastSequence \in Nat
    BY LastSequenceType DEF FileType
  <2>2. s \in BoardState /\ ~Readable
    BY <1>6, <2>1, ZerosType, InitialStateType DEF BoardState, LoadLog, Readable
  <2> HIDE DEF s
  <2>3. Hold(w, s)
    BY <1>6 DEF LoadLog, s
  <2> QED BY <1>6, <2>2, <2>3, MemoryCarried
      DEF LoadLog, At, files, local, Labels, Outside, Restoring
<1>7. CASE LoadNothing(w)
  <2>1. ~Readable
    BY <1>7 DEF LoadNothing, Readable
  <2> QED BY <1>7, <2>1, InitialStateType, MemoryCarried
      DEF LoadNothing, At, files, local, Labels, Outside, Restoring
<1> QED BY <1>1, <1>2, <1>3, <1>4, <1>5, <1>6, <1>7 DEF Loading

\* A change of the body records one event behind those of the stored board.
LEMMA RecordingCarried ==
    ASSUME TypeInvariant, AtomicInvariant, NEW w \in Writers, At(w, "edit"),
           NEW s \in BoardState, Recording(w, s), s.hist = Recorded(w).hist,
           Readable => Carries(s)
    PROVE  AtomicInvariant' /\ Visible' = Visible
<1> USE DEF TypeInvariant, TypeOK
<1>1. Readable => Atomic!Extends(stateFile.hist, s.hist)
  <2> SUFFICES ASSUME Readable PROVE Atomic!Extends(stateFile.hist, s.hist)
    OBVIOUS
  <2>1. /\ stateFile.hist \in Seq(Nat) /\ mem[w].hist \in Seq(Nat) /\ stamps + 1 \in Nat
        /\ mem[w] \in BoardState
    BY DEF FileType, ProcessType, GhostType, Readable, BoardState
  <2>2. Atomic!Extends(stateFile.hist, mem[w].hist) \/ mem[w].hist = stateFile.hist
    BY DEF AtomicInvariant, Carried, At, Holding, Writing
  <2>3. s.hist = Append(mem[w].hist, stamps + 1)
    BY <2>1 DEF Recorded, BoardState
  <2> QED BY <2>1, <2>2, <2>3, ExtendsByOne
<1>2. pc[w] = "edit" /\ Goto(w, "edit")
  BY DEF At, Recording, Goto, LockType
<1> QED BY <1>1, <1>2, MemoryCarried DEF Recording, files, local, Labels, Outside, Restoring

LEMMA BodyCarried ==
    ASSUME TypeInvariant, AtomicInvariant, MaxCancels = 0, NEW w \in Writers, Body(w)
    PROVE  AtomicInvariant' /\ Visible' = Visible
<1> USE DEF TypeInvariant, TypeOK
<1>0. /\ Recorded(w) \in BoardState /\ stamps + 1 \in Nat \ {0} /\ mem[w] \in BoardState
      /\ Recorded(w).hot = mem[w].hot /\ Recorded(w).index = mem[w].index
      /\ Recorded(w).cancelled = mem[w].cancelled
  <2>1. Recorded(w) \in BoardState /\ stamps + 1 \in Nat /\ mem[w] \in BoardState
    BY RecordedType
  <2>2. stamps + 1 # 0
    BY DEF GhostType
  <2> QED BY <2>1, <2>2 DEF Recorded, BoardState
<1>1. At(w, "edit") /\ Readable => Carries(mem[w])
  BY DEF At, AtomicInvariant, Carried, Holding, Writing
<1>2. ASSUME NEW i \in Items, ChangeItem(w, i) PROVE AtomicInvariant' /\ Visible' = Visible
  <2> DEFINE s == [Recorded(w) EXCEPT !.hot[i] = stamps + 1]
  <2>1. /\ s \in BoardState /\ s.hist = Recorded(w).hist /\ s.index = mem[w].index
        /\ s.cancelled = mem[w].cancelled /\ s.hot[i] # 0
        /\ \A j \in Items \ {i} : s.hot[j] = mem[w].hot[j]
    BY <1>0 DEF BoardState
  <2> HIDE DEF s
  <2>2. Readable => Carries(s)
    BY <1>1, <1>2, <2>1 DEF ChangeItem, CanRecord, Carries, Seen
  <2>3. Recording(w, s) /\ At(w, "edit")
    BY <1>2 DEF ChangeItem, CanRecord, s
  <2> QED BY <2>1, <2>2, <2>3, RecordingCarried
<1>3. ASSUME NEW i \in Items, FinishItem(w, i) PROVE AtomicInvariant' /\ Visible' = Visible
  <2> DEFINE s == [Recorded(w) EXCEPT !.hot[i] = stamps + 1, !.done = @ \cup {i}]
  <2>1. /\ s \in BoardState /\ s.hist = Recorded(w).hist /\ s.index = mem[w].index
        /\ s.cancelled = mem[w].cancelled /\ s.hot[i] # 0
        /\ \A j \in Items \ {i} : s.hot[j] = mem[w].hot[j]
    BY <1>0 DEF BoardState
  <2> HIDE DEF s
  <2>2. Readable => Carries(s)
    BY <1>1, <1>3, <2>1 DEF FinishItem, CanRecord, Carries, Seen
  <2>3. Recording(w, s) /\ At(w, "edit")
    BY <1>3 DEF FinishItem, CanRecord, s
  <2> QED BY <2>1, <2>2, <2>3, RecordingCarried
<1>4. ASSUME NEW a \in Agents, DirectOwner(w, a) PROVE AtomicInvariant' /\ Visible' = Visible
  <2> DEFINE s == [Recorded(w) EXCEPT !.wanted = IF a \in @ THEN @ \ {a} ELSE @ \cup {a}]
  <2>1. /\ s \in BoardState /\ s.hist = Recorded(w).hist /\ s.index = mem[w].index
        /\ s.cancelled = mem[w].cancelled /\ s.hot = mem[w].hot
    BY <1>0 DEF BoardState
  <2> HIDE DEF s
  <2>2. Readable => Carries(s)
    BY <1>1, <1>4, <2>1 DEF DirectOwner, CanRecord, Carries, Seen
  <2>3. Recording(w, s) /\ At(w, "edit")
    BY <1>4 DEF DirectOwner, CanRecord, s
  <2> QED BY <2>1, <2>2, <2>3, RecordingCarried
<1>5. ASSUME NEW q \in Requests, Cancel(w, q) PROVE FALSE
  BY <1>5 DEF Cancel, GhostType
<1>6. ASSUME Release(w), UNCHANGED files PROVE AtomicInvariant' /\ Visible' = Visible
  <2>1. /\ pc'[w] = "idle" /\ cancelling'[w] = None
        /\ \A v \in Writers \ {w} :
               pc'[v] = pc[v] /\ mem'[v] = mem[v] /\ cancelling'[v] = cancelling[v]
    BY <1>6 DEF Release, Goto, Hold, LockType, ProcessType
  <2> QED BY <1>6, <2>1, QuietCarried DEF files
<1>7. CASE EndBody(w) /\ mem[w] # stateFile
  <2>1. Readable => Carries(mem[w]) /\ Atomic!Extends(stateFile.hist, mem[w].hist)
    BY <1>7 DEF EndBody, At, AtomicInvariant, Carried, Holding, Writing
  <2> QED BY <1>0, <1>7, <2>1, HoldSame, MemoryCarried
      DEF EndBody, At, files, local, Labels, Outside, Restoring
<1> QED BY <1>2, <1>3, <1>4, <1>5, <1>6, <1>7 DEF Body, Abort, EndBody

\* Appending a record to the archive changes nothing the readers of the
\* stored board see, and the record stays visible in the board in memory.
LEMMA ArchiveCarried ==
    ASSUME TypeInvariant, AtomicInvariant, NEW w \in Writers, NEW i \in Items, Archive(w, i)
    PROVE  AtomicInvariant' /\ Visible' = Visible
<1> USE DEF TypeInvariant, TypeOK
<1> DEFINE s == Archived(mem[w], i)
<1>1. /\ mem[w] \in BoardState /\ s \in BoardState /\ s.hist = mem[w].hist
      /\ s.cancelled = mem[w].cancelled /\ mem[w].hot[i] # 0
      /\ s.hot[i] = 0 /\ s.index[i] # 0
      /\ \A j \in Items \ {i} : s.hot[j] = mem[w].hot[j] /\ s.index[j] = mem[w].index[j]
  <2>1. mem[w] \in BoardState /\ mem[w].hot[i] # 0
    BY DEF ProcessType, Archive, Archivable
  <2>2. s \in BoardState /\ s.hist = mem[w].hist /\ s.cancelled = mem[w].cancelled
    BY <2>1 DEF BoardState, Archived
  <2>3. /\ s.hot = [mem[w].hot EXCEPT ![i] = 0]
        /\ s.index = [mem[w].index EXCEPT ![i] = mem[w].hot[i]]
    BY <2>1 DEF BoardState, Archived
  <2>4. mem[w].hot \in [Items -> Nat] /\ mem[w].index \in [Items -> Nat]
    BY <2>1 DEF BoardState
  <2> HIDE DEF s
  <2> QED BY <2>1, <2>2, <2>3, <2>4
<1>2. /\ pc[w] = "archive" /\ pc' = pc /\ mem'[w] = s /\ stateFile' = stateFile
      /\ cancelling' = cancelling /\ Readable' = Readable
      /\ \A v \in Writers \ {w} : pc[v] \in Outside
  <2>1. pc[w] = "archive" /\ pc' = pc /\ stateFile' = stateFile /\ cancelling' = cancelling
    BY DEF Archive, At, local
  <2>2. mem'[w] = s
    BY DEF Archive, Hold, ProcessType
  <2>3. \A v \in Writers \ {w} : pc[v] \in Outside
    BY <2>1 DEF LockType, Outside
  <2> HIDE DEF s
  <2> QED BY <2>1, <2>2, <2>3 DEF Readable
<1>3. ColdItems' = ColdItems \cup {i} /\ WholeLines'
  <2>1. CASE i \in ColdItems
    <3>1. cold' = cold
      BY <2>1 DEF Archive
    <3> QED BY <2>1, <3>1 DEF ColdItems, AtomicInvariant, WholeLines
  <2>2. CASE i \notin ColdItems
    <3> DEFINE line == ItemLine(i, mem[w].hot[i])
    <3>1. cold \in Seq(ColdLines) /\ line \in ColdLines /\ line.item = i /\ i # None
      BY <1>1, BoardStoreAssumption DEF FileType, ItemLine, ColdLines, BoardState
    <3>2. cold # <<>> => cold[Len(cold)] # HalfItem
      <4>1. cold # <<>> => Len(cold) \in DOMAIN cold
        BY <3>1, LenProperties, EmptySeq
      <4> QED BY <4>1 DEF AtomicInvariant, WholeLines, HalfItem, ItemLine
    <3>3. cold' = Append(cold, line)
      BY <2>2, <3>2 DEF Archive, AppendLine
    <3> HIDE DEF line
    <3>4. /\ DOMAIN cold = 1..Len(cold) /\ DOMAIN cold' = 1..(Len(cold) + 1)
          /\ Len(cold) \in Nat
          /\ \A k \in 1..Len(cold) : cold'[k] = cold[k]
          /\ cold'[Len(cold) + 1] = line
      <4>1. DOMAIN cold = 1..Len(cold) /\ Len(cold) \in Nat
        BY <3>1, LenProperties
      <4>2. /\ cold' \in Seq(ColdLines) /\ Len(cold') = Len(cold) + 1
            /\ \A k \in 1..Len(cold) : cold'[k] = cold[k]
            /\ cold'[Len(cold) + 1] = line
        BY <3>1, <3>3, AppendProperties
      <4>3. DOMAIN cold' = 1..(Len(cold) + 1)
        BY <4>2, LenProperties
      <4> QED BY <4>1, <4>2, <4>3
    <3>5. WholeLines'
      BY <3>1, <3>4 DEF AtomicInvariant, WholeLines
    <3>6. \A x : (\E k \in DOMAIN cold' : cold'[k].item = x)
                  <=> (\E k \in DOMAIN cold : cold[k].item = x) \/ x = i
      BY <3>1, <3>4
    <3>7. \A x : x \in ColdItems' <=> x \in ColdItems \cup {i}
      BY <3>1, <3>6 DEF ColdItems
    <3> QED BY <3>5, <3>7
  <2> QED BY <2>1, <2>2
<1> HIDE DEF s
<1>4. Readable => /\ Carries(mem[w])
                  /\ Atomic!Extends(stateFile.hist, mem[w].hist)
  BY <1>2 DEF AtomicInvariant, Carried, Holding, Writing
<1>5. Readable => Seen(stateFile)' = Seen(stateFile)
  BY <1>1, <1>2, <1>3, <1>4 DEF Seen, Carries
<1>6. Visible' = Visible
  BY <1>2, <1>5 DEF Visible
<1>7. NoSweeps' /\ Recovering'
  BY <1>2 DEF AtomicInvariant, NoSweeps, Recovering
<1>8. Carried'
  <2> SUFFICES ASSUME NEW v \in Writers, pc'[v] \in Holding, Readable'
               PROVE  Carries(mem[v])' /\ Atomic!Extends(stateFile.hist, mem[v].hist)'
    BY DEF Carried
  <2>1. v = w
    BY <1>2 DEF Outside, Holding, Writing
  <2>2. Atomic!Extends(stateFile.hist, mem[w].hist)'
    BY <1>1, <1>2, <1>4, <2>1 DEF Atomic!Extends
  <2>3. stateFile'.cancelled \subseteq mem'[w].cancelled
    BY <1>1, <1>2, <1>4, <2>1 DEF Carries
  <2>4. ASSUME NEW j \in Items
        PROVE  /\ stateFile'.index[j] # 0 => mem'[w].index[j] # 0
               /\ j \in Seen(stateFile)' => j \in Seen(mem[w])'
               /\ mem'[w].hot[j] # 0 => stateFile'.index[j] = 0 \/ j \in Seen(stateFile)'
    <3>1. /\ stateFile.index[j] # 0 => mem[w].index[j] # 0
          /\ j \in Seen(stateFile) => j \in Seen(mem[w])
          /\ mem[w].hot[j] # 0 => stateFile.index[j] = 0 \/ j \in Seen(stateFile)
      BY <1>2, <1>4, <2>1 DEF Carries
    <3>2. j \in Seen(stateFile)' <=> j \in Seen(stateFile)
      BY <1>2, <1>5, <2>1
    <3>3. CASE j = i
      BY <1>1, <1>2, <1>3, <3>1, <3>2, <3>3 DEF Seen
    <3>4. CASE j # i
      BY <1>1, <1>2, <1>3, <3>1, <3>2, <3>4 DEF Seen
    <3> QED BY <3>3, <3>4
  <2> QED BY <2>1, <2>2, <2>3, <2>4 DEF Carries
<1> QED BY <1>3, <1>6, <1>7, <1>8 DEF AtomicInvariant

LEMMA PersistingCarried ==
    ASSUME TypeInvariant, AtomicInvariant, NEW w \in Writers, Persisting(w)
    PROVE  AtomicInvariant' /\ [Atomic!Next]_Visible
<1> USE DEF TypeInvariant, TypeOK
<1>0. mem[w] \in BoardState
  BY DEF ProcessType
<1>1. pc[w] \in Holding \ {"edit"} /\ Readable =>
          Carries(mem[w]) /\ Atomic!Extends(stateFile.hist, mem[w].hist)
  BY DEF AtomicInvariant, Carried
<1>2. ASSUME NEW s \in BoardState, s.hist = mem[w].hist, s.hot = mem[w].hot,
             s.index = mem[w].index, s.cancelled = mem[w].cancelled,
             pc[w] \in Holding \ {"edit"}, Hold(w, s), UNCHANGED <<stateFile, cold, cancelling>>,
             NEW label \in Holding \ {"edit"}, Goto(w, label)
      PROVE  AtomicInvariant' /\ [Atomic!Next]_Visible
  <2>1. Readable => Carries(s) /\ Atomic!Extends(stateFile.hist, s.hist)
    BY <1>1, <1>2 DEF Carries, Seen
  <2> QED BY <1>2, <2>1, MemoryCarried DEF Labels, Outside, Restoring, Holding, Writing
<1>3. CASE ExportOne(w)
  <2> DEFINE n == mem[w].exported + 1
             s == [mem[w] EXCEPT !.exported = n]
  <2>0. n \in Nat
    BY <1>0 DEF BoardState
  <2>1. /\ s \in BoardState /\ s.hist = mem[w].hist /\ s.hot = mem[w].hot
        /\ s.index = mem[w].index /\ s.cancelled = mem[w].cancelled
    <3> HIDE DEF n
    <3> QED BY <1>0, <2>0 DEF BoardState
  <2>2. Hold(w, s)
    BY <1>3 DEF ExportOne
  <2>3. pc[w] = "export" /\ Goto(w, "export")
    BY <1>3 DEF ExportOne, At, Goto, LockType
  <2> HIDE DEF s
  <2> QED BY <1>2, <1>3, <2>1, <2>2, <2>3 DEF ExportOne, local, Holding, Writing
<1>4. CASE ReturnAgents(w)
  <2> DEFINE hot == [i \in Items |->
            IF mem[w].hot[i] = 0 /\ i \in mem[w].wanted /\ i \in ColdItems
            THEN ColdVersion(i) ELSE mem[w].hot[i]]
             s == [mem[w] EXCEPT !.hot = hot]
  <2>1. hot \in [Items -> Nat]
    BY <1>0, ColdVersionType DEF FileType, BoardState
  <2>2. /\ s \in BoardState /\ s.hist = mem[w].hist /\ s.hot = hot
        /\ s.index = mem[w].index /\ s.cancelled = mem[w].cancelled
    BY <1>0, <2>1 DEF BoardState
  <2>3. Hold(w, s)
    BY <1>4 DEF ReturnAgents
  <2>4. \A i \in Items : s.hot[i] = mem[w].hot[i] \/ (mem[w].hot[i] = 0 /\ i \in ColdItems)
    BY <2>2
  <2> HIDE DEF s
  <2>5. Readable => Carries(s) /\ Atomic!Extends(stateFile.hist, s.hist)
    <3>1. Readable => Carries(mem[w]) /\ Atomic!Extends(stateFile.hist, mem[w].hist)
      BY <1>1, <1>4 DEF ReturnAgents, At, Holding, Writing
    <3> QED BY <2>2, <2>4, <3>1 DEF Carries, Seen
  <2> QED BY <1>4, <2>2, <2>3, <2>5, MemoryCarried
      DEF ReturnAgents, At, files, local, Labels, Outside, Restoring
<1>5. ASSUME NEW i \in Items, Archive(w, i) PROVE AtomicInvariant' /\ [Atomic!Next]_Visible
  BY <1>5, ArchiveCarried
<1>6. CASE EndArchive(w)
  BY <1>0, <1>2, <1>6, HoldSame DEF EndArchive, At, files, local, Holding, Writing
<1>7. CASE SkipSnapshot(w)
  <2> DEFINE s == [mem[w] EXCEPT !.backupAt = IF BackupDue(mem[w]) THEN NextEvent(mem[w]) ELSE @]
  <2>1. NextEvent(mem[w]) \in Nat
    <3>1. mem[w].hist \in Seq(Nat)
      BY <1>0 DEF BoardState
    <3> QED BY <3>1, LenProperties DEF NextEvent
  <2>2. /\ s \in BoardState /\ s.hist = mem[w].hist /\ s.hot = mem[w].hot
        /\ s.index = mem[w].index /\ s.cancelled = mem[w].cancelled
    BY <1>0, <2>1 DEF BoardState
  <2> QED BY <1>2, <1>7, <2>2 DEF SkipSnapshot, At, files, local, Holding, Writing
<1>8. CASE SnapshotLog(w)
  <2> DEFINE s == [mem[w] EXCEPT !.backupAt = NextEvent(mem[w])]
  <2>1. NextEvent(mem[w]) \in Nat
    <3>1. mem[w].hist \in Seq(Nat)
      BY <1>0 DEF BoardState
    <3> QED BY <3>1, LenProperties DEF NextEvent
  <2>2. /\ s \in BoardState /\ s.hist = mem[w].hist /\ s.hot = mem[w].hot
        /\ s.index = mem[w].index /\ s.cancelled = mem[w].cancelled
    BY <1>0, <2>1 DEF BoardState
  <2> QED BY <1>2, <1>8, <2>2 DEF SnapshotLog, At, local, Holding, Writing
<1>9. CASE SnapshotState(w)
  BY <1>0, <1>2, <1>9, HoldSame DEF SnapshotState, At, local, Holding, Writing
<1>10. CASE Prune(w)
  BY <1>0, <1>2, <1>10, HoldSame DEF Prune, At, local, Holding, Writing
<1>11. CASE Commit(w)
  <2>1. /\ pc[w] = "commit" /\ stateFile' = mem[w] /\ cold' = cold /\ cancelling' = cancelling
        /\ pc'[w] = "idle" /\ cancelling[w] = None
        /\ \A v \in Writers \ {w} : pc'[v] = pc[v] /\ pc[v] \in Outside
    BY <1>11 DEF Commit, At, Goto, LockType, local, Outside, AtomicInvariant, NoSweeps
  <2>2. AtomicInvariant'
    <3>1. WholeLines' /\ NoSweeps' /\ Recovering'
      BY <2>1 DEF AtomicInvariant, WholeLines, NoSweeps, Recovering, Outside, Restoring
    <3>2. Carried'
      BY <2>1 DEF Carried, Outside, Holding, Writing
    <3> QED BY <3>1, <3>2 DEF AtomicInvariant
  <2>3. Readable' /\ ColdItems' = ColdItems
    BY <1>0, <2>1, FileAssumption DEF Readable, ColdItems
  <2> DEFINE new == [history |-> mem[w].hist, present |-> Seen(mem[w]),
                     cancelled |-> mem[w].cancelled]
  <2>4. Visible' = new /\ new # Absent
    <3>1. Seen(stateFile)' = Seen(mem[w])
      BY <2>1, <2>3 DEF Seen
    <3>2. new \in [history: Seq(Nat), present: SUBSET Items, cancelled: SUBSET Requests]
      BY <1>0 DEF BoardState, Seen
    <3> QED BY <2>1, <2>3, <3>1, <3>2, ViewAssumption DEF Visible
  <2>5. CASE ~Readable
    BY <2>2, <2>4, <2>5 DEF Visible, Atomic!Next, Atomic!Open
  <2>6. CASE Readable
    <3> DEFINE old == [history |-> stateFile.hist, present |-> Seen(stateFile),
                       cancelled |-> stateFile.cancelled]
    <3>1. Carries(mem[w]) /\ Atomic!Extends(stateFile.hist, mem[w].hist)
      BY <1>1, <2>1, <2>6 DEF Holding, Writing
    <3>2. Visible = old /\ old # Absent
      <4>1. stateFile \in BoardState
        BY <2>6 DEF FileType, Readable
      <4>2. old \in [history: Seq(Nat), present: SUBSET Items, cancelled: SUBSET Requests]
        BY <4>1 DEF BoardState, Seen
      <4> QED BY <2>6, <4>2, ViewAssumption DEF Visible
    <3>3. /\ old.cancelled \subseteq new.cancelled
          /\ old.present \ new.present = {}
          /\ Atomic!Extends(old.history, new.history)
      BY <3>1 DEF Carries, Seen
    <3>4. Atomic!Transaction
      <4> HIDE DEF old, new
      <4> QED BY <2>4, <3>2, <3>3 DEF Atomic!Transaction, Atomic!Extends
    <3> QED BY <2>2, <3>4 DEF Atomic!Next
  <2> QED BY <2>5, <2>6
<1>12. ~SweepRead(w) /\ ~SweepWrite(w)
  BY DEF SweepRead, SweepWrite, At, AtomicInvariant, NoSweeps
<1> QED BY <1>3, <1>4, <1>5, <1>6, <1>7, <1>8, <1>9, <1>10, <1>11, <1>12 DEF Persisting

LEMMA CrashingCarried ==
    ASSUME TypeInvariant, AtomicInvariant, TornWrites = FALSE, NEW w \in Writers, Crashing(w)
    PROVE  AtomicInvariant' /\ Visible' = Visible
<1>1. Release(w) /\ UNCHANGED <<stateFile, cold>>
  BY DEF Crashing, Crash, CrashTearingLog, CrashTearingCold, CrashRestoring, files
<1>2. /\ pc'[w] = "idle" /\ cancelling'[w] = None
      /\ \A v \in Writers \ {w} :
             pc'[v] = pc[v] /\ mem'[v] = mem[v] /\ cancelling'[v] = cancelling[v]
  BY <1>1 DEF Release, Goto, Hold, TypeInvariant, TypeOK, LockType, ProcessType
<1> QED BY <1>1, <1>2, QuietCarried

LEMMA LoseCarried ==
    ASSUME TypeInvariant, AtomicInvariant, Lose
    PROVE  AtomicInvariant' /\ Atomic!Next
<1>1. ~Readable' /\ UNCHANGED <<pc, cancelling>>
  BY DEF Lose, Readable, local
<1>2. WholeLines'
  BY DEF Lose, AtomicInvariant, WholeLines
<1>3. NoSweeps' /\ Recovering' /\ Carried'
  BY <1>1 DEF AtomicInvariant, NoSweeps, Recovering, Carried
<1>4. Visible' = Absent
  BY <1>1 DEF Visible
<1> QED BY <1>2, <1>3, <1>4 DEF AtomicInvariant, Atomic!Next, Atomic!Lose

(***************************************************************************)
(* However many processes die between two writes and whatever files are    *)
(* lost, readers see one value that changes by whole transactions: events  *)
(* behind all earlier ones, no record gone that was not cancelled          *)
(* (locked_state; _append_cold before the records leave the hot board and  *)
(* os.replace of state.json last).                                         *)
(***************************************************************************)
THEOREM ImplementsAtomicBoard ==
    ASSUME TornWrites = FALSE, MaxCancels = 0
    PROVE  Spec => IsAtomicBoard
<1>1. Init => AtomicInvariant /\ Atomic!Init
  <2> SUFFICES ASSUME Init PROVE AtomicInvariant /\ Atomic!Init
    OBVIOUS
  <2>1. WholeLines /\ NoSweeps /\ Recovering /\ Carried
    BY DEF Init, WholeLines, NoSweeps, Recovering, Carried, Restoring, Holding, Writing
  <2>2. Visible = Absent
    BY DEF Init, Visible, Readable
  <2> QED BY <2>1, <2>2 DEF AtomicInvariant, Atomic!Init
<1>2. TypeInvariant /\ AtomicInvariant /\ [Next]_vars
      => AtomicInvariant' /\ [Atomic!Next]_Visible
  <2> SUFFICES ASSUME TypeInvariant, AtomicInvariant, [Next]_vars
               PROVE  AtomicInvariant' /\ [Atomic!Next]_Visible
    OBVIOUS
  <2>1. CASE Lose
    BY <2>1, LoseCarried
  <2>2. ASSUME NEW w \in Writers, Loading(w) \/ Body(w) \/ Persisting(w) \/ Crashing(w)
        PROVE  AtomicInvariant' /\ [Atomic!Next]_Visible
    BY <2>2, LoadingCarried, BodyCarried, PersistingCarried, CrashingCarried
  <2>3. CASE UNCHANGED vars
    <3>1. UNCHANGED <<stateFile, cold, pc, mem, cancelling>>
      BY <2>3 DEF vars, files, local
    <3>2. Visible' = Visible /\ Readable' = Readable /\ ColdItems' = ColdItems
      BY <3>1, SameView
    <3>3. AtomicInvariant'
      BY <3>1, <3>2 DEF AtomicInvariant, WholeLines, NoSweeps, Recovering, Carried,
                        Carries, Seen, Atomic!Extends
    <3> QED BY <3>2, <3>3
  <2> QED BY <2>1, <2>2, <2>3 DEF Next
<1> QED BY <1>1, <1>2, TypeInvariantHolds, PTL DEF Spec, IsAtomicBoard, Atomic!Spec
=============================================================================
