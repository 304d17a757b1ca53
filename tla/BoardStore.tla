---------------------------- MODULE BoardStore ----------------------------
(***************************************************************************)
(* The durable board of harness/board.py: what locked_state() does to the  *)
(* files under .harness/board and to the backups kept outside it.          *)
(*                                                                         *)
(* A process takes the exclusive flock, loads state.json (or recovers it), *)
(* mutates it in memory, then writes, in this order: the new events to     *)
(* events.jsonl, the archived records to archive/*.jsonl, a periodic       *)
(* backup, and last state.json by an atomic replace.  It may die between   *)
(* any two of those writes; the operating system then drops its lock.      *)
(*                                                                         *)
(* Events are numbered 1, 2, ...; event n of a board state is identified   *)
(* by hist[n], a stamp no other event ever gets, so that two different     *)
(* events written with the same number can be told apart.  A record (a     *)
(* review request or an agent) is content-addressed the same way: its      *)
(* version is the stamp of the event that last changed it, 0 for none.     *)
(* BOARD.md, a rendering of the state, and the trimming of the in-memory   *)
(* event window, which comes after every event was exported, are left out. *)
(***************************************************************************)
EXTENDS Naturals, Sequences, FiniteSets

CONSTANTS
    Writers,        \* processes that call locked_state
    Requests,       \* review requests: archived ones stay listed in an index
    Agents,         \* agents: an archived one can come back to the hot board
    None,           \* no lock holder, no record
    Absent,         \* state.json is not there
    Corrupt,        \* state.json does not parse
    BackupEvery,    \* BOARD_BACKUP_EVERY_EVENTS
    Keep,           \* BOARD_BACKUP_KEEP
    MaxPerTxn,      \* events one transaction may record
    MaxStamps,      \* bound: events ever created
    MaxCrashes,     \* bound: process deaths inside a transaction
    MaxLosses,      \* bound: times the board's files are lost or damaged
    MaxCancels,     \* bound: tasks the owner cancels
    TornWrites      \* whether a death may leave half a line behind

Items == Requests \cup Agents

ASSUME BoardStoreAssumption ==
    /\ BackupEvery \in Nat \ {0} /\ Keep \in Nat \ {0}
    /\ MaxPerTxn \in Nat \ {0} /\ MaxStamps \in Nat
    /\ MaxCrashes \in Nat /\ MaxLosses \in Nat /\ MaxCancels \in Nat
    /\ TornWrites \in BOOLEAN
    /\ None \notin Writers /\ None \notin Items
    /\ Requests \cap Agents = {}

VARIABLES
    lock,           \* the holder of board/.lock
    pc,             \* where each process is inside locked_state
    mem,            \* the state dict each process holds
    cancelling,     \* the record of the task cancel_task is cancelling
    sweep,          \* the archive cancel_task is about to write back
    stateFile,      \* state.json
    log,            \* events.jsonl, a sequence of lines
    cold,           \* archive/*.jsonl, a sequence of lines
    backups,        \* backup directories, by the event number that names them
    peak,           \* ghost: the longest history ever committed
    stamps,         \* bound: events created so far
    crashes, losses, cancels \* bounds: how many so far

files == <<stateFile, log, cold, backups>>
ghosts == <<peak>>
local == <<cancelling, sweep>>
bounds == <<stamps, crashes, losses, cancels>>
vars == <<lock, pc, mem, local, files, ghosts, bounds>>

(***************************************************************************)
(* Board states and file lines.                                            *)
(***************************************************************************)
BoardState ==
    [hist: Seq(Nat),            \* the events, by number: next_event is one more
     exported: Nat,             \* last_event_exported
     hot: [Items -> Nat],       \* qa_requests and agents
     done: SUBSET Items,        \* terminal history: may move to the archive
     cancelled: SUBSET Requests, \* cancelled_tasks
     wanted: SUBSET Agents,     \* an owner direction waits for this agent
     index: [Items -> Nat],     \* qa_request_index; for agents only a ghost
     backupAt: Nat]             \* _last_backup_event

InitialState ==
    [hist |-> <<>>, exported |-> 0,
     hot |-> [i \in Items |-> 0], done |-> {}, cancelled |-> {}, wanted |-> {},
     index |-> [i \in Items |-> 0], backupAt |-> 0]

ASSUME FileAssumption ==
    Absent \notin BoardState /\ Corrupt \notin BoardState /\ Absent # Corrupt

NextEvent(s) == Len(s.hist) + 1

\* A line of events.jsonl.  Number 0 stands for a line that does not parse:
\* half a line, still open at its end, or two lines run together.
EventLine(n, id) == [seq |-> n, id |-> id]
HalfEvent    == EventLine(0, 0)
GarbledEvent == EventLine(0, 1)

\* A line of the archive, in the same way.
ItemLine(i, v) == [item |-> i, ver |-> v]
HalfItem    == ItemLine(None, 0)
GarbledItem == ItemLine(None, 1)

Lines == [seq: Nat, id: Nat]
ColdLines == [item: Items \cup {None}, ver: Nat]

\* open("a") and write: what follows half a line lands on that same line.
AppendLine(file, line, half, garbled) ==
    IF file # <<>> /\ file[Len(file)] = half
    THEN [file EXCEPT ![Len(file)] = garbled]
    ELSE Append(file, line)

\* The last line that carries event number n has stamp id.
LatestIs(lines, n, id) ==
    \E k \in DOMAIN lines :
        /\ lines[k] = EventLine(n, id)
        /\ \A j \in DOMAIN lines : j > k => lines[j].seq # n

LastSequence == CHOOSE n \in {0} \cup {log[k].seq : k \in DOMAIN log} :
                    \A k \in DOMAIN log : log[k].seq <= n

ColdItems == {cold[k].item : k \in DOMAIN cold} \ {None}
ColdEntry(i) == CHOOSE k \in DOMAIN cold : cold[k].item = i
ColdVersion(i) == cold[ColdEntry(i)].ver

\* The archive without the unreadable lines and those of record i; a line
\* that is left out stays here as an unreadable one, which readers skip.
Without(i) ==
    [k \in DOMAIN cold |-> IF cold[k].item \in {None, i} THEN GarbledItem ELSE cold[k]]

(***************************************************************************)
(* Backups.                                                                *)
(***************************************************************************)
Usable == {b \in DOMAIN backups : backups[b].state # Absent}
NewestUsable == CHOOSE b \in Usable : \A c \in Usable : c <= b

\* The Keep highest-named directories stay, complete or not.
Pruned(dirs) ==
    [b \in {x \in DOMAIN dirs : Cardinality({y \in DOMAIN dirs : y > x}) < Keep}
        |-> dirs[b]]

WithBackup(name, lines, state) ==
    [b \in DOMAIN backups \cup {name} |->
        IF b = name THEN [log |-> lines, state |-> state] ELSE backups[b]]

(***************************************************************************)
(* The file system before the first process starts.                        *)
(***************************************************************************)
Init ==
    /\ lock = None
    /\ pc = [w \in Writers |-> "idle"]
    /\ mem = [w \in Writers |-> InitialState]
    /\ cancelling = [w \in Writers |-> None] /\ sweep = [w \in Writers |-> <<>>]
    /\ stateFile = Absent /\ log = <<>> /\ cold = <<>>
    /\ backups = [b \in {} |-> Absent]
    /\ peak = <<>>
    /\ stamps = 0 /\ crashes = 0 /\ losses = 0 /\ cancels = 0

At(w, label) == pc[w] = label
Goto(w, label) == pc' = [pc EXCEPT ![w] = label]
Hold(w, s) == mem' = [mem EXCEPT ![w] = s]

Free(w) == lock' = IF lock = w THEN None ELSE lock

\* The process leaves locked_state without a result: its dict is gone.
Release(w) ==
    /\ Free(w) /\ Goto(w, "idle") /\ Hold(w, InitialState)
    /\ cancelling' = [cancelling EXCEPT ![w] = None]
    /\ sweep' = [sweep EXCEPT ![w] = <<>>]

(***************************************************************************)
(* fcntl.flock(LOCK_EX).  Mutant: the writer does not wait for the lock.   *)
(***************************************************************************)
AcquireBug(w) ==
    /\ At(w, "idle")
    /\ lock' = w /\ Goto(w, "load")
    /\ UNCHANGED <<mem, files, ghosts, bounds, local>>

Acquire(w) ==
    /\ At(w, "idle") /\ lock = None
    /\ lock' = w /\ Goto(w, "load")
    /\ UNCHANGED <<mem, files, ghosts, bounds, local>>

(***************************************************************************)
(* _load_or_recover_state                                                  *)
(***************************************************************************)
LoadState(w) ==
    /\ At(w, "load") /\ stateFile \notin {Absent, Corrupt}
    /\ Hold(w, stateFile) /\ Goto(w, "edit")
    /\ UNCHANGED <<lock, files, ghosts, bounds, local>>

\* _recover_from_backup returns the newest backup's state ...
LoadBackup(w) ==
    /\ At(w, "load") /\ stateFile \in {Absent, Corrupt} /\ Usable # {}
    /\ Hold(w, backups[NewestUsable].state) /\ Goto(w, "restore")
    /\ UNCHANGED <<lock, files, ghosts, bounds, local>>

\* ... after it copied first events.jsonl, then state.json, where missing.
RestoreLog(w) ==
    /\ At(w, "restore")
    /\ log' = IF log = <<>> THEN backups[NewestUsable].log ELSE log
    /\ Goto(w, "restorestate")
    /\ UNCHANGED <<lock, mem, stateFile, cold, backups, ghosts, bounds, local>>

RestoreState(w) ==
    /\ At(w, "restorestate")
    /\ stateFile' = IF stateFile = Absent THEN mem[w] ELSE stateFile
    /\ Goto(w, "edit")
    /\ UNCHANGED <<lock, mem, log, cold, backups, ghosts, bounds, local>>

\* _continue_from_log: number on from the log, whose events the state does
\* not hold (stamp 0).
LoadLog(w) ==
    /\ At(w, "load") /\ stateFile \in {Absent, Corrupt} /\ Usable = {}
    /\ log # <<>>
    /\ Hold(w, [InitialState EXCEPT !.hist = [n \in 1..LastSequence |-> 0],
                                    !.exported = LastSequence])
    /\ Goto(w, "edit")
    /\ UNCHANGED <<lock, files, ghosts, bounds, local>>

LoadNothing(w) ==
    /\ At(w, "load") /\ stateFile \in {Absent, Corrupt} /\ Usable = {}
    /\ log = <<>>
    /\ Hold(w, InitialState) /\ Goto(w, "edit")
    /\ UNCHANGED <<lock, files, ghosts, bounds, local>>

(***************************************************************************)
(* The body of the with statement.  Every change records one event, which  *)
(* takes the next number.                                                  *)
(***************************************************************************)
Recorded(w) == [mem[w] EXCEPT !.hist = Append(@, stamps + 1)]

CanRecord(w) ==
    /\ At(w, "edit") /\ stamps < MaxStamps
    /\ Len(mem[w].hist) - mem[w].exported < MaxPerTxn

Recording(w, s) ==
    /\ Hold(w, s) /\ stamps' = stamps + 1
    /\ UNCHANGED <<lock, pc, files, ghosts, crashes, losses, cancels, local>>

\* A new request or agent, or a change of one that is on the hot board.
ChangeItem(w, i) ==
    /\ CanRecord(w)
    /\ mem[w].hot[i] # 0 \/ (mem[w].index[i] = 0 /\ i \notin mem[w].cancelled)
    /\ Recording(w, [Recorded(w) EXCEPT !.hot[i] = stamps + 1])

\* A request ends in an accepted task; an agent goes inactive.
FinishItem(w, i) ==
    /\ CanRecord(w)
    /\ mem[w].hot[i] # 0 /\ i \notin mem[w].done
    /\ Recording(w, [Recorded(w) EXCEPT !.hot[i] = stamps + 1, !.done = @ \cup {i}])

\* The owner writes to a Delivery agent's session, which may have ended, or
\* that direction is consumed or handed to a successor.
DirectOwner(w, a) ==
    /\ CanRecord(w)
    /\ mem[w].hot[a] # 0 \/ mem[w].index[a] # 0
    /\ Recording(w, [Recorded(w) EXCEPT !.wanted =
                        IF a \in @ THEN @ \ {a} ELSE @ \cup {a}])

\* cancel_task removes the records of an unfinished task.
Cancel(w, q) ==
    /\ CanRecord(w) /\ cancels < MaxCancels /\ cancelling[w] = None
    /\ mem[w].hot[q] # 0 /\ q \notin mem[w].done
    /\ Hold(w, [Recorded(w) EXCEPT !.hot[q] = 0, !.cancelled = @ \cup {q}])
    /\ stamps' = stamps + 1 /\ cancels' = cancels + 1
    /\ cancelling' = [cancelling EXCEPT ![w] = q]
    /\ UNCHANGED <<lock, pc, sweep, files, ghosts, crashes, losses>>

\* The body raised: nothing was written.
Abort(w) ==
    /\ At(w, "edit") /\ Release(w)
    /\ UNCHANGED <<files, ghosts, bounds>>

\* The body returned.  What equals the file is not written again.
EndBody(w) ==
    /\ At(w, "edit")
    /\ IF mem[w] = stateFile
       THEN Release(w)
       ELSE Goto(w, "export") /\ UNCHANGED <<lock, mem, local>>
    /\ UNCHANGED <<files, ghosts, bounds>>

(***************************************************************************)
(* _persist_visible_board: new events, one line each, to events.jsonl.     *)
(***************************************************************************)
ExportOneBug(w) ==      \* Mutant: the lines are not written.
    /\ At(w, "export") /\ mem[w].exported < Len(mem[w].hist)
    /\ Hold(w, [mem[w] EXCEPT !.exported = @ + 1])
    /\ UNCHANGED <<lock, pc, files, ghosts, bounds, local>>

ExportOne(w) ==
    /\ At(w, "export") /\ mem[w].exported < Len(mem[w].hist)
    /\ LET n == mem[w].exported + 1 IN
        /\ log' = AppendLine(log, EventLine(n, mem[w].hist[n]), HalfEvent, GarbledEvent)
        /\ Hold(w, [mem[w] EXCEPT !.exported = n])
    /\ UNCHANGED <<lock, pc, stateFile, cold, backups, ghosts, bounds, local>>

\* All exported.  _extract_cold_state first takes back from the archive the
\* agents an owner direction waits for.
ReturnAgents(w) ==
    /\ At(w, "export") /\ mem[w].exported = Len(mem[w].hist)
    /\ Hold(w, [mem[w] EXCEPT !.hot = [i \in Items |->
            IF mem[w].hot[i] = 0 /\ i \in mem[w].wanted /\ i \in ColdItems
            THEN ColdVersion(i) ELSE mem[w].hot[i]]])
    /\ Goto(w, "archive")
    /\ UNCHANGED <<lock, files, ghosts, bounds, local>>

\* Then finished records are appended to the archive and leave the board.
\* A record whose identity is in the archive already is not appended again.
Archivable(s) == {i \in s.done : s.hot[i] # 0 /\ i \notin s.wanted}

Archived(s, i) == [s EXCEPT !.index[i] = s.hot[i], !.hot[i] = 0]

ArchiveAlwaysBug(w, i) ==   \* Mutant: appended whatever the archive holds.
    /\ At(w, "archive") /\ i \in Archivable(mem[w])
    /\ cold' = AppendLine(cold, ItemLine(i, mem[w].hot[i]), HalfItem, GarbledItem)
    /\ Hold(w, Archived(mem[w], i))
    /\ UNCHANGED <<lock, pc, stateFile, log, backups, ghosts, bounds, local>>

ArchiveNeverBug(w, i) ==    \* Mutant: removed without being appended.
    /\ At(w, "archive") /\ i \in Archivable(mem[w])
    /\ Hold(w, Archived(mem[w], i))
    /\ UNCHANGED <<lock, pc, files, ghosts, bounds, local>>

Archive(w, i) ==
    /\ At(w, "archive") /\ i \in Archivable(mem[w])
    /\ cold' = IF i \in ColdItems THEN cold
               ELSE AppendLine(cold, ItemLine(i, mem[w].hot[i]), HalfItem, GarbledItem)
    /\ Hold(w, Archived(mem[w], i))
    /\ UNCHANGED <<lock, pc, stateFile, log, backups, ghosts, bounds, local>>

EndArchive(w) ==
    /\ At(w, "archive") /\ Archivable(mem[w]) = {}
    /\ Goto(w, "snapshot")
    /\ UNCHANGED <<lock, mem, files, ghosts, bounds, local>>

(***************************************************************************)
(* _snapshot_board: every BackupEvery events the log, then the state, are  *)
(* copied to a directory named by the next event; the oldest are pruned.   *)
(***************************************************************************)
BackupDueBug(s) == NextEvent(s) - s.backupAt > 2 * BackupEvery  \* Mutant.
BackupDue(s) == NextEvent(s) - s.backupAt >= BackupEvery

SkipSnapshot(w) ==
    /\ At(w, "snapshot") /\ (~BackupDue(mem[w]) \/ log = <<>>)
    /\ Hold(w, [mem[w] EXCEPT !.backupAt =
                    IF BackupDue(mem[w]) THEN NextEvent(mem[w]) ELSE @])
    /\ Goto(w, "commit")
    /\ UNCHANGED <<lock, files, ghosts, bounds, local>>

\* A directory of that name left by a process that died keeps its state.
SnapshotLog(w) ==
    /\ At(w, "snapshot") /\ BackupDue(mem[w]) /\ log # <<>>
    /\ LET n == NextEvent(mem[w]) IN
        /\ Hold(w, [mem[w] EXCEPT !.backupAt = n])
        /\ backups' = WithBackup(n, log, IF n \in DOMAIN backups
                                         THEN backups[n].state ELSE Absent)
    /\ Goto(w, "snapstate")
    /\ UNCHANGED <<lock, stateFile, log, cold, ghosts, bounds, local>>

SnapshotState(w) ==
    /\ At(w, "snapstate")
    /\ LET n == NextEvent(mem[w]) IN
        backups' = WithBackup(n, backups[n].log, mem[w])
    /\ Goto(w, "prune")
    /\ UNCHANGED <<lock, mem, stateFile, log, cold, ghosts, bounds, local>>

Prune(w) ==
    /\ At(w, "prune")
    /\ backups' = Pruned(backups)
    /\ Goto(w, "commit")
    /\ UNCHANGED <<lock, mem, stateFile, log, cold, ghosts, bounds, local>>

(***************************************************************************)
(* os.replace(state.json.tmp, state.json), then the lock is released.      *)
(***************************************************************************)
Commit(w) ==
    /\ At(w, "commit")
    /\ stateFile' = mem[w]
    /\ peak' = IF Len(mem[w].hist) > Len(peak) THEN mem[w].hist ELSE peak
    /\ Free(w) /\ Hold(w, InitialState)
    /\ Goto(w, IF cancelling[w] = None THEN "idle" ELSE "sweepread")
    /\ UNCHANGED <<log, cold, backups, bounds, local>>

(***************************************************************************)
(* cancel_task, after its transaction, rewrites the archive without the    *)
(* cancelled task's records: it reads the file, then replaces it, and      *)
(* holds no lock while it does.                                            *)
(***************************************************************************)
SweepRead(w) ==
    /\ At(w, "sweepread")
    /\ sweep' = [sweep EXCEPT ![w] = Without(cancelling[w])]
    /\ Goto(w, "sweepwrite")
    /\ UNCHANGED <<lock, mem, cancelling, files, ghosts, bounds>>

SweepWrite(w) ==
    /\ At(w, "sweepwrite")
    /\ cold' = sweep[w]
    /\ Release(w)
    /\ UNCHANGED <<stateFile, log, backups, ghosts, bounds>>

(***************************************************************************)
(* Faults.                                                                 *)
(***************************************************************************)
\* The process dies between two writes.
Crash(w) ==
    /\ ~At(w, "idle") /\ crashes < MaxCrashes
    /\ crashes' = crashes + 1
    /\ Release(w)
    /\ UNCHANGED <<files, ghosts, stamps, losses, cancels>>

\* The process dies in the middle of a line of one of the appended files.
CrashTearingLog(w) ==
    /\ TornWrites /\ At(w, "export") /\ mem[w].exported < Len(mem[w].hist)
    /\ crashes < MaxCrashes /\ crashes' = crashes + 1
    /\ log' = AppendLine(log, HalfEvent, HalfEvent, HalfEvent)
    /\ Release(w)
    /\ UNCHANGED <<stateFile, cold, backups, ghosts, stamps, losses, cancels>>

CrashTearingCold(w) ==
    /\ TornWrites /\ At(w, "archive") /\ Archivable(mem[w]) \ ColdItems # {}
    /\ crashes < MaxCrashes /\ crashes' = crashes + 1
    /\ cold' = AppendLine(cold, HalfItem, HalfItem, HalfItem)
    /\ Release(w)
    /\ UNCHANGED <<stateFile, log, backups, ghosts, stamps, losses, cancels>>

\* Copying the log back is not atomic: the process dies half way.
CrashRestoring(w) ==
    /\ At(w, "restore") /\ log = <<>>
    /\ crashes < MaxCrashes /\ crashes' = crashes + 1
    /\ \E n \in 1..Len(backups[NewestUsable].log) :
            log' = SubSeq(backups[NewestUsable].log, 1, n)
    /\ Release(w)
    /\ UNCHANGED <<stateFile, cold, backups, ghosts, stamps, losses, cancels>>

\* External: .harness is deleted, or state.json alone is, or it is damaged.
Lose ==
    /\ lock = None /\ losses < MaxLosses /\ losses' = losses + 1
    /\ \/ stateFile' = Absent /\ log' = <<>> /\ cold' = <<>>
       \/ stateFile # Absent /\ stateFile' \in {Absent, Corrupt} /\ UNCHANGED <<log, cold>>
    /\ UNCHANGED <<lock, pc, mem, local, backups, ghosts, stamps, crashes, cancels>>

(***************************************************************************)
(* The specification.                                                      *)
(***************************************************************************)
Body(w) ==
    \/ \E i \in Items : ChangeItem(w, i) \/ FinishItem(w, i)
    \/ \E a \in Agents : DirectOwner(w, a)
    \/ \E q \in Requests : Cancel(w, q)
    \/ Abort(w) \/ EndBody(w)

Loading(w) ==
    \/ Acquire(w) \/ LoadState(w) \/ LoadBackup(w) \/ RestoreLog(w)
    \/ RestoreState(w) \/ LoadLog(w) \/ LoadNothing(w)

Persisting(w) ==
    \/ ExportOne(w) \/ ReturnAgents(w)
    \/ (\E i \in Items : Archive(w, i)) \/ EndArchive(w)
    \/ SkipSnapshot(w) \/ SnapshotLog(w) \/ SnapshotState(w) \/ Prune(w)
    \/ Commit(w) \/ SweepRead(w) \/ SweepWrite(w)

Crashing(w) ==
    \/ Crash(w) \/ CrashTearingLog(w) \/ CrashTearingCold(w) \/ CrashRestoring(w)

Next ==
    \/ \E w \in Writers : Loading(w) \/ Body(w) \/ Persisting(w) \/ Crashing(w)
    \/ Lose

Spec == Init /\ [][Next]_vars

(***************************************************************************)
(* Properties.                                                             *)
(***************************************************************************)
Labels == {"idle", "load", "restore", "restorestate", "edit", "export", "archive",
           "snapshot", "snapstate", "prune", "commit", "sweepread", "sweepwrite"}

Outside == {"idle", "sweepread", "sweepwrite"}

\* Types; and a process is between the flock and its release exactly when it
\* is the holder (locked_state's flock).
LockType ==
    /\ lock \in Writers \cup {None}
    /\ pc \in [Writers -> Labels]
    /\ \A w \in Writers : pc[w] \notin Outside <=> lock = w

ProcessType ==
    /\ mem \in [Writers -> BoardState]
    /\ cancelling \in [Writers -> Requests \cup {None}]
    /\ sweep \in [Writers -> Seq(ColdLines)]

BackupType ==
    /\ DOMAIN backups \subseteq Nat
    /\ \A b \in DOMAIN backups :
        /\ backups[b].log \in Seq(Lines)
        /\ backups[b].state \in BoardState \cup {Absent}

FileType ==
    /\ stateFile \in BoardState \cup {Absent, Corrupt}
    /\ log \in Seq(Lines) /\ cold \in Seq(ColdLines)

GhostType ==
    /\ peak \in Seq(Nat)
    /\ stamps \in Nat /\ crashes \in Nat /\ losses \in Nat /\ cancels \in Nat

TypeOK == LockType /\ ProcessType /\ FileType /\ BackupType /\ GhostType

Readable == stateFile \notin {Absent, Corrupt}

\* Every event of a board state that counts as exported is in the log, and
\* is the last line of its number: what a process that died left there under
\* the same number comes before it.
LogHolds(lines, s) ==
    \A n \in 1..s.exported : s.hist[n] = 0 \/ LatestIs(lines, n, s.hist[n])

\* The durable log is complete for the committed board (_event: "the durable
\* events.jsonl still receives every one through the usual export").
LogComplete == Readable => LogHolds(log, stateFile)

\* No record is in the archive twice, whoever died after appending it.
ColdOnce ==
    \A j, k \in DOMAIN cold :
        cold[j].item = cold[k].item /\ cold[j].item # None => j = k

\* Whatever is lost outside the backups, a process that opens the board finds
\* all but the last BackupEvery events ever committed.
RecoveryBounded ==
    \A w \in Writers : pc[w] = "edit" =>
        Len(peak) - Len(mem[w].hist) < BackupEvery

(***************************************************************************)
(* The board as its readers see it: a record is there when it is on the    *)
(* hot board, or listed as archived and in the archive.                    *)
(***************************************************************************)
Seen(s) == {i \in Items : s.hot[i] # 0 \/ (s.index[i] # 0 /\ i \in ColdItems)}

Visible == IF Readable THEN [history |-> stateFile.hist, present |-> Seen(stateFile),
                             cancelled |-> stateFile.cancelled]
           ELSE Absent

\* A view of a board is never mistaken for its absence.
ASSUME ViewAssumption ==
    Absent \notin [history: Seq(Nat), present: SUBSET Items, cancelled: SUBSET Requests]

Atomic == INSTANCE AtomicBoard WITH board <- Visible, Gone <- Absent

\* The files, the archive and the lock together are one value that changes as
\* a whole, whoever dies between two writes (locked_state, _append_cold before
\* the records leave the hot board, os.replace last).
IsAtomicBoard == Atomic!Spec
=============================================================================
