------------------------- MODULE SubtaskGraphProofs -------------------------
(***************************************************************************)
(* Proofs about the subtasks of a task (SubtaskGraph).                     *)
(*                                                                         *)
(* The task branch only grows and a request keeps what it reviewed, so     *)
(* what a commit of the branch once held of a request it holds for good.   *)
(***************************************************************************)
EXTENDS SubtaskGraph, WellFoundedInduction, TLAPS

RequestStatuses == {"open", "passed", "failed", "invalidated", "withdrawn"}

Item == [status : Statuses, pipe : Pipelines, deps : SUBSET Subtasks, owned : Scopes,
         base : Nat, active : Nat, chunk : {"none", "open", "passed"}]
Asked == [sub : Subtasks, phase : {"chunk", "acceptance"}, tree : Trees, base : Nat,
          current : BOOLEAN, integrated : Nat, status : RequestStatuses]
Fold == [request : Nat, prev : Nat, target : Nat, done : BOOLEAN, held : BOOLEAN]

\* The records of each list are of their type, and what they point at is there.
ItemsFit ==
    /\ DOMAIN items \subseteq Subtasks /\ items \in [DOMAIN items -> Item]
    /\ \A s \in DOMAIN items : /\ items[s].deps \subseteq DOMAIN items
                               /\ items[s].base \in 1..Len(hist)
                               /\ items[s].active \in 0..Len(requests)
RequestsFit ==
    /\ requests \in Seq(Asked)
    /\ \A r \in DOMAIN requests : /\ requests[r].sub \in DOMAIN items
                                  /\ requests[r].base \in 1..Len(hist)
                                  /\ requests[r].integrated \in 0..Len(hist)
BranchesFit ==
    /\ branch \in [Subtasks -> Trees] /\ at \in [Subtasks -> Nat]
    /\ \A s \in Subtasks : at[s] \in 0..Len(hist)
HistoryFits ==
    /\ hist \in Seq(Trees) /\ Len(hist) # 0
    /\ work \in 1..Len(hist) /\ edited \in BOOLEAN
JournalFits ==
    /\ journal \in Seq(Fold)
    /\ \A j \in DOMAIN journal : /\ journal[j].request \in DOMAIN requests
                                 /\ journal[j].prev \in 1..Len(hist)
                                 /\ journal[j].target \in 0..Len(hist)
SpentFits == spent \in [Kinds -> Nat] /\ \A k \in Kinds : spent[k] <= Budget[k]

Base == ItemsFit /\ RequestsFit /\ BranchesFit /\ HistoryFits /\ JournalFits /\ SpentFits

\* What no step takes back: the commits of the task branch, what a subtask
\* depends on and owns, what a request reviewed, what a fold moved.
ItemsKept ==
    /\ DOMAIN items \subseteq DOMAIN items'
    /\ \A s \in DOMAIN items : items'[s].deps = items[s].deps /\ items'[s].owned = items[s].owned
HistoryKept == Len(hist) <= Len(hist') /\ \A n \in 1..Len(hist) : hist'[n] = hist[n]
RequestsKept ==
    /\ Len(requests) <= Len(requests')
    /\ \A r \in 1..Len(requests) :
          /\ requests'[r].sub = requests[r].sub /\ requests'[r].phase = requests[r].phase
          /\ requests'[r].tree = requests[r].tree /\ requests'[r].base = requests[r].base
JournalKept ==
    /\ Len(journal) <= Len(journal')
    /\ \A j \in 1..Len(journal) :
          /\ journal'[j].request = journal[j].request /\ journal'[j].prev = journal[j].prev
          /\ journal'[j].target = journal[j].target
Kept == ItemsKept /\ HistoryKept /\ RequestsKept /\ JournalKept

(***************************************************************************)
(* Records that change in a few fields, sequences that change in place.    *)
(***************************************************************************)
LEMMA RequestSettled ==
    ASSUME NEW a \in Asked, NEW status \in RequestStatuses
    PROVE  /\ [a EXCEPT !.status = status] \in Asked
           /\ [a EXCEPT !.status = status].sub = a.sub
           /\ [a EXCEPT !.status = status].phase = a.phase
           /\ [a EXCEPT !.status = status].tree = a.tree
           /\ [a EXCEPT !.status = status].base = a.base
           /\ [a EXCEPT !.status = status].current = a.current
           /\ [a EXCEPT !.status = status].integrated = a.integrated
           /\ [a EXCEPT !.status = status].status = status
  BY DEF Asked

LEMMA RequestAged ==
    ASSUME NEW a \in Asked
    PROVE  /\ [a EXCEPT !.current = FALSE] \in Asked
           /\ [a EXCEPT !.current = FALSE].sub = a.sub
           /\ [a EXCEPT !.current = FALSE].phase = a.phase
           /\ [a EXCEPT !.current = FALSE].tree = a.tree
           /\ [a EXCEPT !.current = FALSE].base = a.base
           /\ [a EXCEPT !.current = FALSE].integrated = a.integrated
           /\ [a EXCEPT !.current = FALSE].status = a.status
  BY DEF Asked

LEMMA RequestIntegrated ==
    ASSUME NEW a \in Asked, NEW n \in Nat
    PROVE  /\ [a EXCEPT !.integrated = n] \in Asked
           /\ [a EXCEPT !.integrated = n].sub = a.sub
           /\ [a EXCEPT !.integrated = n].phase = a.phase
           /\ [a EXCEPT !.integrated = n].tree = a.tree
           /\ [a EXCEPT !.integrated = n].base = a.base
           /\ [a EXCEPT !.integrated = n].integrated = n
           /\ [a EXCEPT !.integrated = n].status = a.status
  BY DEF Asked

LEMMA RequestPassed ==
    ASSUME NEW a \in Asked, NEW n \in Nat
    PROVE  /\ [a EXCEPT !.integrated = n, !.status = "passed"] \in Asked
           /\ [a EXCEPT !.integrated = n, !.status = "passed"].sub = a.sub
           /\ [a EXCEPT !.integrated = n, !.status = "passed"].phase = a.phase
           /\ [a EXCEPT !.integrated = n, !.status = "passed"].tree = a.tree
           /\ [a EXCEPT !.integrated = n, !.status = "passed"].base = a.base
           /\ [a EXCEPT !.integrated = n, !.status = "passed"].integrated = n
           /\ [a EXCEPT !.integrated = n, !.status = "passed"].status = "passed"
  BY DEF Asked, RequestStatuses

LEMMA RowDone ==
    ASSUME NEW row \in Fold
    PROVE  /\ [row EXCEPT !.done = TRUE] \in Fold
           /\ [row EXCEPT !.done = TRUE].request = row.request
           /\ [row EXCEPT !.done = TRUE].prev = row.prev
           /\ [row EXCEPT !.done = TRUE].target = row.target
           /\ [row EXCEPT !.held = TRUE] \in Fold
           /\ [row EXCEPT !.held = TRUE].request = row.request
           /\ [row EXCEPT !.held = TRUE].prev = row.prev
           /\ [row EXCEPT !.held = TRUE].target = row.target
  BY DEF Fold

LEMMA ItemSettled ==
    ASSUME NEW i \in Item, NEW phase, NEW result \in {"open", "passed"}
    PROVE  /\ Settled(i, phase, result) \in Item
           /\ Settled(i, phase, result).deps = i.deps
           /\ Settled(i, phase, result).owned = i.owned
           /\ Settled(i, phase, result).base = i.base
           /\ Settled(i, phase, result).active = 0
           /\ Settled(i, phase, result).status = IF phase = "acceptance" THEN result ELSE i.status
           /\ Settled(i, phase, result).pipe = IF phase = "acceptance" /\ result = "passed"
                                               THEN "passed" ELSE "in_progress"
  BY DEF Item, Settled, Statuses, Pipelines

\* A list rewritten in place is a list of the same length.
LEMMA Rewritten ==
    ASSUME NEW S, NEW T, NEW s \in Seq(S), NEW f \in [DOMAIN s -> T]
    PROVE  f \in Seq(T) /\ Len(f) = Len(s) /\ DOMAIN f = DOMAIN s
  <1>1. DOMAIN s = 1..Len(s) /\ Len(s) \in Nat
    OBVIOUS
  <1>2. f \in [1..Len(s) -> T]
    BY <1>1
  <1> QED
    BY <1>1, <1>2

LEMMA ListKept ==
    ASSUME NEW S, NEW s \in Seq(S)
    PROVE  DOMAIN s = 1..Len(s) /\ Len(s) \in Nat
  OBVIOUS

LEMMA SpendStep ==
    ASSUME NEW k \in Kinds, Spend(k), SpentFits
    PROVE  SpentFits'
  <1> USE SubtaskAssumption
  <1>1. spent[k] < Budget[k] /\ spent' = [spent EXCEPT ![k] = @ + 1]
    BY DEF Spend
  <1>2. spent' \in [Kinds -> Nat]
    BY <1>1 DEF SpentFits
  <1>3. \A m \in Kinds : spent'[m] <= Budget[m]
    BY <1>1 DEF SpentFits
  <1> QED
    BY <1>2, <1>3 DEF SpentFits

(***************************************************************************)
(* One part of the state at a time: what a step has to do to each list for *)
(* the records to fit afterwards.                                          *)
(***************************************************************************)
LEMMA SameItems ==
    ASSUME ItemsFit, HistoryFits, HistoryFits', HistoryKept, RequestsFit, RequestsFit', RequestsKept,
           items' = items
    PROVE  ItemsFit' /\ ItemsKept
  <1>1. Len(hist) \in Nat /\ Len(hist') \in Nat /\ Len(requests) \in Nat /\ Len(requests') \in Nat
    BY DEF HistoryFits, RequestsFit
  <1>2. Len(hist) <= Len(hist') /\ Len(requests) <= Len(requests')
    BY DEF HistoryKept, RequestsKept
  <1>3. ASSUME NEW s \in DOMAIN items
        PROVE  /\ items[s].deps \subseteq DOMAIN items /\ items[s].base \in 1..Len(hist')
               /\ items[s].active \in 0..Len(requests')
    <2>1. /\ items[s].deps \subseteq DOMAIN items /\ items[s].base \in 1..Len(hist)
          /\ items[s].active \in 0..Len(requests)
      BY DEF ItemsFit
    <2> QED
      BY <1>1, <1>2, <2>1
  <1> QED
    BY <1>3 DEF ItemsFit, ItemsKept

LEMMA OneItem ==
    ASSUME ItemsFit, HistoryFits, HistoryFits', HistoryKept, RequestsFit, RequestsFit', RequestsKept,
           NEW s \in DOMAIN items, NEW i \in Item, items' = [items EXCEPT ![s] = i],
           i.deps = items[s].deps, i.owned = items[s].owned,
           i.base \in 1..Len(hist), i.active \in 0..Len(requests')
    PROVE  ItemsFit' /\ ItemsKept
  <1>1. Len(hist) \in Nat /\ Len(hist') \in Nat /\ Len(requests) \in Nat /\ Len(requests') \in Nat
    BY DEF HistoryFits, RequestsFit
  <1>2. Len(hist) <= Len(hist') /\ Len(requests) <= Len(requests')
    BY DEF HistoryKept, RequestsKept
  <1>3. items' \in [DOMAIN items -> Item] /\ DOMAIN items' = DOMAIN items
    BY DEF ItemsFit
  <1>4. ASSUME NEW t \in DOMAIN items
        PROVE  /\ items'[t].deps = items[t].deps /\ items'[t].owned = items[t].owned
               /\ items'[t].deps \subseteq DOMAIN items /\ items'[t].base \in 1..Len(hist')
               /\ items'[t].active \in 0..Len(requests')
    <2>1. /\ items[t].deps \subseteq DOMAIN items /\ items[t].base \in 1..Len(hist)
          /\ items[t].active \in 0..Len(requests)
      BY DEF ItemsFit
    <2>2. CASE t = s
      <3>1. items'[t] = i
        BY <2>2 DEF ItemsFit
      <3> QED
        BY <1>1, <1>2, <2>1, <2>2, <3>1
    <2>3. CASE t # s
      <3>1. items'[t] = items[t]
        BY <2>3 DEF ItemsFit
      <3> QED
        BY <1>1, <1>2, <2>1, <3>1
    <2> QED
      BY <2>2, <2>3
  <1> QED
    BY <1>3, <1>4 DEF ItemsFit, ItemsKept

LEMMA SameRequests ==
    ASSUME RequestsFit, ItemsFit, DOMAIN items \subseteq DOMAIN items', HistoryFits, HistoryFits',
           HistoryKept, requests' = requests
    PROVE  RequestsFit' /\ RequestsKept
  <1>1. Len(hist) \in Nat /\ Len(hist') \in Nat /\ Len(requests) \in Nat /\ Len(hist) <= Len(hist')
    BY DEF HistoryFits, RequestsFit, HistoryKept
  <1>2. ASSUME NEW r \in DOMAIN requests
        PROVE  /\ requests[r].sub \in DOMAIN items' /\ requests[r].base \in 1..Len(hist')
               /\ requests[r].integrated \in 0..Len(hist')
    <2>1. /\ requests[r].sub \in DOMAIN items /\ requests[r].base \in 1..Len(hist)
          /\ requests[r].integrated \in 0..Len(hist)
      BY DEF RequestsFit
    <2> QED
      BY <1>1, <2>1
  <1>3. requests' \in Seq(Asked)
    BY DEF RequestsFit
  <1>4. RequestsFit'
    BY <1>2, <1>3 DEF RequestsFit
  <1> QED
    BY <1>1, <1>4 DEF RequestsKept

\* The requests rewritten one by one, each keeping what it reviewed.
LEMMA RewrittenRequests ==
    ASSUME RequestsFit, ItemsFit, DOMAIN items \subseteq DOMAIN items', HistoryFits, HistoryFits',
           HistoryKept, requests' \in [DOMAIN requests -> Asked],
           \A r \in DOMAIN requests :
              /\ requests'[r].sub = requests[r].sub /\ requests'[r].phase = requests[r].phase
              /\ requests'[r].tree = requests[r].tree /\ requests'[r].base = requests[r].base
              /\ requests'[r].integrated \in 0..Len(hist')
    PROVE  RequestsFit' /\ RequestsKept /\ DOMAIN requests' = DOMAIN requests
  <1>1. Len(hist) \in Nat /\ Len(hist') \in Nat /\ Len(requests) \in Nat /\ Len(hist) <= Len(hist')
    BY DEF HistoryFits, RequestsFit, HistoryKept
  <1>2. /\ requests' \in Seq(Asked) /\ Len(requests') = Len(requests)
        /\ DOMAIN requests' = DOMAIN requests
    BY Rewritten DEF RequestsFit
  <1>3. ASSUME NEW r \in DOMAIN requests
        PROVE  /\ requests'[r].sub \in DOMAIN items' /\ requests'[r].base \in 1..Len(hist')
               /\ requests'[r].integrated \in 0..Len(hist')
    <2>1. requests[r].sub \in DOMAIN items /\ requests[r].base \in 1..Len(hist)
      BY DEF RequestsFit
    <2> QED
      BY <1>1, <2>1
  <1>4. RequestsFit'
    BY <1>2, <1>3 DEF RequestsFit
  <1>5. DOMAIN requests = 1..Len(requests)
    BY DEF RequestsFit
  <1> QED
    BY <1>1, <1>2, <1>4, <1>5 DEF RequestsKept

LEMMA SameBranches ==
    ASSUME BranchesFit, HistoryFits, HistoryFits', HistoryKept, branch' = branch, at' = at
    PROVE  BranchesFit'
  <1>1. Len(hist) \in Nat /\ Len(hist') \in Nat /\ Len(hist) <= Len(hist')
    BY DEF HistoryFits, HistoryKept
  <1>2. \A s \in Subtasks : at[s] \in 0..Len(hist')
    BY <1>1 DEF BranchesFit
  <1> QED
    BY <1>2 DEF BranchesFit

LEMMA SameHistory ==
    ASSUME HistoryFits, hist' = hist
    PROVE  HistoryKept
  <1>1. Len(hist) \in Nat
    BY DEF HistoryFits
  <1> QED
    BY <1>1 DEF HistoryKept

LEMMA SameJournal ==
    ASSUME JournalFits, HistoryFits, HistoryFits', HistoryKept, RequestsFit, RequestsFit', RequestsKept,
           journal' = journal
    PROVE  JournalFits' /\ JournalKept
  <1>1. /\ Len(hist) \in Nat /\ Len(hist') \in Nat /\ Len(hist) <= Len(hist')
        /\ Len(requests) \in Nat /\ Len(requests') \in Nat /\ Len(requests) <= Len(requests')
        /\ DOMAIN requests = 1..Len(requests) /\ DOMAIN requests' = 1..Len(requests')
    BY DEF HistoryFits, HistoryKept, RequestsFit, RequestsKept
  <1>2. ASSUME NEW j \in DOMAIN journal
        PROVE  /\ journal[j].request \in DOMAIN requests' /\ journal[j].prev \in 1..Len(hist')
               /\ journal[j].target \in 0..Len(hist')
    <2>1. /\ journal[j].request \in DOMAIN requests /\ journal[j].prev \in 1..Len(hist)
          /\ journal[j].target \in 0..Len(hist)
      BY DEF JournalFits
    <2> QED
      BY <1>1, <2>1
  <1>3. journal' \in Seq(Fold) /\ Len(journal) \in Nat
    BY DEF JournalFits
  <1>4. JournalFits'
    BY <1>2, <1>3 DEF JournalFits
  <1> QED
    BY <1>3, <1>4 DEF JournalKept

LEMMA GitSame ==
    ASSUME Base, UNCHANGED git
    PROVE  HistoryFits' /\ HistoryKept /\ BranchesFit'
  <1>1. hist' = hist /\ work' = work /\ edited' = edited /\ branch' = branch /\ at' = at
    BY DEF git
  <1>2. HistoryKept
    BY <1>1, SameHistory DEF Base
  <1>3. HistoryFits'
    BY <1>1 DEF HistoryFits, Base
  <1> QED
    BY <1>1, <1>2, <1>3, SameBranches DEF Base

LEMMA GitAssembled ==
    ASSUME Base, UNCHANGED git, ItemsFit', ItemsKept, RequestsFit', RequestsKept, SpentFits'
    PROVE  Base' /\ Kept
  <1>1. journal' = journal
    BY DEF git
  <1>2. HistoryFits' /\ HistoryKept /\ BranchesFit'
    BY GitSame
  <1>3. JournalFits' /\ JournalKept
    BY <1>1, <1>2, SameJournal DEF Base
  <1> QED
    BY <1>2, <1>3 DEF Base, Kept

(***************************************************************************)
(* The plan.                                                               *)
(***************************************************************************)
LEMMA RestructuredStep ==
    ASSUME RequestsFit, ItemsFit, DOMAIN items \subseteq DOMAIN items', HistoryFits, HistoryFits',
           HistoryKept, Restructured
    PROVE  /\ RequestsFit' /\ RequestsKept /\ DOMAIN requests' = DOMAIN requests
           /\ \A r \in DOMAIN requests : /\ requests'[r].status = requests[r].status
                                         /\ requests'[r].integrated = requests[r].integrated
  <1>1. requests' = [r \in DOMAIN requests |-> [requests[r] EXCEPT !.current = FALSE]]
    BY DEF Restructured
  <1>2. ASSUME NEW r \in DOMAIN requests
        PROVE  requests[r] \in Asked /\ requests[r].integrated \in 0..Len(hist)
    BY DEF RequestsFit
  <1>3. ASSUME NEW r \in DOMAIN requests
        PROVE  /\ requests'[r] \in Asked
               /\ requests'[r].sub = requests[r].sub /\ requests'[r].phase = requests[r].phase
               /\ requests'[r].tree = requests[r].tree /\ requests'[r].base = requests[r].base
               /\ requests'[r].integrated = requests[r].integrated
               /\ requests'[r].status = requests[r].status
    <2>1. requests'[r] = [requests[r] EXCEPT !.current = FALSE]
      BY <1>1
    <2> QED
      BY <1>2, <2>1, RequestAged
  <1>4. requests' \in [DOMAIN requests -> Asked]
    BY <1>1, <1>3
  <1>5. \A r \in DOMAIN requests : requests'[r].integrated \in 0..Len(hist')
    BY <1>2, <1>3 DEF HistoryFits, HistoryKept
  <1> QED
    BY <1>3, <1>4, <1>5, RewrittenRequests

LEMMA NewItem ==
    ASSUME NEW deps \in SUBSET Subtasks, NEW owned \in Scopes, NEW n \in Nat
    PROVE  [status |-> "open", pipe |-> "pending", deps |-> deps, owned |-> owned,
            base |-> n, active |-> 0, chunk |-> "none"] \in Item
  BY DEF Item, Statuses, Pipelines

\* What Declare makes of the plan.
LEMMA Declared ==
    ASSUME Base, NEW batch \in SUBSET (Subtasks \ DOMAIN items),
           NEW deps \in [batch -> SUBSET (batch \cup DOMAIN items)], NEW owned \in [batch -> Scopes],
           Declare(batch, deps, owned)
    PROVE  /\ DOMAIN items' = batch \cup DOMAIN items
           /\ \A s \in DOMAIN items : items'[s] = items[s]
           /\ \A s \in batch :
                items'[s] = [status |-> "open", pipe |-> "pending", deps |-> deps[s], owned |-> owned[s],
                             base |-> Tip, active |-> 0, chunk |-> "none"]
  BY DEF Declare

LEMMA DeclareFits ==
    ASSUME Base, NEW batch \in SUBSET (Subtasks \ DOMAIN items),
           NEW deps \in [batch -> SUBSET (batch \cup DOMAIN items)], NEW owned \in [batch -> Scopes],
           Declare(batch, deps, owned)
    PROVE  Base' /\ Kept
  <1>1. /\ DOMAIN items' = batch \cup DOMAIN items
        /\ \A s \in DOMAIN items : items'[s] = items[s]
        /\ \A s \in batch :
             items'[s] = [status |-> "open", pipe |-> "pending", deps |-> deps[s], owned |-> owned[s],
                          base |-> Tip, active |-> 0, chunk |-> "none"]
    BY Declared
  <1>2. /\ hist' = hist /\ work' = work /\ edited' = edited /\ journal' = journal /\ spent' = spent
        /\ Restructured
        /\ branch' = [s \in Subtasks |-> IF s \in batch THEN hist[Tip] ELSE branch[s]]
        /\ at' = [s \in Subtasks |-> IF s \in batch THEN Tip ELSE at[s]]
    BY DEF Declare
  <1>3. HistoryFits /\ ItemsFit /\ RequestsFit /\ BranchesFit /\ JournalFits /\ SpentFits
    BY DEF Base
  <1>4. HistoryFits' /\ HistoryKept /\ SpentFits'
    BY <1>2, <1>3, SameHistory DEF HistoryFits, SpentFits
  <1>5. RequestsFit' /\ RequestsKept /\ DOMAIN requests' = DOMAIN requests
    BY <1>1, <1>2, <1>3, <1>4, RestructuredStep
  <1>6. JournalFits' /\ JournalKept
    BY <1>2, <1>3, <1>4, <1>5, SameJournal
  <1>7. Tip \in 1..Len(hist) /\ Tip \in Nat /\ hist[Tip] \in Trees
    <2>1. Tip \in 1..Len(hist) /\ Tip \in Nat
      BY <1>3 DEF HistoryFits, Tip
    <2> QED
      BY <1>3, <2>1 DEF HistoryFits
  <1>8. BranchesFit'
    <2>1. branch' \in [Subtasks -> Trees]
      BY <1>2, <1>3, <1>7 DEF BranchesFit
    <2>2. at' \in [Subtasks -> Nat]
      BY <1>2, <1>3, <1>7 DEF BranchesFit
    <2>3. ASSUME NEW s \in Subtasks
          PROVE  at'[s] \in 0..Len(hist)
      <3>1. at[s] \in 0..Len(hist)
        BY <1>3 DEF BranchesFit
      <3>2. Tip \in 0..Len(hist)
        BY <1>7
      <3> QED
        BY <1>2, <3>1, <3>2
    <2> QED
      BY <1>2, <2>1, <2>2, <2>3 DEF BranchesFit
  <1>9. ASSUME NEW s \in batch
        PROVE  /\ items'[s] \in Item /\ items'[s].deps \subseteq DOMAIN items'
               /\ items'[s].base \in 1..Len(hist) /\ items'[s].active \in 0..Len(requests')
    <2>1. deps[s] \in SUBSET (batch \cup DOMAIN items) /\ owned[s] \in Scopes
      OBVIOUS
    <2>2. deps[s] \in SUBSET Subtasks
      BY <1>3, <2>1 DEF ItemsFit
    <2>3. items'[s] \in Item
      <3>1. items'[s] = [status |-> "open", pipe |-> "pending", deps |-> deps[s], owned |-> owned[s],
                         base |-> Tip, active |-> 0, chunk |-> "none"]
        BY <1>1
      <3>2. Tip \in Nat /\ deps[s] \in SUBSET Subtasks /\ owned[s] \in Scopes
        BY <1>7, <2>1, <2>2
      <3> QED
        BY <3>1, <3>2, NewItem
    <2>4. Len(requests') \in Nat
      BY <1>5 DEF RequestsFit
    <2> QED
      BY <1>1, <1>7, <2>1, <2>3, <2>4
  <1>10. ASSUME NEW s \in DOMAIN items
         PROVE  /\ items'[s] \in Item /\ items'[s].deps \subseteq DOMAIN items'
                /\ items'[s].base \in 1..Len(hist) /\ items'[s].active \in 0..Len(requests')
    <2>1. /\ items[s] \in Item /\ items[s].deps \subseteq DOMAIN items
          /\ items[s].base \in 1..Len(hist) /\ items[s].active \in 0..Len(requests)
      BY <1>3 DEF ItemsFit
    <2>2. Len(requests) \in Nat /\ Len(requests') \in Nat /\ Len(requests) <= Len(requests')
      BY <1>3, <1>5 DEF RequestsFit, RequestsKept
    <2> QED
      BY <1>1, <2>1, <2>2
  <1>11. ItemsFit' /\ ItemsKept
    <2>1. DOMAIN items' \subseteq Subtasks
      BY <1>1, <1>3 DEF ItemsFit
    <2>2. items' = [s \in DOMAIN items' |-> items'[s]]
      BY DEF Declare
    <2>3. items' \in [DOMAIN items' -> Item]
      BY <1>1, <1>9, <1>10, <2>2
    <2>4. ItemsFit'
      BY <1>1, <1>2, <1>9, <1>10, <2>1, <2>3 DEF ItemsFit
    <2> QED
      BY <1>1, <2>4 DEF ItemsKept
  <1> QED
    BY <1>4, <1>5, <1>6, <1>8, <1>11 DEF Base, Kept

LEMMA DeclareChunksFits ==
    ASSUME Base, NEW s \in DOMAIN items, DeclareChunks(s)
    PROVE  Base' /\ Kept
  <1> DEFINE i == [items[s] EXCEPT !.chunk = "open", !.status = "open", !.pipe = "pending", !.active = 0]
  <1>1. /\ UNCHANGED git /\ Restructured /\ Spend("split")
        /\ items' = [items EXCEPT ![s].chunk = "open", ![s].status = "open",
                                  ![s].pipe = "pending", ![s].active = 0]
    BY DEF DeclareChunks
  <1>2. items \in [DOMAIN items -> Item] /\ items[s] \in Item
    BY DEF Base, ItemsFit
  <1>3. items' = [items EXCEPT ![s] = i]
    BY <1>1, <1>2
  <1>4. i \in Item /\ i.deps = items[s].deps /\ i.owned = items[s].owned /\ i.base = items[s].base /\ i.active = 0
    BY <1>2 DEF Item, Statuses, Pipelines
  <1> HIDE DEF i
  <1>5. HistoryFits' /\ HistoryKept
    BY <1>1, GitSame
  <1>6. DOMAIN items' = DOMAIN items
    BY <1>3
  <1>7. RequestsFit' /\ RequestsKept
    BY <1>1, <1>5, <1>6, RestructuredStep DEF Base
  <1>8. items[s].base \in 1..Len(hist) /\ 0 \in 0..Len(requests')
    BY <1>7 DEF Base, ItemsFit, RequestsFit
  <1>9. ItemsFit' /\ ItemsKept
    BY <1>3, <1>4, <1>5, <1>7, <1>8, OneItem DEF Base
  <1>10. SpentFits'
    BY <1>1, SpendStep DEF Base, Kinds
  <1> QED
    BY <1>1, <1>7, <1>9, <1>10, GitAssembled

LEMMA SupersedeFits ==
    ASSUME Base, NEW s \in DOMAIN items, Supersede(s)
    PROVE  Base' /\ Kept
  <1> DEFINE i == [items[s] EXCEPT !.status = "superseded", !.pipe = "superseded"]
  <1>1. /\ UNCHANGED git /\ requests' = requests /\ spent' = spent
        /\ items' = [items EXCEPT ![s].status = "superseded", ![s].pipe = "superseded"]
    BY DEF Supersede
  <1>2. items \in [DOMAIN items -> Item] /\ items[s] \in Item
    BY DEF Base, ItemsFit
  <1>3. items' = [items EXCEPT ![s] = i]
    BY <1>1, <1>2
  <1>4. /\ i \in Item /\ i.deps = items[s].deps /\ i.owned = items[s].owned
        /\ i.base = items[s].base /\ i.active = items[s].active
    BY <1>2 DEF Item, Statuses, Pipelines
  <1> HIDE DEF i
  <1>5. HistoryFits' /\ HistoryKept
    BY <1>1, GitSame
  <1>6. DOMAIN items' = DOMAIN items
    BY <1>3
  <1>7. RequestsFit' /\ RequestsKept
    BY <1>1, <1>5, <1>6, SameRequests DEF Base
  <1>8. items[s].base \in 1..Len(hist) /\ items[s].active \in 0..Len(requests')
    BY <1>1 DEF Base, ItemsFit
  <1>9. ItemsFit' /\ ItemsKept
    BY <1>3, <1>4, <1>5, <1>7, <1>8, OneItem DEF Base
  <1>10. SpentFits'
    BY <1>1 DEF Base, SpentFits
  <1> QED
    BY <1>1, <1>7, <1>9, <1>10, GitAssembled

(***************************************************************************)
(* A set of naturals within bounds has a greatest element.                 *)
(***************************************************************************)
LEMMA GreatestIn ==
    ASSUME NEW n \in Nat, NEW S \in SUBSET (0..n), S # {}
    PROVE  Max(S) \in S /\ \A x \in S : Max(S) >= x
  <1> DEFINE below == {n - x : x \in S}
  <1>1. \A k \in below : k \in Nat
    OBVIOUS
  <1>2. below # {}
    <2>1. PICK x \in S : TRUE
      OBVIOUS
    <2>2. n - x \in below
      BY <2>1
    <2> QED
      BY <2>2
  <1>3. PICK m \in below : \A k \in below : <<k, m>> \notin OpToRel(<, Nat)
    <2> HIDE DEF below
    <2> QED
      BY <1>1, <1>2, NatLessThanWellFounded, WFMin
  <1>4. \A k \in below : ~(k < m)
    <2> HIDE DEF below
    <2> QED
      BY <1>1, <1>3 DEF OpToRel
  <1>5. PICK greatest \in S : m = n - greatest
    OBVIOUS
  <1>6. ASSUME NEW x \in S
        PROVE  greatest >= x
    <2>1. ~(n - x < m)
      BY <1>4
    <2>2. x \in 0..n /\ greatest \in 0..n
      OBVIOUS
    <2> QED
      BY <1>5, <2>1, <2>2
  <1> QED
    BY <1>6, Zenon DEF Max

LEMMA CommitsCounted ==
    ASSUME BranchesFit, NEW s \in Subtasks
    PROVE  CommitsOf(s) \in 0..MaxCommits
  <1> USE SubtaskAssumption
  <1> DEFINE counts == {branch[s][p][2] : p \in {q \in Paths : branch[s][q][1] = s}} \cup {0}
  <1>1. branch[s] \in Trees
    BY DEF BranchesFit
  <1>2. ASSUME NEW p \in Paths
        PROVE  branch[s][p][2] \in 0..MaxCommits
    <2>1. branch[s][p] \in (Subtasks \cup {Nobody}) \X (0..MaxCommits)
      BY <1>1 DEF Trees
    <2> QED
      BY <2>1
  <1>3. counts \in SUBSET (0..MaxCommits) /\ counts # {}
    BY <1>2
  <1>4. Max(counts) \in counts
    <2> HIDE DEF counts
    <2> QED
      BY <1>3, GreatestIn
  <1> QED
    BY <1>3, <1>4 DEF CommitsOf

(***************************************************************************)
(* Work on a subtask.                                                      *)
(***************************************************************************)
LEMMA RefreshedBranches ==
    ASSUME BranchesFit, HistoryFits, HistoryFits', hist' = hist, NEW s \in Subtasks, Refreshed(s)
    PROVE  BranchesFit'
  <1>1. Tip \in 1..Len(hist) /\ Tip \in Nat /\ hist[Tip] \in Trees
    <2>1. Tip \in 1..Len(hist) /\ Tip \in Nat
      BY DEF HistoryFits, Tip
    <2> QED
      BY <2>1 DEF HistoryFits
  <1>2. branch' = [branch EXCEPT ![s] = hist[Tip]] /\ at' = [at EXCEPT ![s] = Tip]
    BY DEF Refreshed
  <1>3. branch' \in [Subtasks -> Trees] /\ at' \in [Subtasks -> Nat]
    BY <1>1, <1>2 DEF BranchesFit
  <1>4. ASSUME NEW t \in Subtasks
        PROVE  at'[t] \in 0..Len(hist)
    <2>1. at[t] \in 0..Len(hist) /\ Tip \in 0..Len(hist)
      BY <1>1 DEF BranchesFit
    <2> QED
      BY <1>2, <2>1 DEF BranchesFit
  <1> QED
    BY <1>3, <1>4 DEF BranchesFit

\* What a step on branches leaves alone.
LEMMA BranchesAssembled ==
    ASSUME Base, hist' = hist, work' = work, edited' = edited, journal' = journal, requests' = requests,
           BranchesFit', ItemsFit', ItemsKept, SpentFits'
    PROVE  Base' /\ Kept
  <1>1. HistoryFits' /\ HistoryKept
    BY SameHistory DEF Base, HistoryFits
  <1>2. RequestsFit' /\ RequestsKept
    BY <1>1, SameRequests DEF Base, ItemsKept
  <1>3. JournalFits' /\ JournalKept
    BY <1>1, <1>2, SameJournal DEF Base
  <1> QED
    BY <1>1, <1>2, <1>3 DEF Base, Kept

LEMMA StartFits ==
    ASSUME Base, NEW s \in DOMAIN items, Start(s)
    PROVE  Base' /\ Kept
  <1> DEFINE i == [items[s] EXCEPT !.pipe = "in_progress", !.base = Tip]
  <1>1. /\ hist' = hist /\ work' = work /\ edited' = edited /\ journal' = journal
        /\ requests' = requests /\ spent' = spent /\ Refreshed(s)
        /\ items' = [items EXCEPT ![s].pipe = "in_progress", ![s].base = Tip]
    BY DEF Start
  <1>2. items \in [DOMAIN items -> Item] /\ items[s] \in Item /\ s \in Subtasks
    BY DEF Base, ItemsFit
  <1>3. Tip \in 1..Len(hist) /\ Tip \in Nat
    BY DEF Base, HistoryFits, Tip
  <1>4. items' = [items EXCEPT ![s] = i]
    BY <1>1, <1>2
  <1>5. /\ i \in Item /\ i.deps = items[s].deps /\ i.owned = items[s].owned
        /\ i.base = Tip /\ i.active = items[s].active
    BY <1>2, <1>3 DEF Item, Statuses, Pipelines
  <1> HIDE DEF i
  <1>6. HistoryFits' /\ HistoryKept
    BY <1>1, SameHistory DEF Base, HistoryFits
  <1>7. BranchesFit'
    BY <1>1, <1>2, <1>6, RefreshedBranches DEF Base
  <1>8. DOMAIN items' = DOMAIN items
    BY <1>4
  <1>9. RequestsFit' /\ RequestsKept
    BY <1>1, <1>6, <1>8, SameRequests DEF Base
  <1>10. i.base \in 1..Len(hist) /\ i.active \in 0..Len(requests')
    BY <1>1, <1>3, <1>5 DEF Base, ItemsFit
  <1>11. ItemsFit' /\ ItemsKept
    BY <1>4, <1>5, <1>6, <1>9, <1>10, OneItem DEF Base
  <1>12. SpentFits'
    BY <1>1 DEF Base, SpentFits
  <1> QED
    BY <1>1, <1>7, <1>11, <1>12, BranchesAssembled

LEMMA StartUndoneFits ==
    ASSUME Base, NEW s \in DOMAIN items, StartUndone(s)
    PROVE  Base' /\ Kept
  <1>1. /\ hist' = hist /\ work' = work /\ edited' = edited /\ journal' = journal
        /\ requests' = requests /\ items' = items /\ Refreshed(s)
        /\ Spend("refused") \/ Spend("death")
    BY DEF StartUndone
  <1>2. s \in Subtasks
    BY DEF Base, ItemsFit
  <1>3. HistoryFits' /\ HistoryKept
    BY <1>1, SameHistory DEF Base, HistoryFits
  <1>4. BranchesFit'
    BY <1>1, <1>2, <1>3, RefreshedBranches DEF Base
  <1>5. RequestsFit' /\ RequestsKept
    BY <1>1, <1>3, SameRequests DEF Base
  <1>6. ItemsFit' /\ ItemsKept
    BY <1>1, <1>3, <1>5, SameItems DEF Base
  <1>7. SpentFits'
    BY <1>1, SpendStep DEF Base, Kinds
  <1> QED
    BY <1>1, <1>4, <1>6, <1>7, BranchesAssembled

LEMMA CommitFits ==
    ASSUME Base, NEW s \in DOMAIN items, NEW written \in SUBSET items[s].owned, Commit(s, written)
    PROVE  Base' /\ Kept
  <1> USE SubtaskAssumption
  <1>1. /\ hist' = hist /\ work' = work /\ edited' = edited /\ journal' = journal
        /\ requests' = requests /\ items' = items /\ spent' = spent
        /\ CommitsOf(s) < MaxCommits
        /\ branch' = [branch EXCEPT ![s] =
                        [p \in Paths |-> IF p \in written THEN <<s, CommitsOf(s) + 1>> ELSE branch[s][p]]]
        /\ at' = [at EXCEPT ![s] = 0]
    BY DEF Commit
  <1>2. s \in Subtasks
    BY DEF Base, ItemsFit
  <1>3. HistoryFits' /\ HistoryKept
    BY <1>1, SameHistory DEF Base, HistoryFits
  <1>4. CommitsOf(s) + 1 \in 0..MaxCommits
    BY <1>1, <1>2, CommitsCounted DEF Base
  <1>5. branch \in [Subtasks -> Trees] /\ branch[s] \in Trees
    BY <1>2 DEF Base, BranchesFit
  <1>6. [p \in Paths |-> IF p \in written THEN <<s, CommitsOf(s) + 1>> ELSE branch[s][p]] \in Trees
    BY <1>2, <1>4, <1>5 DEF Trees
  <1>7. branch' \in [Subtasks -> Trees]
    BY <1>1, <1>2, <1>5, <1>6
  <1>8. at' \in [Subtasks -> Nat] /\ \A t \in Subtasks : at'[t] \in 0..Len(hist)
    <2>1. at \in [Subtasks -> Nat] /\ Len(hist) \in Nat /\ at' = [at EXCEPT ![s] = 0]
      BY <1>1 DEF Base, BranchesFit, HistoryFits
    <2>2. \A t \in Subtasks : at[t] \in 0..Len(hist)
      BY DEF Base, BranchesFit
    <2>3. at' \in [Subtasks -> Nat]
      BY <2>1
    <2>4. ASSUME NEW t \in Subtasks
          PROVE  at'[t] \in 0..Len(hist)
      <3>1. at'[t] = IF t = s THEN 0 ELSE at[t]
        BY <2>1
      <3>2. 0 \in 0..Len(hist)
        BY <2>1
      <3> QED
        BY <2>2, <3>1, <3>2
    <2> QED
      BY <2>3, <2>4
  <1>9. BranchesFit'
    BY <1>1, <1>7, <1>8 DEF BranchesFit
  <1>10. RequestsFit' /\ RequestsKept
    BY <1>1, <1>3, SameRequests DEF Base
  <1>11. ItemsFit' /\ ItemsKept
    BY <1>1, <1>3, <1>10, SameItems DEF Base
  <1>12. SpentFits'
    BY <1>1 DEF Base, SpentFits
  <1> QED
    BY <1>1, <1>9, <1>11, <1>12, BranchesAssembled

(***************************************************************************)
(* Reviews.                                                                *)
(***************************************************************************)
LEMMA ItemReviewed ==
    ASSUME NEW i \in Item, NEW n \in Nat
    PROVE  /\ [i EXCEPT !.pipe = "in_review", !.active = n] \in Item
           /\ [i EXCEPT !.pipe = "in_review", !.active = n].deps = i.deps
           /\ [i EXCEPT !.pipe = "in_review", !.active = n].owned = i.owned
           /\ [i EXCEPT !.pipe = "in_review", !.active = n].base = i.base
           /\ [i EXCEPT !.pipe = "in_review", !.active = n].active = n
  BY DEF Item, Pipelines

LEMMA Requested ==
    ASSUME Base, NEW s \in DOMAIN items, NEW phase \in {"chunk", "acceptance"}
    PROVE  [sub |-> s, phase |-> phase, tree |-> branch[s], base |-> items[s].base,
            current |-> TRUE, integrated |-> 0, status |-> "open"] \in Asked
  <1>1. s \in Subtasks /\ items[s] \in Item
    BY DEF Base, ItemsFit
  <1>2. branch[s] \in Trees /\ items[s].base \in Nat
    BY <1>1 DEF Base, BranchesFit, Item
  <1> QED
    BY <1>1, <1>2 DEF Asked, RequestStatuses

LEMMA RequestReviewFits ==
    ASSUME Base, NEW s \in DOMAIN items, NEW phase \in {"chunk", "acceptance"}, RequestReview(s, phase)
    PROVE  Base' /\ Kept
  <1> DEFINE a == [sub |-> s, phase |-> phase, tree |-> branch[s], base |-> items[s].base,
                   current |-> TRUE, integrated |-> 0, status |-> "open"]
             i == [items[s] EXCEPT !.pipe = "in_review", !.active = Len(requests')]
  <1>1. /\ requests' = Append(requests, a) /\ UNCHANGED git /\ spent' = spent
        /\ items' = [items EXCEPT ![s].pipe = "in_review", ![s].active = Len(requests')]
    BY DEF RequestReview
  <1>2. a \in Asked
    BY Requested
  <1>3. a.sub = s /\ a.base = items[s].base /\ a.integrated = 0
    OBVIOUS
  <1> HIDE DEF a
  <1>4. items \in [DOMAIN items -> Item] /\ items[s] \in Item
    BY DEF Base, ItemsFit
  <1>5. /\ requests \in Seq(Asked) /\ Len(requests) \in Nat /\ DOMAIN requests = 1..Len(requests)
        /\ hist \in Seq(Trees) /\ Len(hist) \in Nat
    BY DEF Base, RequestsFit, HistoryFits
  <1>6. /\ requests' \in Seq(Asked) /\ Len(requests') = Len(requests) + 1
        /\ DOMAIN requests' = 1..(Len(requests) + 1)
        /\ requests'[Len(requests) + 1] = a
        /\ \A r \in 1..Len(requests) : requests'[r] = requests[r]
    BY <1>1, <1>2, <1>5
  <1>7. items' = [items EXCEPT ![s] = i]
    BY <1>1, <1>4
  <1>8. /\ i \in Item /\ i.deps = items[s].deps /\ i.owned = items[s].owned
        /\ i.base = items[s].base /\ i.active = Len(requests')
    <2>1. items[s] \in Item /\ Len(requests') \in Nat
      BY <1>4, <1>5, <1>6
    <2> QED
      BY <2>1, ItemReviewed
  <1> HIDE DEF i
  <1>9. HistoryFits' /\ HistoryKept /\ hist' = hist
    BY <1>1, GitSame DEF git
  <1>10. DOMAIN items' = DOMAIN items
    BY <1>7
  <1>11. RequestsKept
    BY <1>5, <1>6 DEF RequestsKept
  <1>12. RequestsFit'
    <2>1. ASSUME NEW r \in DOMAIN requests'
          PROVE  /\ requests'[r].sub \in DOMAIN items /\ requests'[r].base \in 1..Len(hist)
                 /\ requests'[r].integrated \in 0..Len(hist)
      <3>1. CASE r \in DOMAIN requests
        BY <1>5, <1>6, <3>1 DEF Base, RequestsFit
      <3>2. CASE r = Len(requests) + 1
        <4>1. items[s].base \in 1..Len(hist)
          BY DEF Base, ItemsFit
        <4> QED
          BY <1>3, <1>5, <1>6, <3>2, <4>1
      <3> QED
        BY <1>5, <1>6, <3>1, <3>2
    <2> QED
      BY <1>6, <1>9, <1>10, <2>1 DEF RequestsFit
  <1>13. i.base \in 1..Len(hist) /\ i.active \in 0..Len(requests')
    BY <1>5, <1>6, <1>8 DEF Base, ItemsFit
  <1>14. ItemsFit' /\ ItemsKept
    BY <1>7, <1>8, <1>9, <1>11, <1>12, <1>13, OneItem DEF Base
  <1>15. SpentFits'
    BY <1>1 DEF Base, SpentFits
  <1> QED
    BY <1>1, <1>11, <1>12, <1>14, <1>15, GitAssembled

\* The status of one request, and the item of its subtask.
LEMMA OneRequest ==
    ASSUME Base, UNCHANGED git, NEW r \in DOMAIN requests, NEW status \in RequestStatuses,
           DOMAIN items \subseteq DOMAIN items', requests' = [requests EXCEPT ![r].status = status]
    PROVE  /\ RequestsFit' /\ RequestsKept /\ DOMAIN requests' = DOMAIN requests
           /\ \A q \in DOMAIN requests :
                /\ requests'[q].integrated = requests[q].integrated
                /\ requests'[q].status = IF q = r THEN status ELSE requests[q].status
  <1>1. HistoryFits' /\ HistoryKept /\ hist' = hist
    BY GitSame DEF git
  <1>2. \A q \in DOMAIN requests : requests[q] \in Asked /\ requests[q].integrated \in 0..Len(hist)
    BY DEF Base, RequestsFit
  <1>3. ASSUME NEW q \in DOMAIN requests
        PROVE  /\ requests'[q] \in Asked
               /\ requests'[q].sub = requests[q].sub /\ requests'[q].phase = requests[q].phase
               /\ requests'[q].tree = requests[q].tree /\ requests'[q].base = requests[q].base
               /\ requests'[q].integrated = requests[q].integrated
               /\ requests'[q].status = IF q = r THEN status ELSE requests[q].status
    <2>1. CASE q = r
      <3>1. requests'[q] = [requests[q] EXCEPT !.status = status]
        BY <2>1
      <3>2. requests[q] \in Asked
        BY <1>2
      <3> DEFINE a == requests[q]
      <3>3. /\ [a EXCEPT !.status = status] \in Asked
            /\ [a EXCEPT !.status = status].sub = a.sub /\ [a EXCEPT !.status = status].phase = a.phase
            /\ [a EXCEPT !.status = status].tree = a.tree /\ [a EXCEPT !.status = status].base = a.base
            /\ [a EXCEPT !.status = status].integrated = a.integrated
            /\ [a EXCEPT !.status = status].status = status
        <4> HIDE DEF a
        <4>1. a \in Asked
          BY <3>2 DEF a
        <4> QED
          BY <4>1, RequestSettled
      <3> QED
        BY <2>1, <3>1, <3>3
    <2>2. CASE q # r
      <3>1. requests'[q] = requests[q]
        BY <2>2
      <3> QED
        BY <1>2, <2>2, <3>1
    <2> QED
      BY <2>1, <2>2
  <1>4. requests' \in [DOMAIN requests -> Asked]
    BY <1>3
  <1>5. \A q \in DOMAIN requests : requests'[q].integrated \in 0..Len(hist')
    BY <1>1, <1>2, <1>3
  <1> QED
    BY <1>1, <1>3, <1>4, <1>5, RewrittenRequests DEF Base

LEMMA SettleFits ==
    ASSUME Base, UNCHANGED git, NEW r \in DOMAIN requests, NEW status \in RequestStatuses,
           NEW result \in {"open", "passed"}, Settle(r, status, result), SpentFits'
    PROVE  Base' /\ Kept
  <1> DEFINE s == requests[r].sub
             i == Settled(items[s], requests[r].phase, result)
  <1>1. /\ requests' = [requests EXCEPT ![r].status = status]
        /\ items' = [items EXCEPT ![s] = i]
    BY DEF Settle
  <1>2. s \in DOMAIN items /\ items[s] \in Item
    BY DEF Base, RequestsFit, ItemsFit
  <1>3. /\ i \in Item /\ i.deps = items[s].deps /\ i.owned = items[s].owned
        /\ i.base = items[s].base /\ i.active = 0
    BY <1>2, ItemSettled
  <1> HIDE DEF i, s
  <1>4. HistoryFits' /\ HistoryKept
    BY GitSame
  <1>5. DOMAIN items' = DOMAIN items
    BY <1>1
  <1>6. RequestsFit' /\ RequestsKept
    BY <1>1, <1>5, OneRequest
  <1>7. i.base \in 1..Len(hist) /\ i.active \in 0..Len(requests')
    BY <1>2, <1>3, <1>6 DEF Base, ItemsFit, RequestsFit
  <1>8. ItemsFit' /\ ItemsKept
    BY <1>1, <1>2, <1>3, <1>4, <1>6, <1>7, OneItem DEF Base
  <1> QED
    BY <1>6, <1>8, GitAssembled

LEMMA SettlingFits ==
    ASSUME Base, NEW r \in DOMAIN requests, Fail(r) \/ PassChunk(r) \/ Reopen(r)
    PROVE  Base' /\ Kept
  <1> USE DEF RequestStatuses
  <1>1. CASE Fail(r)
    <2>1. Settle(r, "failed", "open") /\ UNCHANGED git /\ spent' = spent
      BY <1>1 DEF Fail
    <2>2. SpentFits'
      BY <2>1 DEF Base, SpentFits
    <2> QED
      BY <2>1, <2>2, SettleFits
  <1>2. CASE PassChunk(r)
    <2>1. Settle(r, "passed", "passed") /\ UNCHANGED git /\ spent' = spent
      BY <1>2 DEF PassChunk
    <2>2. SpentFits'
      BY <2>1 DEF Base, SpentFits
    <2> QED
      BY <2>1, <2>2, SettleFits
  <1>3. CASE Reopen(r)
    <2>1. Settle(r, "invalidated", "open") /\ UNCHANGED git /\ Spend("invalid")
      BY <1>3 DEF Reopen
    <2>2. SpentFits'
      BY <2>1, SpendStep DEF Base, Kinds
    <2> QED
      BY <2>1, <2>2, SettleFits
  <1> QED
    BY <1>1, <1>2, <1>3

LEMMA ItemFreed ==
    ASSUME NEW i \in Item, NEW r
    PROVE  /\ Freed(i, r) \in Item /\ Freed(i, r).deps = i.deps /\ Freed(i, r).owned = i.owned
           /\ Freed(i, r).base = i.base /\ Freed(i, r).active \in {0, i.active}
           /\ Freed(i, r).status = i.status
           /\ Freed(i, r).pipe \in {i.pipe, "in_progress"}
           /\ i.pipe # "in_review" => Freed(i, r).pipe = i.pipe
  BY DEF Item, Pipelines, Freed

LEMMA WithdrawFits ==
    ASSUME Base, NEW r \in DOMAIN requests, Withdraw(r)
    PROVE  Base' /\ Kept
  <1> DEFINE s == requests[r].sub
             i == Freed(items[s], r)
  <1>1. /\ UNCHANGED git /\ Spend("withdraw") /\ requests' = [requests EXCEPT ![r].status = "withdrawn"]
        /\ items' = [items EXCEPT ![s] = i]
    BY DEF Withdraw
  <1>2. s \in DOMAIN items /\ items[s] \in Item
    BY DEF Base, RequestsFit, ItemsFit
  <1>4. /\ i \in Item /\ i.deps = items[s].deps /\ i.owned = items[s].owned
        /\ i.base = items[s].base /\ i.active \in {0, items[s].active}
    BY <1>2, ItemFreed
  <1> HIDE DEF i, s
  <1>5. HistoryFits' /\ HistoryKept
    BY <1>1, GitSame
  <1>6. DOMAIN items' = DOMAIN items
    BY <1>1
  <1>7. RequestsFit' /\ RequestsKept
    BY <1>1, <1>6, OneRequest DEF RequestStatuses
  <1>8. i.base \in 1..Len(hist) /\ i.active \in 0..Len(requests')
    <2>1. items[s].active \in 0..Len(requests) /\ items[s].base \in 1..Len(hist)
      BY <1>2 DEF Base, ItemsFit
    <2>2. Len(requests) \in Nat /\ Len(requests') \in Nat /\ Len(requests) <= Len(requests')
      BY <1>7 DEF Base, RequestsFit, RequestsKept
    <2> QED
      BY <1>4, <2>1, <2>2
  <1>9. ItemsFit' /\ ItemsKept
    BY <1>1, <1>2, <1>4, <1>5, <1>7, <1>8, OneItem DEF Base
  <1>10. SpentFits'
    BY <1>1, SpendStep DEF Base, Kinds
  <1> QED
    BY <1>1, <1>7, <1>9, <1>10, GitAssembled

LEMMA EditingFits ==
    ASSUME Base, HandEdit \/ PutAway
    PROVE  Base' /\ Kept
  <1>1. /\ items' = items /\ requests' = requests /\ branch' = branch /\ at' = at /\ hist' = hist
        /\ work' = work /\ journal' = journal /\ edited' \in BOOLEAN
        /\ spent' = spent \/ Spend("edit")
    BY DEF HandEdit, PutAway
  <1>2. HistoryFits' /\ HistoryKept
    BY <1>1, SameHistory DEF Base, HistoryFits
  <1>3. RequestsFit' /\ RequestsKept
    BY <1>1, <1>2, SameRequests DEF Base
  <1>4. ItemsFit' /\ ItemsKept
    BY <1>1, <1>2, <1>3, SameItems DEF Base
  <1>5. BranchesFit'
    BY <1>1, <1>2, SameBranches DEF Base
  <1>6. JournalFits' /\ JournalKept
    BY <1>1, <1>2, <1>3, SameJournal DEF Base
  <1>7. SpentFits'
    BY <1>1, SpendStep DEF Base, Kinds, SpentFits
  <1> QED
    BY <1>2, <1>3, <1>4, <1>5, <1>6, <1>7 DEF Base, Kept

(***************************************************************************)
(* The fold of a reviewed subtask.                                         *)
(***************************************************************************)
LEMMA JournalAppended ==
    ASSUME JournalFits, HistoryFits, HistoryFits', HistoryKept, RequestsFit, RequestsFit', RequestsKept,
           NEW row \in Fold, journal' = Append(journal, row), row.request \in DOMAIN requests,
           row.prev \in 1..Len(hist), row.target \in 0..Len(hist')
    PROVE  JournalFits' /\ JournalKept
  <1>1. /\ Len(hist) \in Nat /\ Len(hist') \in Nat /\ Len(hist) <= Len(hist')
        /\ Len(requests) \in Nat /\ Len(requests') \in Nat /\ Len(requests) <= Len(requests')
        /\ DOMAIN requests = 1..Len(requests) /\ DOMAIN requests' = 1..Len(requests')
        /\ journal \in Seq(Fold) /\ Len(journal) \in Nat /\ DOMAIN journal = 1..Len(journal)
    BY DEF HistoryFits, HistoryKept, RequestsFit, RequestsKept, JournalFits
  <1>2. /\ journal' \in Seq(Fold) /\ Len(journal') = Len(journal) + 1
        /\ DOMAIN journal' = 1..(Len(journal) + 1) /\ journal'[Len(journal) + 1] = row
        /\ \A j \in 1..Len(journal) : journal'[j] = journal[j]
    BY <1>1
  <1>3. ASSUME NEW j \in DOMAIN journal'
        PROVE  /\ journal'[j].request \in DOMAIN requests' /\ journal'[j].prev \in 1..Len(hist')
               /\ journal'[j].target \in 0..Len(hist')
    <2>1. CASE j \in DOMAIN journal
      <3>1. /\ journal[j].request \in DOMAIN requests /\ journal[j].prev \in 1..Len(hist)
            /\ journal[j].target \in 0..Len(hist)
        BY <2>1 DEF JournalFits
      <3>2. journal'[j] = journal[j]
        BY <1>1, <1>2, <2>1
      <3> QED
        BY <1>1, <3>1, <3>2
    <2>2. CASE j = Len(journal) + 1
      BY <1>1, <1>2, <2>2
    <2> QED
      BY <1>1, <1>2, <2>1, <2>2
  <1> QED
    BY <1>1, <1>2, <1>3 DEF JournalFits, JournalKept

LEMMA JournalRewritten ==
    ASSUME JournalFits, HistoryFits, HistoryFits', HistoryKept, RequestsFit, RequestsFit', RequestsKept,
           journal' \in [DOMAIN journal -> Fold],
           \A j \in DOMAIN journal :
              /\ journal'[j].request = journal[j].request /\ journal'[j].prev = journal[j].prev
              /\ journal'[j].target = journal[j].target
    PROVE  JournalFits' /\ JournalKept
  <1>1. /\ Len(hist) \in Nat /\ Len(hist') \in Nat /\ Len(hist) <= Len(hist')
        /\ Len(requests) \in Nat /\ Len(requests') \in Nat /\ Len(requests) <= Len(requests')
        /\ DOMAIN requests = 1..Len(requests) /\ DOMAIN requests' = 1..Len(requests')
        /\ journal \in Seq(Fold) /\ Len(journal) \in Nat /\ DOMAIN journal = 1..Len(journal)
    BY DEF HistoryFits, HistoryKept, RequestsFit, RequestsKept, JournalFits
  <1>2. journal' \in Seq(Fold) /\ Len(journal') = Len(journal) /\ DOMAIN journal' = DOMAIN journal
    BY <1>1, Rewritten
  <1>3. ASSUME NEW j \in DOMAIN journal
        PROVE  /\ journal'[j].request \in DOMAIN requests' /\ journal'[j].prev \in 1..Len(hist')
               /\ journal'[j].target \in 0..Len(hist')
    <2>1. /\ journal[j].request \in DOMAIN requests /\ journal[j].prev \in 1..Len(hist)
          /\ journal[j].target \in 0..Len(hist)
      BY DEF JournalFits
    <2> QED
      BY <1>1, <2>1
  <1> QED
    BY <1>1, <1>2, <1>3 DEF JournalFits, JournalKept

\* The request of a PASS that was recorded.
LEMMA PassedRequest ==
    ASSUME RequestsFit, ItemsFit, DOMAIN items \subseteq DOMAIN items', HistoryFits, HistoryFits',
           HistoryKept, NEW r \in DOMAIN requests, NEW n \in 1..Len(hist'),
           requests' = [requests EXCEPT ![r].integrated = n, ![r].status = "passed"]
    PROVE  /\ RequestsFit' /\ RequestsKept /\ DOMAIN requests' = DOMAIN requests
           /\ requests'[r].integrated = n /\ requests'[r].status = "passed"
           /\ \A q \in DOMAIN requests \ {r} : requests'[q] = requests[q]
  <1>1. Len(hist) \in Nat /\ Len(hist') \in Nat /\ Len(hist) <= Len(hist') /\ n \in Nat
    BY DEF HistoryFits, HistoryKept
  <1>2. \A q \in DOMAIN requests : requests[q] \in Asked /\ requests[q].integrated \in 0..Len(hist)
    BY DEF RequestsFit
  <1>3. \A q \in DOMAIN requests \ {r} : requests'[q] = requests[q]
    OBVIOUS
  <1>4. requests'[r] = [requests[r] EXCEPT !.integrated = n, !.status = "passed"]
    OBVIOUS
  <1>5. /\ requests'[r] \in Asked
        /\ requests'[r].sub = requests[r].sub /\ requests'[r].phase = requests[r].phase
        /\ requests'[r].tree = requests[r].tree /\ requests'[r].base = requests[r].base
        /\ requests'[r].integrated = n /\ requests'[r].status = "passed"
    <2> DEFINE a == requests[r]
    <2>1. a \in Asked
      BY <1>2
    <2>2. requests'[r] = [a EXCEPT !.integrated = n, !.status = "passed"]
      BY <1>4
    <2> HIDE DEF a
    <2>3. /\ requests'[r] \in Asked
          /\ requests'[r].sub = a.sub /\ requests'[r].phase = a.phase
          /\ requests'[r].tree = a.tree /\ requests'[r].base = a.base
          /\ requests'[r].integrated = n /\ requests'[r].status = "passed"
      <3> DEFINE b == [a EXCEPT !.integrated = n, !.status = "passed"]
      <3>1. /\ b \in Asked /\ b.sub = a.sub /\ b.phase = a.phase /\ b.tree = a.tree /\ b.base = a.base
            /\ b.integrated = n /\ b.status = "passed"
        BY <1>1, <2>1, RequestPassed
      <3>2. requests'[r] = b
        BY <2>2
      <3> HIDE DEF b
      <3> QED
        BY <3>1, <3>2
    <2> QED
      BY <2>3 DEF a
  <1>6. ASSUME NEW q \in DOMAIN requests
        PROVE  /\ requests'[q] \in Asked
               /\ requests'[q].sub = requests[q].sub /\ requests'[q].phase = requests[q].phase
               /\ requests'[q].tree = requests[q].tree /\ requests'[q].base = requests[q].base
               /\ requests'[q].integrated \in 0..Len(hist')
    <2>1. CASE q = r
      BY <1>1, <1>5, <2>1
    <2>2. CASE q # r
      <3>1. requests'[q] = requests[q] /\ requests[q] \in Asked /\ requests[q].integrated \in 0..Len(hist)
        BY <1>2, <1>3, <2>2
      <3> QED
        BY <1>1, <3>1
    <2> QED
      BY <2>1, <2>2
  <1>7. requests' \in [DOMAIN requests -> Asked]
    BY <1>6
  <1> QED
    BY <1>3, <1>5, <1>6, <1>7, RewrittenRequests

\* Commit n of the task branch holds what request r reviewed, byte by byte.
Holds(r, n) == \A p \in Manifest(r) : hist[n][p] = requests[r].tree[p]

JournalHolds ==
    \A j \in DOMAIN journal : journal[j].target # 0 => Holds(journal[j].request, journal[j].target)

LEMMA FoldedTyped ==
    ASSUME Base, NEW r \in DOMAIN requests
    PROVE  FoldedTree(r) \in Trees /\ \A p \in Manifest(r) : FoldedTree(r)[p] = requests[r].tree[p]
  <1>1. requests[r] \in Asked /\ Tip \in 1..Len(hist)
    BY DEF Base, RequestsFit, HistoryFits, Tip
  <1>2. requests[r].tree \in Trees /\ hist[Tip] \in Trees
    BY <1>1 DEF Asked, Base, HistoryFits
  <1> QED
    BY <1>2 DEF FoldedTree, Trees, Manifest

LEMMA LastCompleted ==
    ASSUME Base, NEW r, CompletedFolds(r) # {}
    PROVE  Max(CompletedFolds(r)) \in CompletedFolds(r)
  <1>1. DOMAIN journal = 1..Len(journal) /\ Len(journal) \in Nat
    BY DEF Base, JournalFits
  <1>2. CompletedFolds(r) \in SUBSET (0..Len(journal))
    BY <1>1 DEF CompletedFolds
  <1> QED
    BY <1>1, <1>2, GreatestIn

\* What the fold of a PASS does to the branch, the journal and the request.
Appended(r, row) ==
    /\ journal' = Append(journal, row) /\ row.request = r /\ row.prev = Tip
    /\ (row.target = 0 /\ hist' = hist) \/ row.target = Len(hist')
    /\ row.target # 0 => \A p \in Manifest(r) : hist'[row.target][p] = requests[r].tree[p]

JournalUpdated ==
    /\ journal' \in [DOMAIN journal -> Fold]
    /\ \A j \in DOMAIN journal :
          /\ journal'[j].request = journal[j].request /\ journal'[j].prev = journal[j].prev
          /\ journal'[j].target = journal[j].target

Recorded(r, n) ==
    /\ requests' = [requests EXCEPT ![r].integrated = n, ![r].status = "passed"]
    /\ JournalHolds => \A p \in Manifest(r) : hist'[n][p] = requests[r].tree[p]

LEMMA FoldAgainStep ==
    ASSUME Base, NEW r \in DOMAIN requests, NEW upto, FoldAgain(r, upto)
    PROVE  /\ HistoryFits' /\ hist' = hist /\ ~edited
           /\ JournalUpdated
           /\ IF upto = "recorded" THEN \E n \in 1..Len(hist') : Recorded(r, n)
              ELSE requests' = requests
  <1> DEFINE j == Max(CompletedFolds(r))
  <1>1. /\ CompletedFolds(r) # {} /\ ~edited /\ hist' = hist /\ work' = Tip /\ edited' = FALSE
        /\ journal' = [journal EXCEPT ![j].done = @ \/ upto # "reset"]
        /\ requests' = IF upto = "recorded"
                       THEN [requests EXCEPT ![r].integrated = journal[j].target, ![r].status = "passed"]
                       ELSE requests
    BY DEF FoldAgain, Reset
  <1>2. j \in CompletedFolds(r)
    BY <1>1, LastCompleted
  <1> HIDE DEF j
  <1>3. j \in DOMAIN journal /\ journal[j].request = r /\ journal[j].target # 0
    BY <1>2 DEF CompletedFolds
  <1>4. HistoryFits'
    <2>1. hist' \in Seq(Trees) /\ Len(hist') # 0 /\ Tip \in 1..Len(hist')
      BY <1>1 DEF Base, HistoryFits, Tip
    <2>2. work' \in 1..Len(hist') /\ edited' \in BOOLEAN
      BY <1>1, <2>1
    <2> QED
      BY <2>1, <2>2 DEF HistoryFits
  <1>5. JournalUpdated
    <2>1. \A k \in DOMAIN journal : journal[k] \in Fold
      BY DEF Base, JournalFits
    <2>2. ASSUME NEW k \in DOMAIN journal
          PROVE  /\ journal'[k] \in Fold /\ journal'[k].request = journal[k].request
                 /\ journal'[k].prev = journal[k].prev /\ journal'[k].target = journal[k].target
      <3>1. CASE k = j
        <4>1. journal'[k] = [journal[k] EXCEPT !.done = @ \/ upto # "reset"]
          BY <1>1, <3>1
        <4>2. journal[k] \in Fold
          BY <2>1
        <4> QED
          BY <4>1, <4>2 DEF Fold
      <3>2. CASE k # j
        <4>1. journal'[k] = journal[k]
          BY <1>1, <3>2
        <4> QED
          BY <2>1, <4>1
      <3> QED
        BY <3>1, <3>2
    <2>3. journal' = [k \in DOMAIN journal |-> journal'[k]]
      BY <1>1
    <2>4. journal' \in [DOMAIN journal -> Fold]
      BY <2>2, <2>3
    <2> QED
      BY <2>2, <2>4 DEF JournalUpdated
  <1>6. CASE upto = "recorded"
    <2>1. journal[j].target \in 1..Len(hist')
      BY <1>1, <1>3 DEF Base, JournalFits, HistoryFits
    <2>2. Recorded(r, journal[j].target)
      <3>1. JournalHolds => \A p \in Manifest(r) : hist'[journal[j].target][p] = requests[r].tree[p]
        BY <1>1, <1>3 DEF JournalHolds, Holds
      <3> QED
        BY <1>1, <1>6, <3>1 DEF Recorded
    <2> QED
      BY <1>1, <1>4, <1>5, <1>6, <2>1, <2>2
  <1> QED
    BY <1>1, <1>4, <1>5, <1>6

LEMMA FoldNothingStep ==
    ASSUME Base, NEW r \in DOMAIN requests, NEW upto, FoldNothing(r, upto)
    PROVE  /\ HistoryFits' /\ hist' = hist /\ ~edited
           /\ \E row \in Fold : Appended(r, row)
           /\ IF upto = "recorded" THEN \E n \in 1..Len(hist') : Recorded(r, n)
              ELSE requests' = requests
  <1> DEFINE row == Row(r, Tip, upto # "intent")
  <1>1. /\ ~edited /\ HeadHas(r) /\ hist' = hist /\ work' = work /\ edited' = edited
        /\ journal' = Append(journal, row)
        /\ requests' = IF upto = "recorded"
                       THEN [requests EXCEPT ![r].integrated = Tip, ![r].status = "passed"]
                       ELSE requests
    BY DEF FoldNothing, CleanWorktree
  <1>2. HistoryFits'
    BY <1>1 DEF Base, HistoryFits
  <1>3. r \in Nat /\ Tip \in Nat /\ Tip = Len(hist) /\ Tip \in 1..Len(hist)
    BY DEF Base, RequestsFit, HistoryFits, Tip
  <1>4. row \in Fold /\ row.request = r /\ row.prev = Tip /\ row.target = Tip
    BY <1>3 DEF Row, Fold
  <1>5. \A p \in Manifest(r) : hist'[Tip][p] = requests[r].tree[p]
    BY <1>1 DEF HeadHas
  <1> HIDE DEF row
  <1>6. Appended(r, row)
    BY <1>1, <1>3, <1>4, <1>5 DEF Appended
  <1>7. upto = "recorded" => Recorded(r, Tip)
    BY <1>1, <1>5 DEF Recorded
  <1> QED
    BY <1>1, <1>2, <1>3, <1>4, <1>6, <1>7

LEMMA FoldPatchStep ==
    ASSUME Base, NEW r \in DOMAIN requests,
           NEW upto \in {"intent", "moved", "reset", "done", "recorded"}, FoldPatch(r, upto)
    PROVE  /\ HistoryFits' /\ ~edited /\ Applies(r) /\ CompletedFolds(r) = {} /\ ~HeadHas(r)
           /\ IF upto = "intent" THEN hist' = hist ELSE hist' = Append(hist, FoldedTree(r))
           /\ \E row \in Fold : Appended(r, row)
           /\ IF upto = "recorded" THEN \E n \in 1..Len(hist') : Recorded(r, n)
              ELSE requests' = requests
  <1> DEFINE row == Row(r, IF upto = "intent" THEN 0 ELSE Tip + 1, upto \in {"done", "recorded"})
  <1>1. /\ ~edited /\ journal' = Append(journal, row) /\ Applies(r) /\ CompletedFolds(r) = {} /\ ~HeadHas(r)
        /\ hist' = IF upto = "intent" THEN hist ELSE Append(hist, FoldedTree(r))
        /\ IF upto \in {"intent", "moved"} THEN work' = work /\ edited' = edited
           ELSE work' = Tip + 1 /\ edited' = FALSE
        /\ requests' = IF upto = "recorded"
                       THEN [requests EXCEPT ![r].integrated = Tip + 1, ![r].status = "passed"]
                       ELSE requests
    BY DEF FoldPatch, CleanWorktree, Reset
  <1>2. /\ FoldedTree(r) \in Trees /\ \A p \in Manifest(r) : FoldedTree(r)[p] = requests[r].tree[p]
    BY FoldedTyped
  <1>3. /\ r \in Nat /\ Tip \in Nat /\ Tip = Len(hist) /\ hist \in Seq(Trees)
        /\ work \in 1..Len(hist) /\ edited \in BOOLEAN
    BY DEF Base, RequestsFit, HistoryFits, Tip
  <1>4. /\ row \in Fold /\ row.request = r /\ row.prev = Tip
        /\ row.target = IF upto = "intent" THEN 0 ELSE Tip + 1
    BY <1>3 DEF Row, Fold
  <1> HIDE DEF row
  <1>5. CASE upto = "intent"
    <2>1. HistoryFits'
      BY <1>1, <1>3, <1>5 DEF HistoryFits, Base
    <2>2. Appended(r, row)
      BY <1>1, <1>4, <1>5 DEF Appended
    <2> QED
      BY <1>1, <1>4, <1>5, <2>1, <2>2
  <1>6. CASE upto # "intent"
    <2>1. /\ hist' = Append(hist, FoldedTree(r)) /\ hist' \in Seq(Trees) /\ Len(hist') = Tip + 1
          /\ hist'[Tip + 1] = FoldedTree(r)
      BY <1>1, <1>2, <1>3, <1>6
    <2>2. work' \in 1..Len(hist') /\ edited' \in BOOLEAN
      <3>1. work' \in {work, Tip + 1} /\ edited' \in {edited, FALSE}
        BY <1>1
      <3>2. work \in 1..(Tip + 1) /\ Tip + 1 \in 1..(Tip + 1)
        BY <1>3
      <3>3. work' \in 1..(Tip + 1)
        BY <3>1, <3>2
      <3>4. edited' \in BOOLEAN
        BY <1>3, <3>1
      <3> QED
        BY <2>1, <3>3, <3>4
    <2>3. HistoryFits'
      BY <1>3, <2>1, <2>2 DEF HistoryFits
    <2>4. \A p \in Manifest(r) : hist'[Tip + 1][p] = requests[r].tree[p]
      BY <1>2, <2>1
    <2>5. Appended(r, row)
      BY <1>1, <1>4, <1>6, <2>1, <2>4 DEF Appended
    <2>6. upto = "recorded" => Recorded(r, Tip + 1)
      BY <1>1, <2>4 DEF Recorded
    <2>7. Tip + 1 \in 1..Len(hist')
      BY <1>3, <2>1
    <2> QED
      BY <1>1, <1>4, <1>6, <2>1, <2>3, <2>5, <2>6, <2>7
  <1> QED
    BY <1>5, <1>6

\* A PASS, however far it got.
Outcome(r, upto) ==
    IF upto = "recorded" THEN \E n \in 1..Len(hist') : Recorded(r, n) ELSE requests' = requests

JournalStep(r) == JournalUpdated \/ \E row \in Fold : Appended(r, row)

LEMMA PassStep ==
    ASSUME Base, NEW r \in DOMAIN requests,
           NEW upto \in {"intent", "moved", "reset", "done", "recorded"}, Pass(r, upto)
    PROVE  /\ Open(r) /\ requests[r].phase = "acceptance" /\ items[requests[r].sub].active = r
           /\ ~edited /\ branch' = branch /\ at' = at
           /\ HistoryFits' /\ HistoryKept /\ JournalStep(r) /\ Outcome(r, upto)
           /\ hist' = hist \/ (Applies(r) /\ CompletedFolds(r) = {} /\ ~HeadHas(r)
                                /\ hist' = Append(hist, FoldedTree(r))
                                /\ \E row \in Fold : Appended(r, row))
           /\ IF upto = "recorded"
              THEN items' = [items EXCEPT ![requests[r].sub] = Settled(@, "acceptance", "passed")]
                   /\ spent' = spent
              ELSE items' = items /\ Spend("death")
  <1>1. /\ Open(r) /\ requests[r].phase = "acceptance" /\ items[requests[r].sub].active = r
        /\ branch' = branch /\ at' = at
        /\ IF upto = "recorded"
           THEN items' = [items EXCEPT ![requests[r].sub] = Settled(@, "acceptance", "passed")]
                /\ spent' = spent
           ELSE items' = items /\ Spend("death")
        /\ FoldAgain(r, upto) \/ FoldNothing(r, upto) \/ FoldPatch(r, upto)
    BY DEF Pass
  <1>2. /\ HistoryFits' /\ ~edited /\ JournalStep(r) /\ Outcome(r, upto)
        /\ hist' = hist \/ (Applies(r) /\ CompletedFolds(r) = {} /\ ~HeadHas(r)
                             /\ hist' = Append(hist, FoldedTree(r))
                             /\ \E row \in Fold : Appended(r, row))
    <2>1. CASE FoldAgain(r, upto)
      BY <2>1, FoldAgainStep DEF JournalStep, Outcome
    <2>2. CASE FoldNothing(r, upto)
      BY <2>2, FoldNothingStep DEF JournalStep, Outcome
    <2>3. CASE FoldPatch(r, upto)
      BY <2>3, FoldPatchStep DEF JournalStep, Outcome
    <2> QED
      BY <1>1, <2>1, <2>2, <2>3
  <1>3. HistoryKept
    <2>1. CASE hist' = hist
      BY <2>1, SameHistory DEF Base
    <2>2. CASE hist' = Append(hist, FoldedTree(r))
      <3>1. hist \in Seq(Trees) /\ FoldedTree(r) \in Trees
        BY FoldedTyped DEF Base, HistoryFits
      <3> QED
        BY <2>2, <3>1 DEF HistoryKept
    <2> QED
      BY <1>2, <2>1, <2>2
  <1> QED
    BY <1>1, <1>2, <1>3

LEMMA JournalMoves ==
    ASSUME JournalFits, HistoryFits, HistoryFits', HistoryKept, RequestsFit, RequestsFit', RequestsKept,
           NEW r \in DOMAIN requests, JournalStep(r)
    PROVE  JournalFits' /\ JournalKept
  <1>1. CASE JournalUpdated
    BY <1>1, JournalRewritten DEF JournalUpdated
  <1>2. CASE \E row \in Fold : Appended(r, row)
    <2>1. PICK row \in Fold : Appended(r, row)
      BY <1>2
    <2>2. /\ journal' = Append(journal, row) /\ row.request = r /\ row.prev = Tip
          /\ row.target = 0 \/ row.target = Len(hist')
      BY <2>1 DEF Appended
    <2>3. row.prev \in 1..Len(hist) /\ row.target \in 0..Len(hist')
      BY <2>2 DEF HistoryFits, Tip
    <2> QED
      BY <2>2, <2>3, JournalAppended
  <1> QED
    BY <1>1, <1>2 DEF JournalStep

LEMMA PassFits ==
    ASSUME Base, NEW r \in DOMAIN requests,
           NEW upto \in {"intent", "moved", "reset", "done", "recorded"}, Pass(r, upto)
    PROVE  Base' /\ Kept
  <1> DEFINE s == requests[r].sub
             i == Settled(items[s], "acceptance", "passed")
  <1>1. /\ branch' = branch /\ at' = at /\ HistoryFits' /\ HistoryKept /\ JournalStep(r)
        /\ Outcome(r, upto)
        /\ IF upto = "recorded" THEN items' = [items EXCEPT ![s] = i] /\ spent' = spent
           ELSE items' = items /\ Spend("death")
    BY PassStep
  <1>2. s \in DOMAIN items /\ items[s] \in Item
    BY DEF Base, RequestsFit, ItemsFit
  <1>3. /\ i \in Item /\ i.deps = items[s].deps /\ i.owned = items[s].owned
        /\ i.base = items[s].base /\ i.active = 0
    BY <1>2, ItemSettled
  <1> HIDE DEF i, s
  <1>4. DOMAIN items' = DOMAIN items
    BY <1>1
  <1>5. RequestsFit' /\ RequestsKept
    <2>1. CASE upto = "recorded"
      <3>1. PICK n \in 1..Len(hist') : Recorded(r, n)
        BY <1>1, <2>1 DEF Outcome
      <3>2. requests' = [requests EXCEPT ![r].integrated = n, ![r].status = "passed"]
        BY <3>1 DEF Recorded
      <3> QED
        BY <1>1, <1>4, <3>2, PassedRequest DEF Base
    <2>2. CASE upto # "recorded"
      <3>1. requests' = requests
        BY <1>1, <2>2 DEF Outcome
      <3> QED
        BY <1>1, <1>4, <3>1, SameRequests DEF Base
    <2> QED
      BY <2>1, <2>2
  <1>6. i.base \in 1..Len(hist) /\ i.active \in 0..Len(requests')
    BY <1>2, <1>3, <1>5 DEF Base, ItemsFit, RequestsFit
  <1>7. ItemsFit' /\ ItemsKept
    <2>1. CASE upto = "recorded"
      BY <1>1, <1>2, <1>3, <1>5, <1>6, <2>1, OneItem DEF Base
    <2>2. CASE upto # "recorded"
      BY <1>1, <1>5, <2>2, SameItems DEF Base
    <2> QED
      BY <2>1, <2>2
  <1>8. BranchesFit'
    BY <1>1, SameBranches DEF Base
  <1>9. JournalFits' /\ JournalKept
    BY <1>1, <1>5, JournalMoves DEF Base
  <1>10. SpentFits'
    <2>1. CASE spent' = spent
      BY <2>1 DEF Base, SpentFits
    <2>2. CASE Spend("death")
      BY <2>2, SpendStep DEF Base, Kinds
    <2> QED
      BY <1>1, <2>1, <2>2
  <1> QED
    BY <1>1, <1>5, <1>7, <1>8, <1>9, <1>10 DEF Base, Kept

(***************************************************************************)
(* The repair of the folds that died.                                      *)
(***************************************************************************)
LEMMA RecoverStep ==
    ASSUME Base, Recover
    PROVE  /\ items' = items /\ branch' = branch /\ at' = at /\ hist' = hist /\ spent' = spent
           /\ HistoryFits' /\ JournalUpdated
           /\ edited => edited'
           /\ requests' \in [DOMAIN requests -> Asked]
           /\ \A r \in DOMAIN requests :
                /\ requests'[r].sub = requests[r].sub /\ requests'[r].phase = requests[r].phase
                /\ requests'[r].tree = requests[r].tree /\ requests'[r].base = requests[r].base
                /\ requests'[r].status = requests[r].status
                /\ \/ requests'[r].integrated = requests[r].integrated
                   \/ \E j \in DOMAIN journal : /\ journal[j].request = r /\ journal[j].target # 0
                                                /\ requests'[r].integrated = journal[j].target
  <1> DEFINE rest == {j \in DOMAIN journal : ~journal[j].done}
             moved == {j \in rest : journal[j].target # 0}
             closed == IF edited THEN {} ELSE moved
             nothing == {j \in rest \ moved : journal[j].prev = Tip}
             ofRequest(r) == {j \in closed : journal[j].request = r}
  <1>1. /\ items' = items /\ branch' = branch /\ at' = at /\ hist' = hist /\ spent' = spent
        /\ journal' = [j \in DOMAIN journal |->
                         IF j \in closed \cup nothing THEN [journal[j] EXCEPT !.done = TRUE]
                         ELSE IF j \in rest THEN [journal[j] EXCEPT !.held = TRUE]
                         ELSE journal[j]]
        /\ IF closed = {} THEN work' = work /\ edited' = edited ELSE work' = Tip /\ edited' = FALSE
        /\ requests' = [r \in DOMAIN requests |->
                          IF \E j \in closed : journal[j].request = r
                          THEN [requests[r] EXCEPT !.integrated = journal[Max(ofRequest(r))].target]
                          ELSE requests[r]]
    BY DEF Recover, Reset
  <1>2. edited => edited'
    BY <1>1
  <1>3. HistoryFits'
    <2>1. /\ hist' \in Seq(Trees) /\ Len(hist') # 0 /\ Tip \in 1..Len(hist')
          /\ work \in 1..Len(hist') /\ edited \in BOOLEAN
      BY <1>1 DEF Base, HistoryFits, Tip
    <2>2. work' \in {work, Tip} /\ edited' \in {edited, FALSE}
      BY <1>1
    <2>3. work' \in 1..Len(hist') /\ edited' \in BOOLEAN
      BY <2>1, <2>2
    <2> QED
      BY <2>1, <2>3 DEF HistoryFits
  <1>4. JournalUpdated
    <2>1. \A k \in DOMAIN journal : journal[k] \in Fold
      BY DEF Base, JournalFits
    <2>2. ASSUME NEW k \in DOMAIN journal
          PROVE  /\ journal'[k] \in Fold /\ journal'[k].request = journal[k].request
                 /\ journal'[k].prev = journal[k].prev /\ journal'[k].target = journal[k].target
      <3> DEFINE row == journal[k]
      <3>1. row \in Fold
        BY <2>1
      <3>2. journal'[k] \in {[row EXCEPT !.done = TRUE], [row EXCEPT !.held = TRUE], row}
        <4> HIDE DEF closed, nothing, rest
        <4> QED
          BY <1>1
      <3> HIDE DEF row
      <3>3. /\ journal'[k] \in Fold /\ journal'[k].request = row.request
            /\ journal'[k].prev = row.prev /\ journal'[k].target = row.target
        BY <3>1, <3>2, RowDone
      <3> QED
        BY <3>3 DEF row
    <2>3. journal' \in [DOMAIN journal -> Fold]
      <3>1. journal' = [k \in DOMAIN journal |-> journal'[k]]
        <4> HIDE DEF closed, nothing, rest
        <4> QED
          BY <1>1
      <3> QED
        BY <2>2, <3>1
    <2> QED
      BY <2>2, <2>3 DEF JournalUpdated
  <1>5. ASSUME NEW r \in DOMAIN requests
        PROVE  /\ requests'[r] \in Asked
               /\ requests'[r].sub = requests[r].sub /\ requests'[r].phase = requests[r].phase
               /\ requests'[r].tree = requests[r].tree /\ requests'[r].base = requests[r].base
               /\ requests'[r].status = requests[r].status
               /\ \/ requests'[r].integrated = requests[r].integrated
                  \/ \E j \in DOMAIN journal : /\ journal[j].request = r /\ journal[j].target # 0
                                               /\ requests'[r].integrated = journal[j].target
    <2> DEFINE a == requests[r]
    <2>1. a \in Asked
      BY DEF Base, RequestsFit
    <2>2. CASE \E j \in closed : journal[j].request = r
      <3> DEFINE j == Max(ofRequest(r))
      <3>1. ofRequest(r) # {}
        BY <2>2
      <3>2. ofRequest(r) \in SUBSET (0..Len(journal)) /\ Len(journal) \in Nat
        BY DEF Base, JournalFits
      <3>3. j \in ofRequest(r)
        <4> HIDE DEF ofRequest
        <4> QED
          BY <3>1, <3>2, GreatestIn
      <3>4. j \in DOMAIN journal /\ journal[j].request = r /\ journal[j].target # 0
        <4> HIDE DEF j
        <4> QED
          BY <3>3
      <3>5. requests'[r] = [a EXCEPT !.integrated = journal[j].target]
        <4> HIDE DEF closed, ofRequest
        <4> QED
          BY <1>1, <2>2
      <3> HIDE DEF j, a
      <3>6. journal[j].target \in Nat
        BY <3>4 DEF Base, JournalFits, Fold
      <3>7. /\ requests'[r] \in Asked
            /\ requests'[r].sub = a.sub /\ requests'[r].phase = a.phase
            /\ requests'[r].tree = a.tree /\ requests'[r].base = a.base
            /\ requests'[r].status = a.status /\ requests'[r].integrated = journal[j].target
        <4> DEFINE n == journal[j].target
                   b == [a EXCEPT !.integrated = n]
        <4>1. /\ b \in Asked /\ b.sub = a.sub /\ b.phase = a.phase /\ b.tree = a.tree /\ b.base = a.base
              /\ b.status = a.status /\ b.integrated = n
          <5>1. n \in Nat
            BY <3>6
          <5> HIDE DEF n
          <5> QED
            BY <2>1, <5>1, RequestIntegrated
        <4>2. requests'[r] = b
          BY <3>5
        <4> HIDE DEF b
        <4> QED
          BY <4>1, <4>2
      <3> QED
        BY <3>4, <3>7 DEF a
    <2>3. CASE ~ \E j \in closed : journal[j].request = r
      <3>1. requests'[r] = requests[r]
        <4> HIDE DEF closed, ofRequest
        <4> QED
          BY <1>1, <2>3
      <3> QED
        BY <2>1, <3>1
    <2> QED
      BY <2>2, <2>3
  <1>6. requests' \in [DOMAIN requests -> Asked]
    <2>1. requests' = [r \in DOMAIN requests |-> requests'[r]]
      <3> HIDE DEF closed, ofRequest
      <3> QED
        BY <1>1
    <2> QED
      BY <1>5, <2>1
  <1> QED
    BY <1>1, <1>2, <1>3, <1>4, <1>5, <1>6

LEMMA RecoverFits ==
    ASSUME Base, Recover
    PROVE  Base' /\ Kept /\ DOMAIN requests' = DOMAIN requests
  <1>1. /\ items' = items /\ branch' = branch /\ at' = at /\ hist' = hist /\ spent' = spent
        /\ HistoryFits' /\ JournalUpdated
        /\ requests' \in [DOMAIN requests -> Asked]
    BY RecoverStep
  <1>2. HistoryKept
    BY <1>1, SameHistory DEF Base
  <1>3. ASSUME NEW r \in DOMAIN requests
        PROVE  /\ requests'[r].sub = requests[r].sub /\ requests'[r].phase = requests[r].phase
               /\ requests'[r].tree = requests[r].tree /\ requests'[r].base = requests[r].base
               /\ requests'[r].integrated \in 0..Len(hist')
    <2>1. /\ requests'[r].sub = requests[r].sub /\ requests'[r].phase = requests[r].phase
          /\ requests'[r].tree = requests[r].tree /\ requests'[r].base = requests[r].base
          /\ \/ requests'[r].integrated = requests[r].integrated
             \/ \E j \in DOMAIN journal : /\ journal[j].request = r /\ journal[j].target # 0
                                          /\ requests'[r].integrated = journal[j].target
      BY RecoverStep
    <2>2. requests[r].integrated \in 0..Len(hist)
      BY DEF Base, RequestsFit
    <2>3. \A j \in DOMAIN journal : journal[j].target \in 0..Len(hist)
      BY DEF Base, JournalFits
    <2> QED
      BY <1>1, <2>1, <2>2, <2>3
  <1>4. RequestsFit' /\ RequestsKept /\ DOMAIN requests' = DOMAIN requests
    BY <1>1, <1>2, <1>3, RewrittenRequests DEF Base
  <1>5. ItemsFit' /\ ItemsKept
    BY <1>1, <1>2, <1>4, SameItems DEF Base
  <1>6. JournalFits' /\ JournalKept
    BY <1>1, <1>2, <1>4, JournalRewritten DEF Base, JournalUpdated
  <1>7. BranchesFit'
    BY <1>1, <1>2, SameBranches DEF Base
  <1>8. SpentFits'
    BY <1>1 DEF Base, SpentFits
  <1> QED
    BY <1>1, <1>2, <1>4, <1>5, <1>6, <1>7, <1>8 DEF Base, Kept

(***************************************************************************)
(* The project is resumed.                                                 *)
(***************************************************************************)
LEMMA ResumeStep ==
    ASSUME Base, NEW other \in SUBSET DOMAIN requests, Resume(other)
    PROVE  /\ UNCHANGED git /\ Spend("invalid") /\ DOMAIN items' = DOMAIN items
           /\ items' \in [DOMAIN items -> Item]
           /\ requests' \in [DOMAIN requests -> Asked]
           /\ \A r \in DOMAIN requests :
                /\ requests'[r].sub = requests[r].sub /\ requests'[r].phase = requests[r].phase
                /\ requests'[r].tree = requests[r].tree /\ requests'[r].base = requests[r].base
                /\ requests'[r].integrated = requests[r].integrated
                /\ \/ requests'[r].status = requests[r].status
                   \/ requests[r].status = "passed" /\ requests'[r].status = "invalidated"
                   \/ /\ requests[r].status = "invalidated" /\ requests'[r].status = "passed"
                      /\ requests[r].integrated # 0
           /\ \A s \in DOMAIN items :
                /\ items'[s].deps = items[s].deps /\ items'[s].owned = items[s].owned
                /\ items'[s].base = items[s].base /\ items'[s].active \in {0, items[s].active}
                /\ OfSubtask(s) = {} => items'[s] = items[s]
                /\ items'[s].status = "passed" =>
                     \/ /\ items[s].status = "passed"
                        /\ \A r \in OfSubtask(s) :
                             requests[r].status = "passed" /\ requests[r].phase = "acceptance"
                             => requests'[r].status = "passed"
                     \/ \E r \in OfSubtask(s) :
                          requests'[r].status = "passed" /\ requests[r].phase = "acceptance"
  <1> DEFINE lost == Lost(other)
             back == Back(other)
  <1>1. /\ UNCHANGED git /\ Spend("invalid")
        /\ requests' = [r \in DOMAIN requests |->
                          IF r \in lost THEN [requests[r] EXCEPT !.status = "invalidated"]
                          ELSE IF r \in back THEN [requests[r] EXCEPT !.status = "passed"]
                          ELSE requests[r]]
        /\ items' = [s \in DOMAIN items |->
                       Compared(Compared(items[s], s, "chunk", other), s, "acceptance", other)]
    BY DEF Resume
  <1>3. /\ \A r \in lost : requests[r].status = "passed"
        /\ \A r \in back : requests[r].status = "invalidated" /\ requests[r].integrated # 0
    BY DEF Lost, Back
  <1>4. \A r \in lost \cup back : \E s \in DOMAIN items : r \in Latest(s, "chunk") \/ r \in Latest(s, "acceptance")
    BY DEF Lost, Back, Saved
  <1> HIDE DEF lost, back
  <1>5. ASSUME NEW r \in DOMAIN requests
        PROVE  /\ requests'[r] \in Asked
               /\ requests'[r].sub = requests[r].sub /\ requests'[r].phase = requests[r].phase
               /\ requests'[r].tree = requests[r].tree /\ requests'[r].base = requests[r].base
               /\ requests'[r].integrated = requests[r].integrated
               /\ requests'[r].status = IF r \in lost THEN "invalidated"
                                        ELSE IF r \in back THEN "passed" ELSE requests[r].status
    <2> DEFINE a == requests[r]
    <2>1. a \in Asked
      BY DEF Base, RequestsFit
    <2>2. requests'[r] = IF r \in lost THEN [a EXCEPT !.status = "invalidated"]
                         ELSE IF r \in back THEN [a EXCEPT !.status = "passed"] ELSE a
      BY <1>1
    <2> HIDE DEF a
    <2>3. ASSUME NEW status \in RequestStatuses
          PROVE  /\ [a EXCEPT !.status = status] \in Asked
                 /\ [a EXCEPT !.status = status].sub = a.sub
                 /\ [a EXCEPT !.status = status].phase = a.phase
                 /\ [a EXCEPT !.status = status].tree = a.tree
                 /\ [a EXCEPT !.status = status].base = a.base
                 /\ [a EXCEPT !.status = status].integrated = a.integrated
                 /\ [a EXCEPT !.status = status].status = status
      BY <2>1, RequestSettled
    <2>4. "invalidated" \in RequestStatuses /\ "passed" \in RequestStatuses
      BY DEF RequestStatuses
    <2>5. CASE r \in lost
      BY <2>2, <2>3, <2>4, <2>5 DEF a
    <2>6. CASE r \notin lost /\ r \in back
      BY <2>2, <2>3, <2>4, <2>6 DEF a
    <2>7. CASE r \notin lost /\ r \notin back
      BY <2>1, <2>2, <2>7 DEF a
    <2> QED
      BY <2>5, <2>6, <2>7
  <1>6. requests' \in [DOMAIN requests -> Asked]
    BY <1>1, <1>5
  <1>7. ASSUME NEW i \in Item, NEW s, NEW phase, NEW j, j = Compared(i, s, phase, other)
        PROVE  /\ j \in Item /\ j.deps = i.deps /\ j.owned = i.owned
               /\ j.base = i.base /\ j.active \in {0, i.active}
               /\ j.status # i.status => phase = "acceptance"
               /\ phase = "acceptance" /\ Latest(s, phase) \cap lost # {} => j.status = "open"
               /\ Latest(s, phase) \cap (lost \cup back) = {} => j = i
    <2>1. CASE Latest(s, phase) \cap lost # {}
      <3>1. j = Settled(i, phase, "open")
        BY <1>7, <2>1 DEF Compared, lost
      <3> QED
        BY <2>1, <3>1, ItemSettled
    <2>2. CASE Latest(s, phase) \cap lost = {} /\ Latest(s, phase) \cap back # {}
      <3>1. j = Settled(i, phase, "passed")
        BY <1>7, <2>2 DEF Compared, lost, back
      <3> QED
        BY <2>2, <3>1, ItemSettled
    <2>3. CASE Latest(s, phase) \cap lost = {} /\ Latest(s, phase) \cap back = {}
      <3>1. j = i
        BY <1>7, <2>3 DEF Compared, lost, back
      <3> QED
        BY <2>3, <3>1
    <2> QED
      BY <2>1, <2>2, <2>3
  <1>8. ASSUME NEW s \in DOMAIN items
        PROVE  /\ items'[s] \in Item
               /\ items'[s].deps = items[s].deps /\ items'[s].owned = items[s].owned
               /\ items'[s].base = items[s].base /\ items'[s].active \in {0, items[s].active}
               /\ OfSubtask(s) = {} => items'[s] = items[s]
               /\ items'[s].status = "passed" =>
                    \/ /\ items[s].status = "passed"
                       /\ \A r \in OfSubtask(s) :
                            requests[r].status = "passed" /\ requests[r].phase = "acceptance"
                            => requests'[r].status = "passed"
                    \/ \E r \in OfSubtask(s) :
                         requests'[r].status = "passed" /\ requests[r].phase = "acceptance"
    <2> DEFINE first == Compared(items[s], s, "chunk", other)
               last == Latest(s, "acceptance")
    <2>1. items[s] \in Item
      BY DEF Base, ItemsFit
    <2>2. items'[s] = Compared(first, s, "acceptance", other)
      BY <1>1
    <2>3. /\ first \in Item /\ first.deps = items[s].deps /\ first.owned = items[s].owned
          /\ first.base = items[s].base /\ first.active \in {0, items[s].active}
          /\ first.status = items[s].status
          /\ Latest(s, "chunk") = {} => first = items[s]
      <3> HIDE DEF first
      <3>1. first = Compared(items[s], s, "chunk", other)
        BY DEF first
      <3> QED
        BY <1>7, <2>1, <3>1
    <2> HIDE DEF first
    <2>4. /\ items'[s] \in Item /\ items'[s].deps = first.deps /\ items'[s].owned = first.owned
          /\ items'[s].base = first.base /\ items'[s].active \in {0, first.active}
          /\ last \cap lost # {} => items'[s].status = "open"
          /\ last \cap (lost \cup back) = {} => items'[s] = first
      BY <1>7, <2>2, <2>3
    <2>5. OfSubtask(s) = {} => items'[s] = items[s]
      <3>1. OfSubtask(s) = {} => last = {} /\ Latest(s, "chunk") = {}
        BY DEF Latest
      <3> QED
        BY <2>3, <2>4, <3>1
    <2>6. ASSUME NEW r \in OfSubtask(s), requests[r].phase = "acceptance", r \in lost \cup back
          PROVE  r \in last
      <3>1. PICK t \in DOMAIN items : r \in Latest(t, "chunk") \/ r \in Latest(t, "acceptance")
        BY <1>4, <2>6
      <3> QED
        BY <2>6, <3>1 DEF Latest, OfSubtask
    <2>7. ASSUME items'[s].status = "passed"
          PROVE  \/ /\ items[s].status = "passed"
                    /\ \A r \in OfSubtask(s) :
                         requests[r].status = "passed" /\ requests[r].phase = "acceptance"
                         => requests'[r].status = "passed"
                 \/ \E r \in OfSubtask(s) :
                      requests'[r].status = "passed" /\ requests[r].phase = "acceptance"
      <3>1. last \cap lost = {}
        BY <2>4, <2>7
      <3>2. CASE last \cap back # {}
        <4>1. PICK r \in last : r \in back
          BY <3>2
        <4>2. r \in OfSubtask(s) /\ r \in DOMAIN requests /\ requests[r].phase = "acceptance" /\ r \notin lost
          BY <3>1, <4>1 DEF Latest, OfSubtask
        <4>3. requests'[r].status = "passed"
          BY <1>5, <4>1, <4>2
        <4> QED
          BY <4>2, <4>3
      <3>3. CASE last \cap back = {}
        <4>1. items[s].status = "passed"
          BY <2>3, <2>4, <2>7, <3>1, <3>3
        <4>2. ASSUME NEW r \in OfSubtask(s), requests[r].status = "passed",
                     requests[r].phase = "acceptance"
              PROVE  requests'[r].status = "passed"
          <5>1. r \in DOMAIN requests /\ r \notin lost
            BY <2>6, <3>1, <4>2 DEF OfSubtask
          <5> QED
            BY <1>5, <4>2, <5>1
        <4> QED
          BY <4>1, <4>2
      <3> QED
        BY <3>2, <3>3
    <2> QED
      BY <2>3, <2>4, <2>5, <2>7
  <1>9. DOMAIN items' = DOMAIN items /\ items' = [s \in DOMAIN items |-> items'[s]]
    BY <1>1
  <1>10. items' \in [DOMAIN items -> Item]
    BY <1>8, <1>9
  <1>11. \A r \in DOMAIN requests :
           \/ requests'[r].status = requests[r].status
           \/ requests[r].status = "passed" /\ requests'[r].status = "invalidated"
           \/ /\ requests[r].status = "invalidated" /\ requests'[r].status = "passed"
              /\ requests[r].integrated # 0
    BY <1>3, <1>5
  <1> QED
    BY <1>1, <1>5, <1>6, <1>8, <1>9, <1>10, <1>11

LEMMA ResumeFits ==
    ASSUME Base, NEW other \in SUBSET DOMAIN requests, Resume(other)
    PROVE  Base' /\ Kept /\ DOMAIN requests' = DOMAIN requests
  <1>1. /\ UNCHANGED git /\ Spend("invalid") /\ DOMAIN items' = DOMAIN items
        /\ items' \in [DOMAIN items -> Item] /\ requests' \in [DOMAIN requests -> Asked]
    BY ResumeStep
  <1>2. HistoryFits' /\ HistoryKept /\ hist' = hist
    BY <1>1, GitSame DEF git
  <1>3. ASSUME NEW r \in DOMAIN requests
        PROVE  /\ requests'[r].sub = requests[r].sub /\ requests'[r].phase = requests[r].phase
               /\ requests'[r].tree = requests[r].tree /\ requests'[r].base = requests[r].base
               /\ requests'[r].integrated \in 0..Len(hist')
    <2>1. requests[r].integrated \in 0..Len(hist)
      BY DEF Base, RequestsFit
    <2> QED
      BY <1>2, <2>1, ResumeStep
  <1>4. RequestsFit' /\ RequestsKept /\ DOMAIN requests' = DOMAIN requests
    BY <1>1, <1>2, <1>3, RewrittenRequests DEF Base
  <1>5. ASSUME NEW s \in DOMAIN items
        PROVE  /\ items'[s].deps = items[s].deps /\ items'[s].owned = items[s].owned
               /\ items'[s].deps \subseteq DOMAIN items' /\ items'[s].base \in 1..Len(hist')
               /\ items'[s].active \in 0..Len(requests')
    <2>1. /\ items'[s].deps = items[s].deps /\ items'[s].owned = items[s].owned
          /\ items'[s].base = items[s].base /\ items'[s].active \in {0, items[s].active}
      BY ResumeStep
    <2>2. /\ items[s].deps \subseteq DOMAIN items /\ items[s].base \in 1..Len(hist)
          /\ items[s].active \in 0..Len(requests)
      BY DEF Base, ItemsFit
    <2>3. Len(requests) \in Nat /\ Len(requests') \in Nat /\ Len(requests) <= Len(requests')
      BY <1>4 DEF Base, RequestsFit, RequestsKept
    <2> QED
      BY <1>1, <1>2, <2>1, <2>2, <2>3
  <1>6. ItemsFit' /\ ItemsKept
    BY <1>1, <1>5 DEF Base, ItemsFit, ItemsKept
  <1>7. SpentFits'
    BY <1>1, SpendStep DEF Base, Kinds
  <1> QED
    BY <1>1, <1>4, <1>6, <1>7, GitAssembled

(***************************************************************************)
(* Every step keeps the records as they are described above.               *)
(***************************************************************************)
LEMMA BaseAtFirst ==
    ASSUME Init PROVE Base
  <1> USE SubtaskAssumption
  <1>1. Baseline \in Trees
    BY DEF Baseline, Trees
  <1>2. /\ items = <<>> /\ requests = <<>> /\ branch = [s \in Subtasks |-> Baseline]
        /\ at = [s \in Subtasks |-> 0] /\ hist = <<Baseline>> /\ work = 1 /\ edited = FALSE
        /\ journal = <<>> /\ spent = [k \in Kinds |-> 0]
    BY DEF Init
  <1>3. ItemsFit
    BY <1>2 DEF ItemsFit
  <1>4. RequestsFit /\ JournalFits
    BY <1>2 DEF RequestsFit, JournalFits
  <1>5. HistoryFits
    <2>1. hist \in Seq(Trees) /\ Len(hist) = 1
      BY <1>1, <1>2
    <2>2. work \in 1..Len(hist)
      BY <1>2, <2>1
    <2>3. edited \in BOOLEAN
      BY <1>2
    <2> QED
      BY <2>1, <2>2, <2>3 DEF HistoryFits
  <1>6. BranchesFit
    BY <1>1, <1>2 DEF BranchesFit
  <1>7. SpentFits
    BY <1>2 DEF SpentFits
  <1> QED
    BY <1>3, <1>4, <1>5, <1>6, <1>7 DEF Base

LEMMA Still ==
    ASSUME Base, UNCHANGED vars
    PROVE  Base' /\ Kept
  <1>1. /\ items' = items /\ requests' = requests /\ spent' = spent /\ UNCHANGED git
    BY DEF vars, git
  <1>2. HistoryFits' /\ HistoryKept
    BY <1>1, GitSame
  <1>3. RequestsFit' /\ RequestsKept
    BY <1>1, <1>2, SameRequests DEF Base
  <1>4. ItemsFit' /\ ItemsKept
    BY <1>1, <1>2, <1>3, SameItems DEF Base
  <1>5. SpentFits'
    BY <1>1 DEF Base, SpentFits
  <1> QED
    BY <1>1, <1>3, <1>4, <1>5, GitAssembled

\* Next, action by action.
LEMMA Cases ==
    ASSUME [Next]_vars
    PROVE  \/ \E batch \in SUBSET (Subtasks \ DOMAIN items) :
                 \E deps \in [batch -> SUBSET (batch \cup DOMAIN items)], owned \in [batch -> Scopes] :
                    Declare(batch, deps, owned)
           \/ \E s \in DOMAIN items : DeclareChunks(s)
           \/ \E s \in DOMAIN items : Supersede(s)
           \/ \E s \in DOMAIN items : Start(s)
           \/ \E s \in DOMAIN items : StartUndone(s)
           \/ \E s \in DOMAIN items : \E written \in SUBSET items[s].owned : Commit(s, written)
           \/ \E s \in DOMAIN items, phase \in {"chunk", "acceptance"} : RequestReview(s, phase)
           \/ \E r \in DOMAIN requests : Fail(r)
           \/ \E r \in DOMAIN requests : PassChunk(r)
           \/ \E r \in DOMAIN requests : Withdraw(r)
           \/ \E r \in DOMAIN requests : Reopen(r)
           \/ \E r \in DOMAIN requests, upto \in {"intent", "moved", "reset", "done", "recorded"} :
                 Pass(r, upto)
           \/ Recover \/ HandEdit \/ PutAway
           \/ \E other \in SUBSET DOMAIN requests : Resume(other)
           \/ UNCHANGED vars
  BY Zenon DEF Next, Planning, Working, Reviewing

LEMMA BaseStep ==
    ASSUME Base, [Next]_vars
    PROVE  Base' /\ Kept
  <1>1. CASE \E batch \in SUBSET (Subtasks \ DOMAIN items) :
               \E deps \in [batch -> SUBSET (batch \cup DOMAIN items)], owned \in [batch -> Scopes] :
                  Declare(batch, deps, owned)
    BY <1>1, DeclareFits
  <1>2. CASE \E s \in DOMAIN items : DeclareChunks(s)
    BY <1>2, DeclareChunksFits
  <1>3. CASE \E s \in DOMAIN items : Supersede(s)
    BY <1>3, SupersedeFits
  <1>4. CASE \E s \in DOMAIN items : Start(s)
    BY <1>4, StartFits
  <1>5. CASE \E s \in DOMAIN items : StartUndone(s)
    BY <1>5, StartUndoneFits
  <1>6. CASE \E s \in DOMAIN items : \E written \in SUBSET items[s].owned : Commit(s, written)
    BY <1>6, CommitFits
  <1>7. CASE \E s \in DOMAIN items, phase \in {"chunk", "acceptance"} : RequestReview(s, phase)
    BY <1>7, RequestReviewFits
  <1>8. CASE \E r \in DOMAIN requests : Fail(r) \/ PassChunk(r) \/ Reopen(r)
    BY <1>8, SettlingFits
  <1>9. CASE \E r \in DOMAIN requests : Withdraw(r)
    BY <1>9, WithdrawFits
  <1>10. CASE \E r \in DOMAIN requests, upto \in {"intent", "moved", "reset", "done", "recorded"} :
                Pass(r, upto)
    BY <1>10, PassFits
  <1>11. CASE Recover
    BY <1>11, RecoverFits
  <1>12. CASE HandEdit \/ PutAway
    BY <1>12, EditingFits
  <1>13. CASE \E other \in SUBSET DOMAIN requests : Resume(other)
    BY <1>13, ResumeFits
  <1>14. CASE UNCHANGED vars
    BY <1>14, Still
  <1> QED
    BY <1>1, <1>2, <1>3, <1>4, <1>5, <1>6, <1>7, <1>8, <1>9, <1>10, <1>11, <1>12, <1>13, <1>14, Cases

LEMMA BaseTypes ==
    ASSUME Base PROVE TypeOK
  <1> USE SubtaskAssumption DEF Base
  <1>1. DOMAIN items \subseteq Subtasks
    BY DEF ItemsFit
  <1>2. ASSUME NEW s \in DOMAIN items
        PROVE  items[s] \in [status : Statuses, pipe : Pipelines, deps : SUBSET DOMAIN items, owned : Scopes,
                             base : 1..Len(hist), active : 0..Len(requests),
                             chunk : {"none", "open", "passed"}]
    <2>1. /\ items[s] \in Item /\ items[s].deps \subseteq DOMAIN items
          /\ items[s].base \in 1..Len(hist) /\ items[s].active \in 0..Len(requests)
      BY DEF ItemsFit
    <2> QED
      BY <2>1 DEF Item
  <1>3. ASSUME NEW r \in DOMAIN requests
        PROVE  requests[r] \in [sub : DOMAIN items, phase : {"chunk", "acceptance"}, tree : Trees,
                                base : 1..Len(hist), current : BOOLEAN, integrated : 0..Len(hist),
                                status : {"open", "passed", "failed", "invalidated", "withdrawn"}]
    <2>1. /\ requests[r] \in Asked /\ requests[r].sub \in DOMAIN items
          /\ requests[r].base \in 1..Len(hist) /\ requests[r].integrated \in 0..Len(hist)
      BY DEF RequestsFit
    <2> QED
      BY <2>1 DEF Asked, RequestStatuses
  <1>4. branch \in [Subtasks -> Trees] /\ at \in [Subtasks -> 0..Len(hist)]
    BY DEF BranchesFit
  <1>5. (\A n \in DOMAIN hist : hist[n] \in Trees) /\ work \in DOMAIN hist /\ edited \in BOOLEAN
    BY DEF HistoryFits
  <1>6. ASSUME NEW j \in DOMAIN journal
        PROVE  journal[j] \in [request : DOMAIN requests, prev : 1..Len(hist), target : 0..Len(hist),
                               done : BOOLEAN, held : BOOLEAN]
    <2>1. /\ journal[j] \in Fold /\ journal[j].request \in DOMAIN requests
          /\ journal[j].prev \in 1..Len(hist) /\ journal[j].target \in 0..Len(hist)
      BY DEF JournalFits
    <2> QED
      BY <2>1 DEF Fold
  <1>7. \A k \in Kinds : spent[k] \in 0..Budget[k]
    BY DEF SpentFits
  <1> QED
    BY <1>1, <1>2, <1>3, <1>4, <1>5, <1>6, <1>7 DEF TypeOK

LEMMA BaseAlways == Spec => []Base
  <1>1. Init => Base
    BY BaseAtFirst
  <1>2. Base /\ [Next]_vars => Base'
    BY BaseStep
  <1> QED
    BY <1>1, <1>2, PTL DEF Spec

(***************************************************************************)
(* HandEditKept: an edit in the task worktree is put away by its author,   *)
(* and by nobody else.  A PASS folds only into a worktree without edits,   *)
(* the repair of a fold leaves an edited one alone, and every other        *)
(* operation does not write to it (fold and recover of git_broker.py).     *)
(***************************************************************************)
LEMMA EditStays ==
    ASSUME Base, [Next]_vars, edited, ~edited'
    PROVE  PutAway
  <1>1. \A r \in DOMAIN requests, upto \in {"intent", "moved", "reset", "done", "recorded"} :
          ~Pass(r, upto)
    BY PassStep
  <1>2. ~Recover
    BY RecoverStep
  <1>3. ASSUME UNCHANGED git
        PROVE  FALSE
    BY <1>3 DEF git
  <1>4. ~UNCHANGED vars
    BY DEF vars
  <1>5. ~HandEdit
    BY DEF HandEdit
  <1>6. ASSUME edited' = edited
        PROVE  FALSE
    BY <1>6
  <1>7. \A s \in DOMAIN items : ~DeclareChunks(s) /\ ~Supersede(s) /\ ~Start(s) /\ ~StartUndone(s)
    BY <1>3, <1>6 DEF DeclareChunks, Supersede, Start, StartUndone
  <1>8. \A s \in DOMAIN items : \A written, phase : ~Commit(s, written) /\ ~RequestReview(s, phase)
    BY <1>3, <1>6 DEF Commit, RequestReview
  <1>9. \A r \in DOMAIN requests : ~Fail(r) /\ ~PassChunk(r) /\ ~Withdraw(r) /\ ~Reopen(r)
    BY <1>3 DEF Fail, PassChunk, Withdraw, Reopen
  <1>10. \A other : ~Resume(other)
    BY <1>3 DEF Resume
  <1>11. \A batch, deps, owned : ~Declare(batch, deps, owned)
    BY <1>6 DEF Declare
  <1> QED
    BY <1>1, <1>2, <1>4, <1>5, <1>7, <1>8, <1>9, <1>10, <1>11, Cases

\* No step of the board or of the broker discards what somebody edited in the task
\* worktree: not a fold, nor the repair of one that died (git_broker.py, the look
\* for uncommitted edits before each reset).
THEOREM EditsAreKept == Spec => HandEditKept
  <1>1. Base /\ [Next]_vars => [edited /\ ~edited' => PutAway]_vars
    BY EditStays
  <1> QED
    BY <1>1, BaseAlways, PTL DEF Spec, HandEditKept

(***************************************************************************)
(* PassedIsInHistory.  The steps that fold are Pass and Recover; of the    *)
(* others it matters which PASSes they leave, and that a subtask goes on   *)
(* from the base it began with unless it is started anew.                  *)
(***************************************************************************)
Begun(s) == items[s].pipe \in {"in_progress", "in_review"} \/ OfSubtask(s) # {}

Quiet ==
    /\ hist' = hist /\ journal' = journal
    /\ \A r \in DOMAIN requests :
          /\ requests'[r].integrated = requests[r].integrated
          /\ requests[r].status # "open" => requests'[r].status # "open"
          /\ requests'[r].status = "passed" =>
                \/ requests[r].status = "passed" \/ requests[r].phase = "chunk"
                \/ requests[r].integrated # 0
    /\ \A r \in DOMAIN requests' \ DOMAIN requests :
          requests'[r].status = "open" /\ requests'[r].integrated = 0
    /\ \A s \in DOMAIN items' : items'[s].status = "passed" =>
          \/ /\ s \in DOMAIN items /\ items[s].status = "passed"
             /\ \A r \in OfSubtask(s) :
                  requests[r].status = "passed" /\ requests[r].phase = "acceptance"
                  => requests'[r].status = "passed"
          \/ \E r \in OfSubtask(s) : requests'[r].status = "passed" /\ requests[r].phase = "acceptance"

Founded ==
    \A s \in DOMAIN items' : Begun(s)' =>
       /\ s \in DOMAIN items
       /\ \/ Begun(s) /\ items'[s].base = items[s].base
          \/ DependenciesPassed(s) /\ items'[s].base = Len(hist)

LEMMA SameScopes ==
    ASSUME Base, Base', RequestsKept, DOMAIN requests' = DOMAIN requests, NEW s
    PROVE  OfSubtask(s)' = OfSubtask(s)
  <1>1. DOMAIN requests = 1..Len(requests)
    BY DEF Base, RequestsFit
  <1>2. \A r \in DOMAIN requests : requests'[r].sub = requests[r].sub
    BY <1>1 DEF RequestsKept
  <1> QED
    BY <1>2 DEF OfSubtask

\* Steps after which the requests are the same, or only older.
LEMMA QuietPlan ==
    ASSUME Base, Base', Kept, hist' = hist, journal' = journal, DOMAIN requests' = DOMAIN requests,
           \A r \in DOMAIN requests : /\ requests'[r].status = requests[r].status
                                      /\ requests'[r].integrated = requests[r].integrated,
           \A s \in DOMAIN items' : items'[s].status = "passed" =>
              s \in DOMAIN items /\ items[s].status = "passed"
    PROVE  Quiet
  <1>1. \A s, r : r \in OfSubtask(s) => r \in DOMAIN requests
    BY DEF OfSubtask
  <1> QED
    BY <1>1 DEF Quiet

LEMMA FoundedPlan ==
    ASSUME Base, Base', Kept, DOMAIN requests' = DOMAIN requests,
           \A s \in DOMAIN items' : items'[s].pipe \in {"in_progress", "in_review"} \/ s \in DOMAIN items =>
              /\ s \in DOMAIN items
              /\ \/ /\ items'[s].base = items[s].base
                    /\ items'[s].pipe \in {"in_progress", "in_review"} => Begun(s)
                 \/ DependenciesPassed(s) /\ items'[s].base = Len(hist)
    PROVE  Founded
  <1>1. \A s : OfSubtask(s)' = OfSubtask(s)
    BY SameScopes DEF Kept
  <1>2. \A s : OfSubtask(s) # {} => s \in DOMAIN items
    BY DEF OfSubtask, Base, RequestsFit
  <1>3. \A s : Begun(s)' => items'[s].pipe \in {"in_progress", "in_review"} \/ OfSubtask(s) # {}
    BY <1>1 DEF Begun
  <1>4. \A s : OfSubtask(s) # {} => Begun(s)
    BY DEF Begun
  <1> QED
    BY <1>2, <1>3, <1>4 DEF Founded

LEMMA DeclareQuiet ==
    ASSUME Base, NEW batch \in SUBSET (Subtasks \ DOMAIN items),
           NEW deps \in [batch -> SUBSET (batch \cup DOMAIN items)], NEW owned \in [batch -> Scopes],
           Declare(batch, deps, owned)
    PROVE  Quiet /\ Founded
  <1>1. Base' /\ Kept
    BY DeclareFits
  <1>2. /\ DOMAIN items' = batch \cup DOMAIN items
        /\ \A s \in DOMAIN items : items'[s] = items[s]
        /\ \A s \in batch : items'[s].status = "open" /\ items'[s].pipe = "pending"
    <2>1. /\ DOMAIN items' = batch \cup DOMAIN items
          /\ \A s \in DOMAIN items : items'[s] = items[s]
          /\ \A s \in batch :
               items'[s] = [status |-> "open", pipe |-> "pending", deps |-> deps[s], owned |-> owned[s],
                            base |-> Tip, active |-> 0, chunk |-> "none"]
      BY Declared
    <2>2. ASSUME NEW s \in batch
          PROVE  items'[s].status = "open" /\ items'[s].pipe = "pending"
      BY <2>1
    <2> QED
      BY <2>1, <2>2
  <1>3. hist' = hist /\ journal' = journal /\ Restructured
    BY DEF Declare
  <1>4. /\ DOMAIN requests' = DOMAIN requests
        /\ \A r \in DOMAIN requests : /\ requests'[r].status = requests[r].status
                                      /\ requests'[r].integrated = requests[r].integrated
    BY <1>1, <1>3, RestructuredStep DEF Base, Kept, ItemsKept
  <1>5. Quiet
    BY <1>1, <1>2, <1>3, <1>4, QuietPlan
  <1>6. Founded
    <2>1. ASSUME NEW s \in DOMAIN items',
                 items'[s].pipe \in {"in_progress", "in_review"} \/ s \in DOMAIN items
          PROVE  /\ s \in DOMAIN items /\ items'[s].base = items[s].base
                 /\ items'[s].pipe \in {"in_progress", "in_review"} => Begun(s)
      BY <1>2, <2>1 DEF Begun
    <2> QED
      BY <1>1, <1>4, <2>1, FoundedPlan
  <1> QED
    BY <1>5, <1>6

LEMMA DeclareChunksQuiet ==
    ASSUME Base, NEW s \in DOMAIN items, DeclareChunks(s)
    PROVE  Quiet /\ Founded
  <1>1. Base' /\ Kept
    BY DeclareChunksFits
  <1>2. /\ hist' = hist /\ journal' = journal /\ Restructured
        /\ items' = [items EXCEPT ![s].chunk = "open", ![s].status = "open",
                                  ![s].pipe = "pending", ![s].active = 0]
    BY DEF DeclareChunks, git
  <1>3. items[s] \in Item
    BY DEF Base, ItemsFit
  <1>4. /\ DOMAIN items' = DOMAIN items /\ items'[s].status = "open" /\ items'[s].pipe = "pending"
        /\ items'[s].base = items[s].base
        /\ \A t \in DOMAIN items \ {s} : items'[t] = items[t]
    BY <1>2, <1>3 DEF Item
  <1>5. /\ DOMAIN requests' = DOMAIN requests
        /\ \A r \in DOMAIN requests : /\ requests'[r].status = requests[r].status
                                      /\ requests'[r].integrated = requests[r].integrated
    BY <1>1, <1>2, RestructuredStep DEF Base, Kept, ItemsKept
  <1>6. Quiet
    BY <1>1, <1>2, <1>4, <1>5, QuietPlan
  <1>7. Founded
    <2>1. ASSUME NEW t \in DOMAIN items'
          PROVE  /\ t \in DOMAIN items /\ items'[t].base = items[t].base
                 /\ items'[t].pipe \in {"in_progress", "in_review"} => Begun(t)
      BY <1>4 DEF Begun
    <2> QED
      BY <1>1, <1>5, <2>1, FoundedPlan
  <1> QED
    BY <1>6, <1>7

LEMMA SupersedeQuiet ==
    ASSUME Base, NEW s \in DOMAIN items, Supersede(s)
    PROVE  Quiet /\ Founded
  <1>1. Base' /\ Kept
    BY SupersedeFits
  <1>2. /\ hist' = hist /\ journal' = journal /\ requests' = requests
        /\ items' = [items EXCEPT ![s].status = "superseded", ![s].pipe = "superseded"]
    BY DEF Supersede, git
  <1>3. items[s] \in Item
    BY DEF Base, ItemsFit
  <1>4. /\ DOMAIN items' = DOMAIN items /\ items'[s].status = "superseded" /\ items'[s].pipe = "superseded"
        /\ items'[s].base = items[s].base
        /\ \A t \in DOMAIN items \ {s} : items'[t] = items[t]
    BY <1>2, <1>3 DEF Item
  <1>5. Quiet
    BY <1>1, <1>2, <1>4, QuietPlan
  <1>6. Founded
    <2>1. ASSUME NEW t \in DOMAIN items'
          PROVE  /\ t \in DOMAIN items /\ items'[t].base = items[t].base
                 /\ items'[t].pipe \in {"in_progress", "in_review"} => Begun(t)
      BY <1>4 DEF Begun
    <2> QED
      BY <1>1, <1>2, <2>1, FoundedPlan
  <1> QED
    BY <1>5, <1>6

LEMMA StartQuiet ==
    ASSUME Base, NEW s \in DOMAIN items, Start(s)
    PROVE  Quiet /\ Founded
  <1>1. Base' /\ Kept
    BY StartFits
  <1>2. /\ hist' = hist /\ journal' = journal /\ requests' = requests /\ DependenciesPassed(s)
        /\ items' = [items EXCEPT ![s].pipe = "in_progress", ![s].base = Tip]
    BY DEF Start, Startable
  <1>3. items[s] \in Item
    BY DEF Base, ItemsFit
  <1>4. /\ DOMAIN items' = DOMAIN items /\ items'[s].status = items[s].status
        /\ items'[s].base = Len(hist)
        /\ \A t \in DOMAIN items \ {s} : items'[t] = items[t]
    BY <1>2, <1>3 DEF Item, Tip
  <1>5. Quiet
    BY <1>1, <1>2, <1>4, QuietPlan
  <1>6. Founded
    <2>1. ASSUME NEW t \in DOMAIN items'
          PROVE  /\ t \in DOMAIN items
                 /\ \/ /\ items'[t].base = items[t].base
                       /\ items'[t].pipe \in {"in_progress", "in_review"} => Begun(t)
                    \/ DependenciesPassed(t) /\ items'[t].base = Len(hist)
      BY <1>2, <1>4 DEF Begun
    <2> QED
      BY <1>1, <1>2, <2>1, FoundedPlan
  <1> QED
    BY <1>5, <1>6

\* Steps that touch neither the plan nor a request.
LEMMA ElsewhereQuiet ==
    ASSUME Base, Base', Kept, items' = items, requests' = requests
    PROVE  Founded /\ (hist' = hist /\ journal' = journal => Quiet)
  <1>1. hist' = hist /\ journal' = journal => Quiet
    BY QuietPlan
  <1>2. Founded
    <2>1. ASSUME NEW t \in DOMAIN items'
          PROVE  /\ t \in DOMAIN items /\ items'[t].base = items[t].base
                 /\ items'[t].pipe \in {"in_progress", "in_review"} => Begun(t)
      BY DEF Begun
    <2> QED
      BY <2>1, FoundedPlan
  <1> QED
    BY <1>1, <1>2

LEMMA RequestReviewQuiet ==
    ASSUME Base, NEW s \in DOMAIN items, NEW phase \in {"chunk", "acceptance"}, RequestReview(s, phase)
    PROVE  Quiet /\ Founded
  <1> DEFINE a == [sub |-> s, phase |-> phase, tree |-> branch[s], base |-> items[s].base,
                   current |-> TRUE, integrated |-> 0, status |-> "open"]
  <1>1. Base' /\ Kept
    BY RequestReviewFits
  <1>2. /\ hist' = hist /\ journal' = journal /\ requests' = Append(requests, a)
        /\ items' = [items EXCEPT ![s].pipe = "in_review", ![s].active = Len(requests')]
        /\ Effective(s) = "in_progress"
    BY DEF RequestReview, git
  <1>3. items[s] \in Item /\ requests \in Seq(Asked) /\ a \in Asked
    BY Requested DEF Base, ItemsFit, RequestsFit
  <1>4. /\ DOMAIN items' = DOMAIN items /\ items'[s].status = items[s].status
        /\ items'[s].base = items[s].base
        /\ \A t \in DOMAIN items \ {s} : items'[t] = items[t]
    BY <1>2, <1>3 DEF Item
  <1>5. a.sub = s /\ a.status = "open" /\ a.integrated = 0
    OBVIOUS
  <1> HIDE DEF a
  <1>6. /\ DOMAIN requests' = DOMAIN requests \cup {Len(requests) + 1}
        /\ requests'[Len(requests) + 1] = a
        /\ \A r \in DOMAIN requests : requests'[r] = requests[r]
    BY <1>2, <1>3
  <1>7. Quiet
    <2>1. \A t, r : r \in OfSubtask(t) => r \in DOMAIN requests
      BY DEF OfSubtask
    <2>2. \A r \in DOMAIN requests' \ DOMAIN requests : requests'[r].status = "open" /\ requests'[r].integrated = 0
      BY <1>5, <1>6
    <2>3. \A t \in DOMAIN items' : items'[t].status = "passed" => t \in DOMAIN items /\ items[t].status = "passed"
      BY <1>4
    <2> QED
      BY <1>2, <1>6, <2>1, <2>2, <2>3 DEF Quiet
  <1>8. Founded
    <2>1. items[s].pipe = "in_progress"
      <3>1. "in_progress" # "in_review" /\ "in_progress" # "passed"
        OBVIOUS
      <3> QED
        BY <1>2, <3>1 DEF Effective
    <2>2. ASSUME NEW t \in DOMAIN items, t # s
          PROVE  OfSubtask(t)' = OfSubtask(t)
      BY <1>5, <1>6, <2>2 DEF OfSubtask
    <2>3. ASSUME NEW t \in DOMAIN items', Begun(t)'
          PROVE  t \in DOMAIN items /\ Begun(t) /\ items'[t].base = items[t].base
      BY <1>4, <2>1, <2>2, <2>3 DEF Begun
    <2> QED
      BY <2>3 DEF Founded
  <1> QED
    BY <1>7, <1>8
LEMMA SettleQuiet ==
    ASSUME Base, Base', Kept, UNCHANGED git, NEW r \in DOMAIN requests, NEW status \in RequestStatuses,
           NEW result \in {"open", "passed"}, Settle(r, status, result), status # "open",
           status = "passed" => requests[r].phase = "chunk" /\ Open(r),
           result = "passed" => requests[r].phase = "chunk"
    PROVE  Quiet /\ Founded
  <1> DEFINE s == requests[r].sub
             i == Settled(items[s], requests[r].phase, result)
  <1>1. /\ requests' = [requests EXCEPT ![r].status = status] /\ items' = [items EXCEPT ![s] = i]
        /\ hist' = hist /\ journal' = journal
    BY DEF Settle, git
  <1>2. s \in DOMAIN items /\ items[s] \in Item /\ r \in OfSubtask(s)
    BY DEF Base, RequestsFit, ItemsFit, OfSubtask
  <1>3. /\ i.base = items[s].base
        /\ i.status = IF requests[r].phase = "acceptance" THEN result ELSE items[s].status
    BY <1>2, ItemSettled
  <1> HIDE DEF i
  <1>4. /\ DOMAIN items' = DOMAIN items /\ items'[s] = i
        /\ \A t \in DOMAIN items \ {s} : items'[t] = items[t]
    BY <1>1, <1>2
  <1>5. /\ DOMAIN requests' = DOMAIN requests
        /\ \A q \in DOMAIN requests :
             /\ requests'[q].integrated = requests[q].integrated
             /\ requests'[q].status = IF q = r THEN status ELSE requests[q].status
    BY <1>1, <1>4, OneRequest
  <1> HIDE DEF s
  <1>6. \A t, q : q \in OfSubtask(t) => q \in DOMAIN requests /\ requests[q].sub = t
    BY DEF OfSubtask
  <1>7. ASSUME NEW t \in DOMAIN items', items'[t].status = "passed"
        PROVE  /\ t \in DOMAIN items /\ items[t].status = "passed"
               /\ \A q \in OfSubtask(t) :
                    requests[q].status = "passed" /\ requests[q].phase = "acceptance"
                    => requests'[q].status = "passed"
    <2>1. CASE t = s
      <3>1. requests[r].phase # "acceptance"
        BY <1>3, <1>4, <1>7, <2>1
      <3> QED
        BY <1>3, <1>4, <1>5, <1>6, <1>7, <2>1, <3>1
    <2>2. CASE t # s
      <3>1. r \notin OfSubtask(t)
        BY <2>2 DEF OfSubtask, s
      <3> QED
        BY <1>4, <1>5, <1>6, <1>7, <2>2, <3>1
    <2> QED
      BY <2>1, <2>2
  <1>8. Quiet
    BY <1>1, <1>5, <1>7 DEF Quiet
  <1>9. Founded
    <2>1. ASSUME NEW t \in DOMAIN items'
          PROVE  /\ t \in DOMAIN items /\ items'[t].base = items[t].base
                 /\ items'[t].pipe \in {"in_progress", "in_review"} => Begun(t)
      BY <1>2, <1>3, <1>4 DEF Begun
    <2> QED
      BY <1>5, <2>1, FoundedPlan
  <1> QED
    BY <1>8, <1>9

LEMMA SettlingQuiet ==
    ASSUME Base, NEW r \in DOMAIN requests, Fail(r) \/ PassChunk(r) \/ Reopen(r)
    PROVE  Quiet /\ Founded
  <1> USE DEF RequestStatuses
  <1>1. Base' /\ Kept
    BY SettlingFits
  <1>2. CASE Fail(r)
    <2>1. Settle(r, "failed", "open") /\ UNCHANGED git
      BY <1>2 DEF Fail
    <2> QED
      BY <1>1, <2>1, SettleQuiet
  <1>3. CASE PassChunk(r)
    <2>1. Settle(r, "passed", "passed") /\ UNCHANGED git /\ Open(r) /\ requests[r].phase = "chunk"
      BY <1>3 DEF PassChunk
    <2> QED
      BY <1>1, <2>1, SettleQuiet
  <1>4. CASE Reopen(r)
    <2>1. Settle(r, "invalidated", "open") /\ UNCHANGED git
      BY <1>4 DEF Reopen
    <2> QED
      BY <1>1, <2>1, SettleQuiet
  <1> QED
    BY <1>2, <1>3, <1>4

LEMMA WithdrawQuiet ==
    ASSUME Base, NEW r \in DOMAIN requests, Withdraw(r)
    PROVE  Quiet /\ Founded
  <1> DEFINE s == requests[r].sub
             i == Freed(items[s], r)
  <1>1. Base' /\ Kept
    BY WithdrawFits
  <1>2. /\ requests' = [requests EXCEPT ![r].status = "withdrawn"] /\ items' = [items EXCEPT ![s] = i]
        /\ UNCHANGED git /\ hist' = hist /\ journal' = journal /\ Open(r)
    BY DEF Withdraw, git
  <1>3. s \in DOMAIN items /\ items[s] \in Item /\ r \in OfSubtask(s)
    BY DEF Base, RequestsFit, ItemsFit, OfSubtask
  <1>4. i.base = items[s].base /\ i.status = items[s].status
    BY <1>3, ItemFreed
  <1> HIDE DEF i
  <1>5. /\ DOMAIN items' = DOMAIN items /\ items'[s] = i
        /\ \A t \in DOMAIN items \ {s} : items'[t] = items[t]
    BY <1>2, <1>3
  <1>6. /\ DOMAIN requests' = DOMAIN requests
        /\ \A q \in DOMAIN requests :
             /\ requests'[q].integrated = requests[q].integrated
             /\ requests'[q].status = IF q = r THEN "withdrawn" ELSE requests[q].status
    BY <1>2, <1>5, OneRequest DEF RequestStatuses
  <1> HIDE DEF s
  <1>7. requests[r].status = "open" /\ \A t, q : q \in OfSubtask(t) => q \in DOMAIN requests
    BY <1>2 DEF OfSubtask, Open
  <1>8. \A t \in DOMAIN items' : items'[t].status = "passed" => t \in DOMAIN items /\ items[t].status = "passed"
    BY <1>4, <1>5
  <1>9. Quiet
    BY <1>2, <1>6, <1>7, <1>8 DEF Quiet
  <1>10. Founded
    <2>1. ASSUME NEW t \in DOMAIN items'
          PROVE  /\ t \in DOMAIN items /\ items'[t].base = items[t].base
                 /\ items'[t].pipe \in {"in_progress", "in_review"} => Begun(t)
      BY <1>3, <1>4, <1>5 DEF Begun
    <2> QED
      BY <1>1, <1>6, <2>1, FoundedPlan
  <1> QED
    BY <1>9, <1>10

LEMMA ResumeQuiet ==
    ASSUME Base, NEW other \in SUBSET DOMAIN requests, Resume(other)
    PROVE  Quiet /\ Founded
  <1>1. Base' /\ Kept /\ DOMAIN requests' = DOMAIN requests
    BY ResumeFits
  <1>2. UNCHANGED git /\ hist' = hist /\ journal' = journal /\ DOMAIN items' = DOMAIN items
    BY ResumeStep DEF git
  <1>3. \A r \in DOMAIN requests :
          /\ requests'[r].integrated = requests[r].integrated
          /\ \/ requests'[r].status = requests[r].status
             \/ requests[r].status = "passed" /\ requests'[r].status = "invalidated"
             \/ /\ requests[r].status = "invalidated" /\ requests'[r].status = "passed"
                /\ requests[r].integrated # 0
    BY ResumeStep
  <1>4. ASSUME NEW s \in DOMAIN items
        PROVE  /\ items'[s].base = items[s].base
               /\ OfSubtask(s) = {} => items'[s] = items[s]
               /\ items'[s].status = "passed" =>
                    \/ /\ items[s].status = "passed"
                       /\ \A r \in OfSubtask(s) :
                            requests[r].status = "passed" /\ requests[r].phase = "acceptance"
                            => requests'[r].status = "passed"
                    \/ \E r \in OfSubtask(s) :
                         requests'[r].status = "passed" /\ requests[r].phase = "acceptance"
    BY ResumeStep
  <1>5. Quiet
    BY <1>1, <1>2, <1>3, <1>4 DEF Quiet
  <1>6. Founded
    <2>1. ASSUME NEW t \in DOMAIN items'
          PROVE  /\ t \in DOMAIN items /\ items'[t].base = items[t].base
                 /\ items'[t].pipe \in {"in_progress", "in_review"} => Begun(t)
      BY <1>2, <1>4 DEF Begun
    <2> QED
      BY <1>1, <2>1, FoundedPlan
  <1> QED
    BY <1>5, <1>6

LEMMA RecoverFounded ==
    ASSUME Base, Recover
    PROVE  Founded
  <1>1. Base' /\ Kept /\ DOMAIN requests' = DOMAIN requests /\ items' = items
    BY RecoverFits, RecoverStep
  <1>2. ASSUME NEW t \in DOMAIN items'
        PROVE  /\ t \in DOMAIN items /\ items'[t].base = items[t].base
               /\ items'[t].pipe \in {"in_progress", "in_review"} => Begun(t)
    BY <1>1 DEF Begun
  <1> QED
    BY <1>1, <1>2, FoundedPlan

\* What a PASS makes of its request and its item.
LEMMA PassRecords ==
    ASSUME Base, NEW r \in DOMAIN requests,
           NEW upto \in {"intent", "moved", "reset", "done", "recorded"}, Pass(r, upto)
    PROVE  /\ Founded /\ DOMAIN requests' = DOMAIN requests /\ DOMAIN items' = DOMAIN items
           /\ requests[r].status = "open" /\ requests[r].phase = "acceptance"
           /\ \A q \in DOMAIN requests \ {r} : requests'[q] = requests[q]
           /\ \A s \in DOMAIN items \ {requests[r].sub} : items'[s] = items[s]
           /\ \/ requests' = requests /\ items' = items
              \/ /\ \E n \in 1..Len(hist') : Recorded(r, n) /\ requests'[r].integrated = n
                 /\ requests'[r].status = "passed"
                 /\ items'[requests[r].sub].status = "passed"
                 /\ items'[requests[r].sub].pipe = "passed"
  <1> DEFINE s == requests[r].sub
             i == Settled(items[s], "acceptance", "passed")
  <1>1. Base' /\ Kept
    BY PassFits
  <1>2. /\ Open(r) /\ requests[r].phase = "acceptance" /\ HistoryFits' /\ HistoryKept /\ Outcome(r, upto)
        /\ IF upto = "recorded" THEN items' = [items EXCEPT ![s] = i] ELSE items' = items
    BY PassStep
  <1>3. s \in DOMAIN items /\ items[s] \in Item
    BY DEF Base, RequestsFit, ItemsFit
  <1>4. i.base = items[s].base /\ i.status = "passed" /\ i.pipe = "passed"
    BY <1>3, ItemSettled
  <1> HIDE DEF i, s
  <1>5. requests[r].status = "open"
    BY <1>2 DEF Open
  <1>6. CASE upto # "recorded"
    <2>1. requests' = requests /\ items' = items
      BY <1>2, <1>6 DEF Outcome
    <2>2. Founded
      BY <1>1, <2>1, ElsewhereQuiet
    <2> QED
      BY <1>2, <1>5, <2>1, <2>2
  <1>7. CASE upto = "recorded"
    <2>1. /\ DOMAIN items' = DOMAIN items /\ items'[s] = i
          /\ \A t \in DOMAIN items \ {s} : items'[t] = items[t]
      BY <1>2, <1>3, <1>7
    <2>2. PICK n \in 1..Len(hist') : Recorded(r, n)
      BY <1>2, <1>7 DEF Outcome
    <2>3. requests' = [requests EXCEPT ![r].integrated = n, ![r].status = "passed"]
      BY <2>2 DEF Recorded
    <2>4. /\ DOMAIN requests' = DOMAIN requests
          /\ requests'[r].integrated = n /\ requests'[r].status = "passed"
          /\ \A q \in DOMAIN requests \ {r} : requests'[q] = requests[q]
      BY <1>2, <2>1, <2>3, PassedRequest DEF Base
    <2>5. ASSUME NEW t \in DOMAIN items'
          PROVE  /\ t \in DOMAIN items /\ items'[t].base = items[t].base
                 /\ items'[t].pipe \in {"in_progress", "in_review"} => Begun(t)
      BY <1>4, <2>1 DEF Begun
    <2>6. Founded
      BY <1>1, <2>4, <2>5, FoundedPlan
    <2> QED
      BY <1>2, <1>4, <1>5, <2>1, <2>2, <2>4, <2>6 DEF s
  <1> QED
    BY <1>6, <1>7

\* Every step but the two that fold.
LEMMA QuietStep ==
    ASSUME Base, [Next]_vars
    PROVE  /\ Founded
           /\ \/ Quiet \/ Recover
              \/ \E r \in DOMAIN requests, upto \in {"intent", "moved", "reset", "done", "recorded"} :
                    Pass(r, upto)
  <1>1. CASE \E batch \in SUBSET (Subtasks \ DOMAIN items) :
               \E deps \in [batch -> SUBSET (batch \cup DOMAIN items)], owned \in [batch -> Scopes] :
                  Declare(batch, deps, owned)
    BY <1>1, DeclareQuiet
  <1>2. CASE \E s \in DOMAIN items : DeclareChunks(s)
    BY <1>2, DeclareChunksQuiet
  <1>3. CASE \E s \in DOMAIN items : Supersede(s)
    BY <1>3, SupersedeQuiet
  <1>4. CASE \E s \in DOMAIN items : Start(s)
    BY <1>4, StartQuiet
  <1>5. CASE \/ \E s \in DOMAIN items : StartUndone(s)
             \/ \E s \in DOMAIN items : \E written \in SUBSET items[s].owned : Commit(s, written)
             \/ HandEdit \/ PutAway \/ UNCHANGED vars
    <2>1. /\ items' = items /\ requests' = requests /\ hist' = hist /\ journal' = journal
      BY <1>5 DEF StartUndone, Commit, HandEdit, PutAway, vars
    <2> QED
      BY <2>1, BaseStep, ElsewhereQuiet
  <1>6. CASE \E s \in DOMAIN items, phase \in {"chunk", "acceptance"} : RequestReview(s, phase)
    BY <1>6, RequestReviewQuiet
  <1>7. CASE \E r \in DOMAIN requests : Fail(r) \/ PassChunk(r) \/ Reopen(r)
    BY <1>7, SettlingQuiet
  <1>8. CASE \E r \in DOMAIN requests : Withdraw(r)
    BY <1>8, WithdrawQuiet
  <1>9. CASE \E r \in DOMAIN requests, upto \in {"intent", "moved", "reset", "done", "recorded"} :
                Pass(r, upto)
    BY <1>9, PassRecords
  <1>10. CASE Recover
    BY <1>10, RecoverFounded
  <1>11. CASE \E other \in SUBSET DOMAIN requests : Resume(other)
    BY <1>11, ResumeQuiet
  <1> QED
    BY <1>1, <1>2, <1>3, <1>4, <1>5, <1>6, <1>7, <1>8, <1>9, <1>10, <1>11, Cases

\* What the records say of the task branch is so: each fold of the journal
\* that moved the branch, and each request said to be integrated, names a
\* commit that holds the reviewed bytes; a passed acceptance is integrated,
\* and a passed subtask has one.
CreditsHold ==
    \A r \in DOMAIN requests : requests[r].integrated # 0 => Holds(r, requests[r].integrated)
PassesFolded ==
    \A r \in DOMAIN requests :
       requests[r].status = "passed" /\ requests[r].phase = "acceptance" => requests[r].integrated # 0
PassedReviewed ==
    \A s \in DOMAIN items : Passed(s) =>
       \E r \in OfSubtask(s) : requests[r].status = "passed" /\ requests[r].phase = "acceptance"
Integrity == JournalHolds /\ CreditsHold /\ PassesFolded /\ PassedReviewed

\* The same of the state after a step.
ManifestNext(r) == {p \in Paths : requests'[r].tree[p] # hist'[requests'[r].base][p]}
HoldsNext(r, n) == \A p \in ManifestNext(r) : hist'[n][p] = requests'[r].tree[p]

LEMMA HoldsKept ==
    ASSUME Base, Base', Kept, NEW r \in DOMAIN requests
    PROVE  /\ ManifestNext(r) = Manifest(r)
           /\ requests'[r].tree = requests[r].tree
           /\ \A n \in 1..Len(hist) : Holds(r, n) => HoldsNext(r, n)
  <1>1. requests'[r].tree = requests[r].tree /\ requests'[r].base = requests[r].base
    BY DEF Kept, RequestsKept, Base, RequestsFit
  <1>2. requests[r].base \in 1..Len(hist) /\ \A n \in 1..Len(hist) : hist'[n] = hist[n]
    BY DEF Kept, HistoryKept, Base, RequestsFit
  <1>3. ManifestNext(r) = Manifest(r)
    BY <1>1, <1>2 DEF Manifest, ManifestNext
  <1>4. ASSUME NEW n \in 1..Len(hist), Holds(r, n)
        PROVE  HoldsNext(r, n)
    BY <1>1, <1>2, <1>3, <1>4 DEF Holds, HoldsNext
  <1> QED
    BY <1>1, <1>3, <1>4

LEMMA JournalHoldsOn ==
    ASSUME Base, Base', Kept, JournalHolds, JournalUpdated \/ journal' = journal
    PROVE  JournalHolds'
  <1>1. DOMAIN journal' = DOMAIN journal
    BY DEF JournalUpdated
  <1>2. ASSUME NEW j \in DOMAIN journal, journal'[j].target # 0
        PROVE  HoldsNext(journal'[j].request, journal'[j].target)
    <2>1. /\ journal'[j].request = journal[j].request /\ journal'[j].target = journal[j].target
          /\ journal[j].request \in DOMAIN requests /\ journal[j].target \in 0..Len(hist)
      BY DEF Kept, JournalKept, Base, JournalFits
    <2> DEFINE r == journal[j].request
               n == journal[j].target
    <2>2. r \in DOMAIN requests /\ n \in 1..Len(hist) /\ Holds(r, n)
      BY <1>2, <2>1 DEF JournalHolds, Base, HistoryFits
    <2>3. \A q \in DOMAIN requests, m \in 1..Len(hist) : Holds(q, m) => HoldsNext(q, m)
      BY HoldsKept
    <2> HIDE DEF r, n
    <2>4. HoldsNext(r, n)
      BY <2>2, <2>3
    <2> QED
      BY <2>1, <2>4 DEF r, n
  <1> QED
    BY <1>1, <1>2 DEF JournalHolds, Holds, HoldsNext, Manifest, ManifestNext

LEMMA QuietIntegrity ==
    ASSUME Base, Base', Kept, Integrity, Quiet
    PROVE  Integrity'
  <1>1. JournalHolds'
    BY JournalHoldsOn DEF Integrity, Quiet
  <1>2. ASSUME NEW r \in DOMAIN requests', requests'[r].integrated # 0
        PROVE  HoldsNext(r, requests'[r].integrated)
    <2>1. r \in DOMAIN requests /\ requests'[r].integrated = requests[r].integrated
      BY <1>2 DEF Quiet
    <2> DEFINE n == requests[r].integrated
    <2>2. n \in 1..Len(hist) /\ Holds(r, n)
      BY <1>2, <2>1 DEF Integrity, CreditsHold, Base, RequestsFit, HistoryFits
    <2> HIDE DEF n
    <2>3. \A q \in DOMAIN requests, m \in 1..Len(hist) : Holds(q, m) => HoldsNext(q, m)
      BY HoldsKept
    <2>4. HoldsNext(r, n)
      BY <2>1, <2>2, <2>3
    <2> QED
      BY <2>1, <2>4 DEF n
  <1>3. CreditsHold'
    BY <1>2 DEF CreditsHold, Holds, HoldsNext, Manifest, ManifestNext
  <1>4. \A r \in DOMAIN requests : requests'[r].phase = requests[r].phase /\ requests'[r].sub = requests[r].sub
    <2>1. DOMAIN requests = 1..Len(requests)
      BY DEF Base, RequestsFit
    <2> QED
      BY <2>1 DEF Kept, RequestsKept
  <1>5. PassesFolded'
    BY <1>4 DEF PassesFolded, Quiet, Integrity
  <1>6. \A s, r : r \in OfSubtask(s) => r \in OfSubtask(s)'
    <2>1. DOMAIN requests \subseteq DOMAIN requests'
      BY DEF Kept, RequestsKept, Base, RequestsFit
    <2> QED
      BY <1>4, <2>1 DEF OfSubtask
  <1>7. ASSUME NEW s \in DOMAIN items', Passed(s)'
        PROVE  \E r \in OfSubtask(s)' : requests'[r].status = "passed" /\ requests'[r].phase = "acceptance"
    <2>1. PICK r \in OfSubtask(s) : requests'[r].status = "passed" /\ requests[r].phase = "acceptance"
      <3>1. items'[s].status = "passed"
        BY <1>7 DEF Passed
      <3>2. CASE /\ s \in DOMAIN items /\ items[s].status = "passed"
                 /\ \A r \in OfSubtask(s) :
                      requests[r].status = "passed" /\ requests[r].phase = "acceptance"
                      => requests'[r].status = "passed"
        BY <3>2 DEF Integrity, PassedReviewed, Passed
      <3> QED
        BY <3>1, <3>2 DEF Quiet
    <2>2. r \in OfSubtask(s)' /\ r \in DOMAIN requests
      BY <1>6 DEF OfSubtask
    <2> QED
      BY <1>4, <2>1, <2>2
  <1>8. PassedReviewed'
    BY <1>7 DEF PassedReviewed
  <1> QED
    BY <1>1, <1>3, <1>5, <1>8 DEF Integrity

LEMMA PassIntegrity ==
    ASSUME Base, Base', Kept, Integrity, NEW r \in DOMAIN requests,
           NEW upto \in {"intent", "moved", "reset", "done", "recorded"}, Pass(r, upto)
    PROVE  Integrity'
  <1>1. /\ DOMAIN requests' = DOMAIN requests /\ DOMAIN items' = DOMAIN items
        /\ requests[r].status = "open" /\ requests[r].phase = "acceptance"
        /\ \A q \in DOMAIN requests \ {r} : requests'[q] = requests[q]
        /\ \A s \in DOMAIN items \ {requests[r].sub} : items'[s] = items[s]
        /\ \/ requests' = requests /\ items' = items
           \/ /\ \E n \in 1..Len(hist') : Recorded(r, n) /\ requests'[r].integrated = n
              /\ requests'[r].status = "passed"
              /\ items'[requests[r].sub].status = "passed"
    BY PassRecords
  <1>2. JournalStep(r)
    BY PassStep
  <1>3. /\ ManifestNext(r) = Manifest(r) /\ requests'[r].tree = requests[r].tree
        /\ \A q \in DOMAIN requests, m \in 1..Len(hist) : Holds(q, m) => HoldsNext(q, m)
    BY HoldsKept
  <1>4. JournalHolds'
    <2>1. CASE JournalUpdated
      BY <2>1, JournalHoldsOn DEF Integrity
    <2>2. CASE \E row \in Fold : Appended(r, row)
      <3>1. PICK row \in Fold : Appended(r, row)
        BY <2>2
      <3>2. /\ journal' = Append(journal, row) /\ row.request = r
            /\ row.target # 0 => \A p \in Manifest(r) : hist'[row.target][p] = requests[r].tree[p]
        BY <3>1 DEF Appended
      <3>3. /\ DOMAIN journal' = DOMAIN journal \cup {Len(journal) + 1}
            /\ journal'[Len(journal) + 1] = row
            /\ \A j \in DOMAIN journal : journal'[j] = journal[j]
        BY <3>2 DEF Base, JournalFits
      <3>4. ASSUME NEW j \in DOMAIN journal, journal[j].target # 0
            PROVE  HoldsNext(journal[j].request, journal[j].target)
        <4> DEFINE q == journal[j].request
                   n == journal[j].target
        <4>1. q \in DOMAIN requests /\ n \in 1..Len(hist) /\ Holds(q, n)
          BY <3>4 DEF Integrity, JournalHolds, Base, JournalFits, HistoryFits
        <4> HIDE DEF q, n
        <4>2. HoldsNext(q, n)
          BY <1>3, <4>1
        <4> QED
          BY <4>2 DEF q, n
      <3>5. row.target # 0 => HoldsNext(r, row.target)
        BY <1>3, <3>2 DEF HoldsNext
      <3> QED
        BY <3>2, <3>3, <3>4, <3>5 DEF JournalHolds, Holds, HoldsNext, Manifest, ManifestNext
    <2> QED
      BY <1>2, <2>1, <2>2 DEF JournalStep
  <1>5. ASSUME NEW q \in DOMAIN requests, requests'[q].integrated # 0
        PROVE  HoldsNext(q, requests'[q].integrated)
    <2>1. CASE requests'[q] = requests[q]
      <3> DEFINE n == requests[q].integrated
      <3>1. n \in 1..Len(hist) /\ Holds(q, n)
        BY <1>5, <2>1 DEF Integrity, CreditsHold, Base, RequestsFit, HistoryFits
      <3> HIDE DEF n
      <3>2. HoldsNext(q, n)
        BY <1>3, <3>1
      <3> QED
        BY <2>1, <3>2 DEF n
    <2>2. CASE requests'[q] # requests[q]
      <3>1. PICK n \in 1..Len(hist') : Recorded(r, n) /\ requests'[r].integrated = n
        BY <1>1, <2>2
      <3>2. q = r
        BY <1>1, <2>2
      <3>3. \A p \in Manifest(r) : hist'[n][p] = requests[r].tree[p]
        BY <3>1 DEF Recorded, Integrity
      <3>4. HoldsNext(r, n)
        BY <1>3, <3>3 DEF HoldsNext
      <3> QED
        BY <3>1, <3>2, <3>4
    <2> QED
      BY <2>1, <2>2
  <1>6. CreditsHold'
    BY <1>1, <1>5 DEF CreditsHold, Holds, HoldsNext, Manifest, ManifestNext
  <1>7. PassesFolded'
    <2>1. requests'[r].status = "passed" => requests'[r].integrated # 0
      <3>1. "open" # "passed"
        OBVIOUS
      <3>2. ASSUME NEW n \in 1..Len(hist') PROVE n # 0
        OBVIOUS
      <3> QED
        BY <1>1, <3>1, <3>2
    <2> QED
      BY <1>1, <2>1 DEF PassesFolded, Integrity
  <1>8. \A q \in DOMAIN requests : requests'[q].phase = requests[q].phase /\ requests'[q].sub = requests[q].sub
    BY DEF Kept, RequestsKept, Base, RequestsFit
  <1>9. \A s : OfSubtask(s)' = OfSubtask(s)
    BY <1>1, <1>8 DEF OfSubtask
  <1>10. ASSUME NEW s \in DOMAIN items', Passed(s)'
         PROVE  \E q \in OfSubtask(s)' : requests'[q].status = "passed" /\ requests'[q].phase = "acceptance"
    <2>1. CASE items'[s] = items[s]
      <3>1. PICK q \in OfSubtask(s) : requests[q].status = "passed" /\ requests[q].phase = "acceptance"
        BY <1>1, <1>10, <2>1 DEF Passed, Integrity, PassedReviewed
      <3>2. q # r /\ q \in DOMAIN requests
        BY <1>1, <3>1 DEF OfSubtask
      <3> QED
        BY <1>1, <1>9, <3>1, <3>2
    <2>2. CASE items'[s] # items[s]
      <3>1. s = requests[r].sub /\ requests'[r].status = "passed"
        BY <1>1, <2>2
      <3>2. r \in OfSubtask(s)'
        BY <1>9, <3>1 DEF OfSubtask
      <3> QED
        BY <1>1, <1>8, <3>1, <3>2
    <2> QED
      BY <2>1, <2>2
  <1>11. PassedReviewed'
    BY <1>10 DEF PassedReviewed
  <1> QED
    BY <1>4, <1>6, <1>7, <1>11 DEF Integrity

LEMMA RecoverIntegrity ==
    ASSUME Base, Base', Kept, Integrity, Recover
    PROVE  Integrity'
  <1>1. DOMAIN requests' = DOMAIN requests /\ items' = items /\ hist' = hist /\ JournalUpdated
    BY RecoverFits, RecoverStep
  <1>2. \A r \in DOMAIN requests :
          /\ requests'[r].sub = requests[r].sub /\ requests'[r].phase = requests[r].phase
          /\ requests'[r].status = requests[r].status
          /\ \/ requests'[r].integrated = requests[r].integrated
             \/ \E j \in DOMAIN journal : /\ journal[j].request = r /\ journal[j].target # 0
                                          /\ requests'[r].integrated = journal[j].target
    BY RecoverStep
  <1>3. JournalHolds'
    BY <1>1, JournalHoldsOn DEF Integrity
  <1>4. \A q \in DOMAIN requests, m \in 1..Len(hist) : Holds(q, m) => HoldsNext(q, m)
    BY HoldsKept
  <1>5. ASSUME NEW r \in DOMAIN requests, requests'[r].integrated # 0
        PROVE  HoldsNext(r, requests'[r].integrated)
    <2> DEFINE n == requests'[r].integrated
    <2>1. n \in 1..Len(hist) /\ Holds(r, n)
      <3>1. CASE requests'[r].integrated = requests[r].integrated
        BY <1>5, <3>1 DEF Integrity, CreditsHold, Base, RequestsFit, HistoryFits
      <3>2. CASE \E j \in DOMAIN journal : /\ journal[j].request = r /\ journal[j].target # 0
                                           /\ requests'[r].integrated = journal[j].target
        BY <3>2 DEF Integrity, JournalHolds, Base, JournalFits, HistoryFits
      <3> QED
        BY <1>2, <3>1, <3>2
    <2>2. PICK m \in 1..Len(hist) : m = n
      BY <2>1
    <2> HIDE DEF n
    <2>3. HoldsNext(r, m)
      BY <1>4, <2>1, <2>2
    <2> QED
      BY <2>2, <2>3 DEF n
  <1>6. CreditsHold'
    BY <1>1, <1>5 DEF CreditsHold, Holds, HoldsNext, Manifest, ManifestNext
  <1>7. PassesFolded'
    <2>1. ASSUME NEW r \in DOMAIN requests, requests[r].integrated # 0
          PROVE  requests'[r].integrated # 0
      BY <1>2, <2>1
    <2> QED
      BY <1>1, <1>2, <2>1 DEF PassesFolded, Integrity
  <1>8. \A s : OfSubtask(s)' = OfSubtask(s)
    BY <1>1, <1>2 DEF OfSubtask
  <1>9. \A s, r : r \in OfSubtask(s) => r \in DOMAIN requests
    BY DEF OfSubtask
  <1>10. PassedReviewed'
    BY <1>1, <1>2, <1>8, <1>9 DEF PassedReviewed, Passed, Integrity
  <1> QED
    BY <1>3, <1>6, <1>7, <1>10 DEF Integrity

LEMMA IntegrityAlways == Spec => []Integrity
  <1>1. Init => Integrity
    BY DEF Init, Integrity, JournalHolds, CreditsHold, PassesFolded, PassedReviewed
  <1>2. Base /\ Integrity /\ [Next]_vars => Integrity'
    BY BaseStep, QuietStep, QuietIntegrity, PassIntegrity, RecoverIntegrity
  <1> QED
    BY <1>1, <1>2, BaseAlways, PTL DEF Spec

(***************************************************************************)
(* PassedIsInHistory: whatever died between the broker's update-ref and    *)
(* the commit of the board, a passed subtask has a passed review whose     *)
(* commit is one of the task branch and holds every byte it reviewed.      *)
(***************************************************************************)
THEOREM PassesStayInHistory == Spec => []PassedIsInHistory
  <1>1. ASSUME Base, Integrity
        PROVE  PassedIsInHistory
    <2>1. TypeOK
      BY <1>1, BaseTypes
    <2>2. ASSUME NEW s \in DOMAIN items, Passed(s)
          PROVE  \E r \in OfSubtask(s) :
                   /\ requests[r].status = "passed" /\ requests[r].phase = "acceptance"
                   /\ requests[r].integrated # 0
                   /\ \A p \in Manifest(r) : hist[requests[r].integrated][p] = requests[r].tree[p]
      <3>1. PICK r \in OfSubtask(s) : requests[r].status = "passed" /\ requests[r].phase = "acceptance"
        BY <1>1, <2>2 DEF Integrity, PassedReviewed
      <3>2. r \in DOMAIN requests
        BY DEF OfSubtask
      <3>3. requests[r].integrated # 0
        BY <1>1, <3>1, <3>2 DEF Integrity, PassesFolded
      <3>4. \A p \in Manifest(r) : hist[requests[r].integrated][p] = requests[r].tree[p]
        BY <1>1, <3>2, <3>3 DEF Integrity, CreditsHold, Holds
      <3> QED
        BY <3>1, <3>3, <3>4
    <2> QED
      BY <2>1, <2>2 DEF PassedIsInHistory
  <1> QED
    BY <1>1, BaseAlways, IntegrityAlways, PTL

(***************************************************************************)
(* DependenciesInBase.  A dependency that had passed when its subtask was  *)
(* started stays in the base: the request that passed is never open again, *)
(* so no later fold of it is begun, and neither a reopening nor the repair *)
(* of a fold names a commit after the base.                                *)
(***************************************************************************)
StartedAfter(d, n) ==
    \E r \in OfSubtask(d) :
       /\ requests[r].status # "open" /\ requests[r].integrated \in 1..n
       /\ \A j \in DOMAIN journal : journal[j].request = r => journal[j].target <= n

Based == \A s \in DOMAIN items : Begun(s) => \A d \in items[s].deps : StartedAfter(d, items[s].base)

StartedAfterNext(d, n) ==
    \E r \in DOMAIN requests' :
       /\ requests'[r].sub = d
       /\ requests'[r].status # "open" /\ requests'[r].integrated \in 1..n
       /\ \A j \in DOMAIN journal' : journal'[j].request = r => journal'[j].target <= n

LEMMA StartedAfterKept ==
    ASSUME Base, Base', Kept, [Next]_vars, NEW d, NEW n \in 1..Len(hist), StartedAfter(d, n)
    PROVE  StartedAfterNext(d, n)
  <1>1. PICK r \in OfSubtask(d) :
          /\ requests[r].status # "open" /\ requests[r].integrated \in 1..n
          /\ \A j \in DOMAIN journal : journal[j].request = r => journal[j].target <= n
    BY DEF StartedAfter
  <1>2. /\ r \in DOMAIN requests /\ requests[r].sub = d
        /\ DOMAIN requests = 1..Len(requests) /\ DOMAIN requests' = 1..Len(requests')
        /\ Len(requests) \in Nat /\ Len(requests') \in Nat /\ Len(requests) <= Len(requests')
        /\ n \in Nat
    BY DEF OfSubtask, Base, RequestsFit, Kept, RequestsKept, HistoryFits
  <1>3. r \in DOMAIN requests' /\ requests'[r].sub = d
    BY <1>2 DEF Kept, RequestsKept
  <1>4. CASE Quiet
    <2>1. requests'[r].status # "open" /\ requests'[r].integrated = requests[r].integrated /\ journal' = journal
      BY <1>1, <1>2, <1>4 DEF Quiet
    <2> QED
      BY <1>1, <1>3, <2>1 DEF StartedAfterNext
  <1>5. CASE Recover
    <2>1. JournalUpdated /\ requests'[r].status = requests[r].status
      BY <1>2, <1>5, RecoverStep
    <2>2. requests'[r].integrated \in 1..n
      <3>1. \/ requests'[r].integrated = requests[r].integrated
            \/ \E j \in DOMAIN journal : /\ journal[j].request = r /\ journal[j].target # 0
                                         /\ requests'[r].integrated = journal[j].target
        BY <1>2, <1>5, RecoverStep
      <3>2. \A j \in DOMAIN journal : journal[j].target \in Nat
        BY DEF Base, JournalFits, Fold
      <3> QED
        BY <1>1, <1>2, <3>1, <3>2
    <2>3. \A j \in DOMAIN journal' : journal'[j].request = r => journal'[j].target <= n
      BY <1>1, <2>1 DEF JournalUpdated
    <2> QED
      BY <1>1, <1>3, <2>1, <2>2, <2>3 DEF StartedAfterNext
  <1>6. ASSUME NEW q \in DOMAIN requests, NEW upto \in {"intent", "moved", "reset", "done", "recorded"},
               Pass(q, upto)
        PROVE  StartedAfterNext(d, n)
    <2>1. requests[q].status = "open" /\ \A x \in DOMAIN requests \ {q} : requests'[x] = requests[x]
      BY <1>6, PassRecords
    <2>2. q # r /\ requests'[r] = requests[r]
      BY <1>1, <1>2, <2>1
    <2>3. JournalStep(q)
      BY <1>6, PassStep
    <2>4. \A j \in DOMAIN journal' : journal'[j].request = r => journal'[j].target <= n
      <3>1. CASE JournalUpdated
        BY <1>1, <3>1 DEF JournalUpdated
      <3>2. CASE \E row \in Fold : Appended(q, row)
        <4>1. PICK row \in Fold : Appended(q, row)
          BY <3>2
        <4>2. journal' = Append(journal, row) /\ row.request = q
          BY <4>1 DEF Appended
        <4>3. /\ DOMAIN journal' = DOMAIN journal \cup {Len(journal) + 1}
              /\ journal'[Len(journal) + 1] = row
              /\ \A j \in DOMAIN journal : journal'[j] = journal[j]
          BY <4>2 DEF Base, JournalFits
        <4> QED
          BY <1>1, <2>2, <4>2, <4>3
      <3> QED
        BY <2>3, <3>1, <3>2 DEF JournalStep
    <2> QED
      BY <1>1, <1>3, <2>2, <2>4 DEF StartedAfterNext
  <1> QED
    BY <1>4, <1>5, <1>6, QuietStep

LEMMA PassedStarts ==
    ASSUME Base, Integrity, NEW d \in DOMAIN items, Passed(d)
    PROVE  StartedAfter(d, Len(hist))
  <1>1. PICK r \in OfSubtask(d) : requests[r].status = "passed" /\ requests[r].phase = "acceptance"
    BY DEF Integrity, PassedReviewed
  <1>2. r \in DOMAIN requests
    BY DEF OfSubtask
  <1>3. requests[r].integrated \in 1..Len(hist)
    BY <1>1, <1>2 DEF Integrity, PassesFolded, Base, RequestsFit, HistoryFits
  <1>4. \A j \in DOMAIN journal : journal[j].target <= Len(hist)
    BY DEF Base, JournalFits, HistoryFits
  <1> QED
    BY <1>1, <1>3, <1>4 DEF StartedAfter

LEMMA BasedStep ==
    ASSUME Base, Integrity, Based, [Next]_vars
    PROVE  Based'
  <1>1. Base' /\ Kept /\ Founded
    BY BaseStep, QuietStep
  <1>2. ASSUME NEW s \in DOMAIN items', Begun(s)', NEW d \in items'[s].deps
        PROVE  StartedAfterNext(d, items'[s].base)
    <2>1. s \in DOMAIN items /\ items'[s].deps = items[s].deps
      BY <1>1, <1>2 DEF Founded, Kept, ItemsKept
    <2>2. items[s].base \in 1..Len(hist) /\ items[s].deps \subseteq DOMAIN items /\ Len(hist) \in 1..Len(hist)
      BY <2>1 DEF Base, ItemsFit, HistoryFits
    <2>3. CASE Begun(s) /\ items'[s].base = items[s].base
      <3> DEFINE n == items[s].base
      <3>1. StartedAfter(d, n)
        BY <1>2, <2>1, <2>3 DEF Based
      <3>2. n \in 1..Len(hist)
        BY <2>2
      <3> HIDE DEF n
      <3>3. StartedAfterNext(d, n)
        BY <1>1, <3>1, <3>2, StartedAfterKept
      <3> QED
        BY <2>3, <3>3 DEF n
    <2>4. CASE DependenciesPassed(s) /\ items'[s].base = Len(hist)
      <3> DEFINE n == Len(hist)
      <3>1. d \in DOMAIN items /\ Passed(d)
        BY <1>2, <2>1, <2>2, <2>4 DEF DependenciesPassed
      <3>2. StartedAfter(d, n)
        BY <3>1, PassedStarts
      <3>3. n \in 1..Len(hist)
        BY <2>2
      <3> HIDE DEF n
      <3>4. StartedAfterNext(d, n)
        BY <1>1, <3>2, <3>3, StartedAfterKept
      <3> QED
        BY <2>4, <3>4 DEF n
    <2> QED
      BY <1>1, <1>2, <2>3, <2>4 DEF Founded
  <1> QED
    BY <1>2 DEF Based, StartedAfter, StartedAfterNext, OfSubtask

LEMMA BasedAlways == Spec => []Based
  <1>1. Init => Based
    BY DEF Init, Based
  <1>2. Base /\ Integrity /\ Based /\ [Next]_vars => Based'
    BY BasedStep
  <1> QED
    BY <1>1, <1>2, BaseAlways, IntegrityAlways, PTL DEF Spec

LEMMA DependenciesStay == Spec => []DependenciesInBase
  <1>1. Based => DependenciesInBase
    BY DEF Based, DependenciesInBase, Begun, StartedAfter
  <1> QED
    BY <1>1, BasedAlways, PTL

(***************************************************************************)
(* BaseStands and FinalDiffStands.  What both rest on is that a subtask    *)
(* writes the task branch at most once, over paths nobody else wrote since *)
(* it began.  A step that leaves the branches alone and makes no request   *)
(* is steady: it stirs no subtask that rests, unless one of its reviews    *)
(* had passed or been integrated.                                          *)
(***************************************************************************)
Going == {"in_progress", "in_review"}

Steady ==
    /\ branch' = branch /\ at' = at
    /\ DOMAIN items' = DOMAIN items /\ DOMAIN requests' = DOMAIN requests
    /\ \A r \in DOMAIN requests :
          /\ requests'[r].status = "open" => requests[r].status = "open"
          /\ requests'[r].status = "passed" /\ requests[r].phase = "chunk" =>
                \/ requests[r].status = "passed" \/ requests[r].integrated # 0
                \/ items'[requests[r].sub].pipe \in Going
    /\ \A s \in DOMAIN items :
          /\ items'[s].base = items[s].base
          /\ items'[s].pipe \in Going =>
                \/ items[s].pipe \in Going
                \/ \E r \in OfSubtask(s) : \/ requests[r].status \in {"open", "passed"}
                                           \/ requests[r].integrated # 0
          /\ items[s].pipe \in Going =>
                \/ items'[s].pipe \in Going \/ items[s].chunk = "none"
                \/ \E r \in OfSubtask(s) : requests'[r].integrated # 0
          /\ items[s].chunk # "none" => items'[s].chunk # "none"

\* Only one subtask's record changes, and no request is opened or passed.
LEMMA SteadyItem ==
    ASSUME Base, NEW s \in DOMAIN items, NEW i, UNCHANGED git,
           DOMAIN requests' = DOMAIN requests, items' = [items EXCEPT ![s] = i],
           \A r \in DOMAIN requests :
              /\ requests'[r].status = "open" => requests[r].status = "open"
              /\ requests'[r].status = "passed" /\ requests[r].phase = "chunk" =>
                    \/ requests[r].status = "passed"
                    \/ requests[r].sub = s /\ i.pipe \in Going,
           i.base = items[s].base,
           i.pipe \in Going =>
              items[s].pipe \in Going \/ \E r \in OfSubtask(s) : requests[r].status \in {"open", "passed"},
           items[s].pipe \in Going => i.pipe \in Going \/ items[s].chunk = "none",
           items[s].chunk # "none" => i.chunk # "none"
    PROVE  Steady
  <1>1. branch' = branch /\ at' = at
    BY DEF git
  <1>2. /\ DOMAIN items' = DOMAIN items /\ items'[s] = i
        /\ \A t \in DOMAIN items \ {s} : items'[t] = items[t]
    OBVIOUS
  <1>3. \A r \in DOMAIN requests :
          /\ requests'[r].status = "open" => requests[r].status = "open"
          /\ requests'[r].status = "passed" /\ requests[r].phase = "chunk" =>
                requests[r].status = "passed" \/ items'[requests[r].sub].pipe \in Going
    BY <1>2
  <1>4. ASSUME NEW t \in DOMAIN items
        PROVE  /\ items'[t].base = items[t].base
               /\ items'[t].pipe \in Going =>
                     \/ items[t].pipe \in Going
                     \/ \E r \in OfSubtask(t) : requests[r].status \in {"open", "passed"}
               /\ items[t].pipe \in Going => items'[t].pipe \in Going \/ items[t].chunk = "none"
               /\ items[t].chunk # "none" => items'[t].chunk # "none"
    BY <1>2
  <1> QED
    BY <1>1, <1>2, <1>3, <1>4 DEF Steady

LEMMA DeclareChunksSteady ==
    ASSUME Base, NEW s \in DOMAIN items, DeclareChunks(s)
    PROVE  Steady
  <1> DEFINE i == [items[s] EXCEPT !.chunk = "open", !.status = "open", !.pipe = "pending", !.active = 0]
  <1>1. /\ UNCHANGED git /\ Restructured /\ items[s].chunk = "none"
        /\ items' = [items EXCEPT ![s].chunk = "open", ![s].status = "open",
                                  ![s].pipe = "pending", ![s].active = 0]
    BY DEF DeclareChunks
  <1>2. items[s] \in Item
    BY DEF Base, ItemsFit
  <1>3. items' = [items EXCEPT ![s] = i]
    BY <1>1
  <1>4. i.base = items[s].base /\ i.pipe \notin Going
    BY <1>2 DEF Item, Going
  <1> HIDE DEF i
  <1>5. Base' /\ Kept
    BY DeclareChunksFits
  <1>6. /\ DOMAIN requests' = DOMAIN requests
        /\ \A r \in DOMAIN requests : requests'[r].status = requests[r].status
    BY <1>1, <1>5, RestructuredStep DEF Base, Kept, ItemsKept
  <1>7. \A r \in DOMAIN requests :
          /\ requests'[r].status = "open" => requests[r].status = "open"
          /\ requests'[r].status = "passed" => requests[r].status = "passed"
    BY <1>6
  <1>8. /\ i.pipe \in Going =>
              items[s].pipe \in Going \/ \E r \in OfSubtask(s) : requests[r].status \in {"open", "passed"}
        /\ items[s].pipe \in Going => i.pipe \in Going \/ items[s].chunk = "none"
        /\ items[s].chunk # "none" => i.chunk # "none"
        /\ UNCHANGED git
    BY <1>1, <1>4
  <1> QED
    BY <1>3, <1>4, <1>6, <1>7, <1>8, SteadyItem

LEMMA SupersedeSteady ==
    ASSUME Base, NEW s \in DOMAIN items, Supersede(s)
    PROVE  Steady
  <1> DEFINE i == [items[s] EXCEPT !.status = "superseded", !.pipe = "superseded"]
  <1>1. /\ UNCHANGED git /\ requests' = requests /\ items[s].status = "open" /\ ~Active(s)
        /\ items' = [items EXCEPT ![s].status = "superseded", ![s].pipe = "superseded"]
    BY DEF Supersede
  <1>2. items[s] \in Item
    BY DEF Base, ItemsFit
  <1>3. items' = [items EXCEPT ![s] = i]
    BY <1>1
  <1>4. i.base = items[s].base /\ i.pipe \notin Going /\ i.chunk = items[s].chunk
    BY <1>2 DEF Item, Going
  <1>5. items[s].pipe \notin Going
    BY <1>1 DEF Active, Effective, Going
  <1> HIDE DEF i
  <1> QED
    BY <1>1, <1>3, <1>4, <1>5, SteadyItem

LEMMA ChunkSettled ==
    ASSUME NEW i \in Item, NEW phase, NEW result \in {"open", "passed"}
    PROVE  Settled(i, phase, result).chunk = IF phase = "chunk" THEN result ELSE i.chunk
  BY DEF Item, Settled

LEMMA SettleSteady ==
    ASSUME Base, UNCHANGED git, NEW r \in DOMAIN requests, NEW status \in RequestStatuses,
           NEW result \in {"open", "passed"}, Settle(r, status, result), status # "open",
           requests[r].status \in {"open", "passed"},
           result = "passed" => requests[r].phase = "chunk"
    PROVE  Steady
  <1> DEFINE s == requests[r].sub
             i == Settled(items[s], requests[r].phase, result)
  <1>1. requests' = [requests EXCEPT ![r].status = status] /\ items' = [items EXCEPT ![s] = i]
    BY DEF Settle
  <1>2. s \in DOMAIN items /\ items[s] \in Item /\ r \in OfSubtask(s)
    BY DEF Base, RequestsFit, ItemsFit, OfSubtask
  <1>3. i.base = items[s].base /\ i.pipe = "in_progress" /\ (items[s].chunk # "none" => i.chunk # "none")
    <2>1. i.base = items[s].base /\ i.pipe = "in_progress"
      BY <1>2, ItemSettled
    <2>2. i.chunk = IF requests[r].phase = "chunk" THEN result ELSE items[s].chunk
      BY <1>2, ChunkSettled
    <2> QED
      BY <2>1, <2>2
  <1> HIDE DEF i
  <1>4. DOMAIN items \subseteq DOMAIN items'
    BY <1>1
  <1>5. /\ DOMAIN requests' = DOMAIN requests
        /\ \A q \in DOMAIN requests : requests'[q].status = IF q = r THEN status ELSE requests[q].status
    BY <1>1, <1>4, OneRequest
  <1>6. i.pipe \in Going
    BY <1>3 DEF Going
  <1>7. \A q \in DOMAIN requests :
          /\ requests'[q].status = "open" => requests[q].status = "open"
          /\ requests'[q].status = "passed" /\ requests[q].phase = "chunk" =>
                \/ requests[q].status = "passed"
                \/ requests[q].sub = s /\ i.pipe \in Going
    BY <1>5, <1>6
  <1>8. \E q \in OfSubtask(s) : requests[q].status \in {"open", "passed"}
    BY <1>2
  <1> HIDE DEF s
  <1> QED
    BY <1>1, <1>2, <1>3, <1>5, <1>6, <1>7, <1>8, SteadyItem

LEMMA SettlingSteady ==
    ASSUME Base, NEW r \in DOMAIN requests, Fail(r) \/ PassChunk(r) \/ Reopen(r)
    PROVE  Steady
  <1> USE DEF RequestStatuses
  <1>1. CASE Fail(r)
    <2>1. Settle(r, "failed", "open") /\ UNCHANGED git /\ requests[r].status = "open"
      BY <1>1 DEF Fail, Open
    <2> QED
      BY <2>1, SettleSteady
  <1>2. CASE PassChunk(r)
    <2>1. /\ Settle(r, "passed", "passed") /\ UNCHANGED git /\ requests[r].status = "open"
          /\ requests[r].phase = "chunk"
      BY <1>2 DEF PassChunk, Open
    <2> QED
      BY <2>1, SettleSteady
  <1>3. CASE Reopen(r)
    <2>1. Settle(r, "invalidated", "open") /\ UNCHANGED git /\ requests[r].status = "passed"
      BY <1>3 DEF Reopen
    <2> QED
      BY <2>1, SettleSteady
  <1> QED
    BY <1>1, <1>2, <1>3

LEMMA WithdrawSteady ==
    ASSUME Base, NEW r \in DOMAIN requests, Withdraw(r)
    PROVE  Steady
  <1> DEFINE s == requests[r].sub
             i == Freed(items[s], r)
  <1>1. /\ requests' = [requests EXCEPT ![r].status = "withdrawn"] /\ items' = [items EXCEPT ![s] = i]
        /\ UNCHANGED git /\ requests[r].status = "open"
    BY DEF Withdraw, Open
  <1>2. s \in DOMAIN items /\ items[s] \in Item /\ r \in OfSubtask(s)
    BY DEF Base, RequestsFit, ItemsFit, OfSubtask
  <1>3. i.base = items[s].base /\ i.pipe \in {items[s].pipe, "in_progress"} /\ i.chunk = items[s].chunk
    <2>1. i.base = items[s].base /\ i.pipe \in {items[s].pipe, "in_progress"}
      BY <1>2, ItemFreed
    <2>2. i.chunk = items[s].chunk
      BY <1>2 DEF Freed, Item
    <2> QED
      BY <2>1, <2>2
  <1> HIDE DEF i
  <1>4. DOMAIN items \subseteq DOMAIN items' /\ "withdrawn" \in RequestStatuses
    BY <1>1 DEF RequestStatuses
  <1>5. /\ DOMAIN requests' = DOMAIN requests
        /\ \A q \in DOMAIN requests :
             requests'[q].status = IF q = r THEN "withdrawn" ELSE requests[q].status
    BY <1>1, <1>4, OneRequest
  <1>6. items[s].pipe \in Going => i.pipe \in Going
    BY <1>3 DEF Going
  <1>7. \A q \in DOMAIN requests :
          /\ requests'[q].status = "open" => requests[q].status = "open"
          /\ requests'[q].status = "passed" => requests[q].status = "passed"
    BY <1>5
  <1>8. \E q \in OfSubtask(s) : requests[q].status \in {"open", "passed"}
    BY <1>1, <1>2
  <1> HIDE DEF s
  <1> QED
    BY <1>1, <1>2, <1>3, <1>5, <1>6, <1>7, <1>8, SteadyItem

\* Neither the plan nor what a review decided changes.
LEMMA ElsewhereSteady ==
    ASSUME Base, branch' = branch, at' = at, items' = items, DOMAIN requests' = DOMAIN requests,
           \A r \in DOMAIN requests : requests'[r].status = requests[r].status
    PROVE  Steady
  BY DEF Steady

LEMMA PassSteady ==
    ASSUME Base, NEW r \in DOMAIN requests,
           NEW upto \in {"intent", "moved", "reset", "done", "recorded"}, Pass(r, upto)
    PROVE  Steady
  <1> DEFINE s == requests[r].sub
             i == Settled(items[s], "acceptance", "passed")
  <1>1. /\ branch' = branch /\ at' = at /\ Outcome(r, upto)
        /\ IF upto = "recorded" THEN items' = [items EXCEPT ![s] = i] ELSE items' = items
    BY PassStep
  <1>2. /\ DOMAIN requests' = DOMAIN requests /\ requests[r].status = "open"
        /\ requests[r].phase = "acceptance"
        /\ \A q \in DOMAIN requests \ {r} : requests'[q] = requests[q]
    BY PassRecords
  <1>3. s \in DOMAIN items /\ items[s] \in Item /\ r \in OfSubtask(s)
    BY DEF Base, RequestsFit, ItemsFit, OfSubtask
  <1>4. i.base = items[s].base /\ i.pipe = "passed" /\ i.chunk = items[s].chunk
    <2>1. "acceptance" # "chunk"
      OBVIOUS
    <2> QED
      BY <1>3, <2>1, ItemSettled, ChunkSettled
  <1> HIDE DEF i
  <1>5. CASE upto # "recorded"
    <2>1. requests' = requests /\ items' = items
      BY <1>1, <1>5 DEF Outcome
    <2> QED
      BY <1>1, <2>1, ElsewhereSteady
  <1>6. CASE upto = "recorded"
    <2>1. /\ DOMAIN items' = DOMAIN items /\ items'[s] = i
          /\ \A t \in DOMAIN items \ {s} : items'[t] = items[t]
      BY <1>1, <1>3, <1>6
    <2>2. requests'[r].integrated # 0
      <3>1. PICK n \in 1..Len(hist') : Recorded(r, n)
        BY <1>1, <1>6 DEF Outcome
      <3>2. requests' = [requests EXCEPT ![r].integrated = n, ![r].status = "passed"]
        BY <3>1 DEF Recorded
      <3>3. requests[r] \in Asked
        BY DEF Base, RequestsFit
      <3>4. requests'[r].integrated = n
        BY <3>2, <3>3 DEF Asked
      <3> QED
        BY <3>4
    <2>3. \A q \in DOMAIN requests :
            /\ requests'[q].status = "open" => requests[q].status = "open"
            /\ requests'[q].status = "passed" /\ requests[q].phase = "chunk" => requests[q].status = "passed"
      BY <1>2
    <2>4. i.pipe \notin Going
      BY <1>4 DEF Going
    <2>5. ASSUME NEW t \in DOMAIN items
          PROVE  /\ items'[t].base = items[t].base
                 /\ items'[t].pipe \in Going => items[t].pipe \in Going
                 /\ items[t].pipe \in Going =>
                      items'[t].pipe \in Going \/ \E q \in OfSubtask(t) : requests'[q].integrated # 0
                 /\ items[t].chunk # "none" => items'[t].chunk # "none"
      BY <1>3, <1>4, <2>1, <2>2, <2>4
    <2> QED
      BY <1>1, <1>2, <2>1, <2>3, <2>5 DEF Steady
  <1> QED
    BY <1>5, <1>6

LEMMA ComparedItem ==
    ASSUME NEW i \in Item, NEW s, NEW phase \in {"chunk", "acceptance"}, NEW other,
           NEW j, j = Compared(i, s, phase, other)
    PROVE  /\ j \in Item
           /\ j.pipe \in Going => i.pipe \in Going \/ Latest(s, phase) \cap (Lost(other) \cup Back(other)) # {}
           /\ i.pipe \in Going => j.pipe \in Going \/ Latest(s, phase) \cap Back(other) # {}
           /\ i.chunk # "none" => j.chunk # "none"
  <1>1. CASE Latest(s, phase) \cap Lost(other) # {}
    <2>1. j = Settled(i, phase, "open")
      BY <1>1 DEF Compared
    <2>2. j \in Item /\ j.pipe = "in_progress"
      BY <2>1, ItemSettled
    <2>3. j.chunk = IF phase = "chunk" THEN "open" ELSE i.chunk
      BY <2>1, ChunkSettled
    <2> QED
      BY <1>1, <2>2, <2>3 DEF Going
  <1>2. CASE Latest(s, phase) \cap Lost(other) = {} /\ Latest(s, phase) \cap Back(other) # {}
    <2>1. j = Settled(i, phase, "passed")
      BY <1>2 DEF Compared
    <2>2. j \in Item
      BY <2>1, ItemSettled
    <2>3. j.chunk = IF phase = "chunk" THEN "passed" ELSE i.chunk
      BY <2>1, ChunkSettled
    <2> QED
      BY <1>2, <2>2, <2>3
  <1>3. CASE Latest(s, phase) \cap Lost(other) = {} /\ Latest(s, phase) \cap Back(other) = {}
    <2>1. j = i
      BY <1>3 DEF Compared
    <2> QED
      BY <2>1
  <1> QED
    BY <1>1, <1>2, <1>3

LEMMA ResumeSteady ==
    ASSUME Base, NEW other \in SUBSET DOMAIN requests, Resume(other)
    PROVE  Steady
  <1>1. Base' /\ Kept /\ DOMAIN requests' = DOMAIN requests
    BY ResumeFits
  <1>2. branch' = branch /\ at' = at /\ DOMAIN items' = DOMAIN items
    BY ResumeStep DEF git
  <1>3. \A r \in DOMAIN requests :
          /\ requests'[r].integrated = requests[r].integrated
          /\ \/ requests'[r].status = requests[r].status
             \/ requests[r].status = "passed" /\ requests'[r].status = "invalidated"
             \/ /\ requests[r].status = "invalidated" /\ requests'[r].status = "passed"
                /\ requests[r].integrated # 0
    BY ResumeStep
  <1>4. \A r \in DOMAIN requests :
          /\ requests'[r].status = "open" => requests[r].status = "open"
          /\ requests'[r].status = "passed" => requests[r].status = "passed" \/ requests[r].integrated # 0
    BY <1>3
  <1>5. /\ \A r \in Lost(other) : requests[r].status = "passed"
        /\ \A r \in Back(other) : requests[r].integrated # 0
    BY DEF Lost, Back
  <1>6. ASSUME NEW s \in DOMAIN items
        PROVE  /\ items'[s].base = items[s].base
               /\ items'[s].pipe \in Going =>
                     \/ items[s].pipe \in Going
                     \/ \E r \in OfSubtask(s) : \/ requests[r].status \in {"open", "passed"}
                                                \/ requests[r].integrated # 0
               /\ items[s].pipe \in Going =>
                     items'[s].pipe \in Going \/ \E r \in OfSubtask(s) : requests'[r].integrated # 0
               /\ items[s].chunk # "none" => items'[s].chunk # "none"
    <2> DEFINE first == Compared(items[s], s, "chunk", other)
    <2>1. items'[s].base = items[s].base
      BY ResumeStep
    <2>2. items'[s] = Compared(first, s, "acceptance", other)
      BY DEF Resume
    <2>3. items[s] \in Item
      BY DEF Base, ItemsFit
    <2>4. /\ first \in Item
          /\ first.pipe \in Going =>
                items[s].pipe \in Going \/ Latest(s, "chunk") \cap (Lost(other) \cup Back(other)) # {}
          /\ items[s].pipe \in Going => first.pipe \in Going \/ Latest(s, "chunk") \cap Back(other) # {}
          /\ items[s].chunk # "none" => first.chunk # "none"
      <3> HIDE DEF first
      <3>1. first = Compared(items[s], s, "chunk", other)
        BY DEF first
      <3> QED
        BY <2>3, <3>1, ComparedItem
    <2> HIDE DEF first
    <2>5. /\ items'[s].pipe \in Going =>
                first.pipe \in Going \/ Latest(s, "acceptance") \cap (Lost(other) \cup Back(other)) # {}
          /\ first.pipe \in Going => items'[s].pipe \in Going \/ Latest(s, "acceptance") \cap Back(other) # {}
          /\ first.chunk # "none" => items'[s].chunk # "none"
      BY <2>2, <2>4, ComparedItem
    <2>6. \A phase : Latest(s, phase) \subseteq OfSubtask(s) /\ OfSubtask(s) \subseteq DOMAIN requests
      BY DEF Latest, OfSubtask
    <2>7. ASSUME NEW phase, Latest(s, phase) \cap (Lost(other) \cup Back(other)) # {}
          PROVE  \E r \in OfSubtask(s) : requests[r].status \in {"open", "passed"} \/ requests[r].integrated # 0
      BY <1>5, <2>6, <2>7
    <2>8. ASSUME NEW phase, Latest(s, phase) \cap Back(other) # {}
          PROVE  \E r \in OfSubtask(s) : requests'[r].integrated # 0
      BY <1>3, <1>5, <2>6, <2>8
    <2> QED
      BY <2>1, <2>4, <2>5, <2>7, <2>8
  <1> QED
    BY <1>1, <1>2, <1>4, <1>6 DEF Steady

\* The branch of a subtask nobody works on is a commit of the task; what it
\* has of its own is written by the subtask, in its paths, and so is what its
\* requests ask to review.  A branch that has been written is never moved.
BranchesRooted ==
    \A s \in DOMAIN items :
       /\ at[s] # 0 => branch[s] = hist[at[s]] /\ (items[s].pipe \in Going => at[s] = items[s].base)
       /\ at[s] = 0 => \A p \in Paths : branch[s][p] # hist[items[s].base][p] =>
                          branch[s][p][1] = s /\ p \in items[s].owned
ReviewsRooted ==
    \A s \in DOMAIN items : \A r \in OfSubtask(s) :
       /\ at[s] = 0 /\ requests[r].base = items[s].base /\ Manifest(r) # {}
       /\ \A p \in Manifest(r) :
            requests[r].tree[p][1] = s /\ p \in items[s].owned /\ branch[s][p][1] = s
OneOpen ==
    \A s \in DOMAIN items : \A q, r \in OfSubtask(s) :
       requests[q].status = "open" /\ requests[r].status = "open" => q = r
Rooted == BranchesRooted /\ ReviewsRooted /\ OneOpen

LEMMA SameManifests ==
    ASSUME Base, Base', Kept
    PROVE  \A r \in DOMAIN requests :
             /\ r \in DOMAIN requests' /\ requests'[r].sub = requests[r].sub
             /\ Manifest(r)' = Manifest(r)
             /\ requests'[r].tree = requests[r].tree /\ requests'[r].base = requests[r].base
  <1>1. ASSUME NEW r \in DOMAIN requests
        PROVE  /\ r \in DOMAIN requests' /\ requests'[r].sub = requests[r].sub
               /\ requests'[r].tree = requests[r].tree /\ requests'[r].base = requests[r].base
               /\ requests[r].base \in 1..Len(hist)
    <2>1. requests[r].base \in 1..Len(hist)
      BY DEF Base, RequestsFit
    <2>2. DOMAIN requests = 1..Len(requests) /\ DOMAIN requests' = 1..Len(requests')
      BY ListKept DEF Base, RequestsFit
    <2>3. r \in DOMAIN requests'
      BY <2>2 DEF Kept, RequestsKept, Base, RequestsFit
    <2>4. /\ requests'[r].sub = requests[r].sub
          /\ requests'[r].tree = requests[r].tree /\ requests'[r].base = requests[r].base
      BY <2>2 DEF Kept, RequestsKept
    <2> QED
      BY <2>1, <2>3, <2>4
  <1>2. \A n \in 1..Len(hist) : hist'[n] = hist[n]
    BY DEF Kept, HistoryKept
  <1>3. \A r \in DOMAIN requests : Manifest(r)' = Manifest(r)
    BY <1>1, <1>2 DEF Manifest
  <1> QED
    BY <1>1, <1>3

\* The branch of every subtask planned before is the same, or is rooted anew.
LEMMA RootedOn ==
    ASSUME Base, Base', Kept, Rooted, BranchesRooted', DOMAIN requests' = DOMAIN requests,
           \A r \in DOMAIN requests : requests'[r].status = "open" => requests[r].status = "open",
           \A s \in DOMAIN items : OfSubtask(s) # {} =>
              /\ at'[s] = 0 /\ items'[s].base = items[s].base
              /\ \A p \in Paths : branch[s][p][1] = s => branch'[s][p][1] = s
    PROVE  Rooted'
  <1>1. \A s : OfSubtask(s)' = OfSubtask(s)
    BY SameScopes DEF Kept
  <1>2. \A s : OfSubtask(s) # {} => s \in DOMAIN items
    BY DEF OfSubtask, Base, RequestsFit
  <1>3. \A s, r : r \in OfSubtask(s) => r \in DOMAIN requests
    BY DEF OfSubtask
  <1>4. OneOpen'
    BY <1>1, <1>2, <1>3 DEF Rooted, OneOpen
  <1>5. ASSUME NEW s \in DOMAIN items', NEW r \in OfSubtask(s)
        PROVE  /\ at'[s] = 0 /\ requests'[r].base = items'[s].base /\ Manifest(r)' # {}
               /\ \A p \in Manifest(r)' :
                    requests'[r].tree[p][1] = s /\ p \in items'[s].owned /\ branch'[s][p][1] = s
    <2>1. s \in DOMAIN items /\ r \in DOMAIN requests
      BY <1>2, <1>3, <1>5
    <2>2. /\ requests[r].base = items[s].base /\ Manifest(r) # {}
          /\ \A p \in Manifest(r) :
               requests[r].tree[p][1] = s /\ p \in items[s].owned /\ branch[s][p][1] = s
      BY <2>1 DEF Rooted, ReviewsRooted
    <2>3. /\ Manifest(r)' = Manifest(r) /\ requests'[r].tree = requests[r].tree
          /\ requests'[r].base = requests[r].base
      BY <2>1, SameManifests
    <2>4. items'[s].owned = items[s].owned
      BY <2>1 DEF Kept, ItemsKept
    <2>5. Manifest(r) \subseteq Paths
      BY DEF Manifest
    <2>6. /\ at'[s] = 0 /\ items'[s].base = items[s].base
          /\ \A p \in Paths : branch[s][p][1] = s => branch'[s][p][1] = s
      BY <1>5, <2>1
    <2> QED
      BY <2>2, <2>3, <2>4, <2>5, <2>6
  <1>6. ReviewsRooted'
    BY <1>1, <1>5 DEF ReviewsRooted
  <1> QED
    BY <1>4, <1>6 DEF Rooted

LEMMA SteadyRooted ==
    ASSUME Base, Base', Kept, Rooted, Steady
    PROVE  Rooted'
  <1>1. ASSUME NEW s \in DOMAIN items
        PROVE  /\ at'[s] = at[s] /\ branch'[s] = branch[s] /\ items'[s].base = items[s].base
               /\ items'[s].owned = items[s].owned
               /\ items'[s].pipe \in Going => items[s].pipe \in Going \/ OfSubtask(s) # {}
    BY DEF Steady, Kept, ItemsKept
  <1>2. ASSUME NEW s \in DOMAIN items, OfSubtask(s) # {}
        PROVE  at[s] = 0
    BY <1>2 DEF Rooted, ReviewsRooted
  <1>3. ASSUME NEW s \in DOMAIN items
        PROVE  /\ s \in Subtasks /\ items[s].base \in 1..Len(hist)
               /\ at[s] # 0 => at[s] \in 1..Len(hist)
    BY DEF Base, ItemsFit, BranchesFit, HistoryFits
  <1>4. \A n \in 1..Len(hist) : hist'[n] = hist[n]
    BY DEF Kept, HistoryKept
  <1>5. DOMAIN items' = DOMAIN items /\ DOMAIN requests' = DOMAIN requests
    BY DEF Steady
  <1>6. ASSUME NEW s \in DOMAIN items'
        PROVE  /\ at'[s] # 0 => branch'[s] = hist'[at'[s]] /\ (items'[s].pipe \in Going => at'[s] = items'[s].base)
               /\ at'[s] = 0 => \A p \in Paths : branch'[s][p] # hist'[items'[s].base][p] =>
                                   branch'[s][p][1] = s /\ p \in items'[s].owned
    <2>1. s \in DOMAIN items
      BY <1>5
    <2>2. /\ at[s] # 0 => branch[s] = hist[at[s]] /\ (items[s].pipe \in Going => at[s] = items[s].base)
          /\ at[s] = 0 => \A p \in Paths : branch[s][p] # hist[items[s].base][p] =>
                             branch[s][p][1] = s /\ p \in items[s].owned
      BY <2>1 DEF Rooted, BranchesRooted
    <2> QED
      BY <1>1, <1>2, <1>3, <1>4, <2>1, <2>2
  <1>7. BranchesRooted'
    BY <1>6 DEF BranchesRooted
  <1>8. \A r \in DOMAIN requests : requests'[r].status = "open" => requests[r].status = "open"
    BY DEF Steady
  <1> QED
    BY <1>1, <1>2, <1>5, <1>7, <1>8, RootedOn

\* What the steps that are not steady do, field by field.
LEMMA DeclareEffects ==
    ASSUME Base, NEW batch \in SUBSET (Subtasks \ DOMAIN items),
           NEW deps \in [batch -> SUBSET (batch \cup DOMAIN items)], NEW owned \in [batch -> Scopes],
           Declare(batch, deps, owned)
    PROVE  /\ hist' = hist /\ journal' = journal /\ DOMAIN requests' = DOMAIN requests
           /\ \A r \in DOMAIN requests : /\ requests'[r].status = requests[r].status
                                         /\ requests'[r].integrated = requests[r].integrated
           /\ DOMAIN items' = batch \cup DOMAIN items
           /\ \A s \in DOMAIN items :
                items'[s] = items[s] /\ branch'[s] = branch[s] /\ at'[s] = at[s]
           /\ \A s \in batch : /\ items'[s].pipe = "pending" /\ items'[s].base = Len(hist)
                               /\ branch'[s] = hist[Len(hist)] /\ at'[s] = Len(hist)
  <1>1. Base' /\ Kept
    BY DeclareFits
  <1>2. /\ hist' = hist /\ journal' = journal /\ Restructured
        /\ branch' = [s \in Subtasks |-> IF s \in batch THEN hist[Tip] ELSE branch[s]]
        /\ at' = [s \in Subtasks |-> IF s \in batch THEN Tip ELSE at[s]]
    BY DEF Declare
  <1>3. /\ DOMAIN requests' = DOMAIN requests
        /\ \A r \in DOMAIN requests : /\ requests'[r].status = requests[r].status
                                      /\ requests'[r].integrated = requests[r].integrated
    BY <1>1, <1>2, RestructuredStep DEF Base, Kept, ItemsKept
  <1>4. /\ DOMAIN items' = batch \cup DOMAIN items
        /\ \A s \in DOMAIN items : items'[s] = items[s]
        /\ \A s \in batch :
             items'[s] = [status |-> "open", pipe |-> "pending", deps |-> deps[s], owned |-> owned[s],
                          base |-> Tip, active |-> 0, chunk |-> "none"]
    BY Declared
  <1>5. ASSUME NEW s \in DOMAIN items
        PROVE  branch'[s] = branch[s] /\ at'[s] = at[s]
    <2>1. s \in Subtasks /\ s \notin batch
      BY DEF Base, ItemsFit
    <2> QED
      BY <1>2, <2>1
  <1>6. ASSUME NEW s \in batch
        PROVE  /\ items'[s].pipe = "pending" /\ items'[s].base = Len(hist)
               /\ branch'[s] = hist[Len(hist)] /\ at'[s] = Len(hist)
    <2>1. s \in Subtasks
      OBVIOUS
    <2>2. branch'[s] = hist[Len(hist)] /\ at'[s] = Len(hist)
      BY <1>2, <2>1 DEF Tip
    <2>3. items'[s].pipe = "pending" /\ items'[s].base = Len(hist)
      BY <1>4 DEF Tip
    <2> QED
      BY <2>2, <2>3
  <1> QED
    BY <1>2, <1>3, <1>4, <1>5, <1>6

\* A branch that may be moved holds nothing of the subtask's own.
LEMMA RefreshedEffects ==
    ASSUME Base, NEW s \in DOMAIN items, Refreshable(s), Refreshed(s)
    PROVE  /\ at[s] # 0 /\ branch'[s] = hist[Len(hist)] /\ at'[s] = Len(hist)
           /\ \A t \in DOMAIN items \ {s} : branch'[t] = branch[t] /\ at'[t] = at[t]
  <1>1. DOMAIN items \subseteq Subtasks /\ s \in Subtasks
    BY DEF Base, ItemsFit
  <1>2. DOMAIN branch = Subtasks /\ DOMAIN at = Subtasks
    BY DEF Base, BranchesFit
  <1>3. branch' = [branch EXCEPT ![s] = hist[Len(hist)]] /\ at' = [at EXCEPT ![s] = Len(hist)]
    BY DEF Refreshed, Tip
  <1>4. at[s] # 0
    <2>1. items[s].base \in 1..Len(hist) /\ Tip \in 1..Len(hist)
      BY DEF Base, ItemsFit, HistoryFits, Tip
    <2> QED
      BY <2>1 DEF Refreshable
  <1> QED
    BY <1>1, <1>2, <1>3, <1>4

LEMMA StartEffects ==
    ASSUME Base, NEW s \in DOMAIN items, Start(s)
    PROVE  /\ hist' = hist /\ journal' = journal /\ requests' = requests /\ Free(s)
           /\ at[s] # 0 /\ branch'[s] = hist[Len(hist)] /\ at'[s] = Len(hist)
           /\ DOMAIN items' = DOMAIN items
           /\ items'[s].pipe = "in_progress" /\ items'[s].base = Len(hist)
           /\ items'[s].chunk = items[s].chunk
           /\ \A t \in DOMAIN items \ {s} :
                items'[t] = items[t] /\ branch'[t] = branch[t] /\ at'[t] = at[t]
  <1>1. /\ hist' = hist /\ journal' = journal /\ requests' = requests /\ Free(s)
        /\ Refreshable(s) /\ Refreshed(s)
        /\ items' = [items EXCEPT ![s].pipe = "in_progress", ![s].base = Tip]
    BY DEF Start
  <1>2. items[s] \in Item
    BY DEF Base, ItemsFit
  <1>3. /\ DOMAIN items' = DOMAIN items
        /\ items'[s].pipe = "in_progress" /\ items'[s].base = Len(hist)
        /\ items'[s].chunk = items[s].chunk
        /\ \A t \in DOMAIN items \ {s} : items'[t] = items[t]
    BY <1>1, <1>2 DEF Item, Tip
  <1> QED
    BY <1>1, <1>3, RefreshedEffects

LEMMA StartUndoneEffects ==
    ASSUME Base, NEW s \in DOMAIN items, StartUndone(s)
    PROVE  /\ hist' = hist /\ journal' = journal /\ requests' = requests /\ items' = items
           /\ items[s].pipe = "pending"
           /\ at[s] # 0 /\ branch'[s] = hist[Len(hist)] /\ at'[s] = Len(hist)
           /\ \A t \in DOMAIN items \ {s} : branch'[t] = branch[t] /\ at'[t] = at[t]
  <1>1. /\ hist' = hist /\ journal' = journal /\ requests' = requests /\ items' = items
        /\ Refreshable(s) /\ Refreshed(s)
    BY DEF StartUndone
  <1> QED
    BY <1>1, RefreshedEffects DEF Refreshable

LEMMA CommitEffects ==
    ASSUME Base, NEW s \in DOMAIN items, NEW written \in SUBSET items[s].owned, Commit(s, written)
    PROVE  /\ hist' = hist /\ journal' = journal /\ requests' = requests /\ items' = items
           /\ items[s].pipe = "in_progress" /\ at'[s] = 0
           /\ \A p \in Paths : IF p \in written THEN branch'[s][p][1] = s ELSE branch'[s][p] = branch[s][p]
           /\ \A t \in DOMAIN items \ {s} : branch'[t] = branch[t] /\ at'[t] = at[t]
  <1>1. /\ hist' = hist /\ journal' = journal /\ requests' = requests /\ items' = items
        /\ Effective(s) = "in_progress"
        /\ branch' = [branch EXCEPT ![s] =
                        [p \in Paths |-> IF p \in written THEN <<s, CommitsOf(s) + 1>> ELSE branch[s][p]]]
        /\ at' = [at EXCEPT ![s] = 0]
    BY DEF Commit
  <1>2. DOMAIN items \subseteq Subtasks /\ s \in Subtasks /\ DOMAIN branch = Subtasks /\ DOMAIN at = Subtasks
    BY DEF Base, ItemsFit, BranchesFit
  <1>3. items[s].pipe = "in_progress"
    <2>1. "in_progress" # "in_review" /\ "in_progress" # "passed"
      OBVIOUS
    <2> QED
      BY <1>1, <2>1 DEF Effective
  <1>4. branch'[s] = [p \in Paths |-> IF p \in written THEN <<s, CommitsOf(s) + 1>> ELSE branch[s][p]]
    BY <1>1, <1>2
  <1>5. \A p \in Paths : IF p \in written THEN branch'[s][p][1] = s ELSE branch'[s][p] = branch[s][p]
    BY <1>4
  <1>6. at'[s] = 0 /\ \A t \in DOMAIN items \ {s} : branch'[t] = branch[t] /\ at'[t] = at[t]
    BY <1>1, <1>2
  <1> QED
    BY <1>1, <1>3, <1>5, <1>6

LEMMA RequestReviewEffects ==
    ASSUME Base, NEW s \in DOMAIN items, NEW phase \in {"chunk", "acceptance"}, RequestReview(s, phase)
    PROVE  /\ UNCHANGED git /\ branch[s] # hist[items[s].base] /\ items[s].pipe = "in_progress"
           /\ \A r \in OfSubtask(s) : requests[r].status # "open"
           /\ phase = "chunk" => items[s].chunk = "open"
           /\ DOMAIN items' = DOMAIN items
           /\ items'[s].pipe = "in_review" /\ items'[s].base = items[s].base
           /\ items'[s].chunk = items[s].chunk
           /\ \A t \in DOMAIN items \ {s} : items'[t] = items[t]
           /\ DOMAIN requests' = DOMAIN requests \cup {Len(requests) + 1}
           /\ Len(requests) + 1 \notin DOMAIN requests
           /\ \A r \in DOMAIN requests : requests'[r] = requests[r]
           /\ requests'[Len(requests) + 1] =
                [sub |-> s, phase |-> phase, tree |-> branch[s], base |-> items[s].base,
                 current |-> TRUE, integrated |-> 0, status |-> "open"]
  <1> DEFINE a == [sub |-> s, phase |-> phase, tree |-> branch[s], base |-> items[s].base,
                   current |-> TRUE, integrated |-> 0, status |-> "open"]
  <1>1. /\ UNCHANGED git /\ requests' = Append(requests, a) /\ branch[s] # hist[items[s].base]
        /\ phase = "chunk" => items[s].chunk = "open"
        /\ items' = [items EXCEPT ![s].pipe = "in_review", ![s].active = Len(requests')]
        /\ Effective(s) = "in_progress"
    BY DEF RequestReview
  <1>2. items[s] \in Item /\ requests \in Seq(Asked) /\ a \in Asked
    BY Requested DEF Base, ItemsFit, RequestsFit
  <1>3. /\ DOMAIN items' = DOMAIN items
        /\ items'[s].pipe = "in_review" /\ items'[s].base = items[s].base
        /\ items'[s].chunk = items[s].chunk
        /\ \A t \in DOMAIN items \ {s} : items'[t] = items[t]
    BY <1>1, <1>2 DEF Item
  <1>4. /\ items[s].pipe = "in_progress"
        /\ \A r \in OfSubtask(s) : requests[r].status # "open"
    <2>1. "in_progress" # "in_review" /\ "in_progress" # "passed"
      OBVIOUS
    <2> QED
      BY <1>1, <2>1 DEF Effective, Open
  <1> HIDE DEF a
  <1>5. /\ DOMAIN requests' = DOMAIN requests \cup {Len(requests) + 1}
        /\ Len(requests) + 1 \notin DOMAIN requests
        /\ \A r \in DOMAIN requests : requests'[r] = requests[r]
        /\ requests'[Len(requests) + 1] = a
    BY <1>1, <1>2
  <1> QED
    BY <1>1, <1>3, <1>4, <1>5 DEF a

\* A step moves the base of no subtask that has written, undoes nothing one
\* wrote in its branch, and asks for the review of a branch as it is.
Orderly ==
    /\ \A s \in DOMAIN items : at[s] = 0 =>
          at'[s] = 0 /\ \A p \in Paths : branch[s][p][1] = s => branch'[s][p][1] = s
    /\ \A s \in DOMAIN items' : s \in DOMAIN items => items'[s].base = items[s].base \/ at[s] # 0
    /\ \A r \in DOMAIN requests :
          /\ r \in DOMAIN requests' /\ requests'[r].tree = requests[r].tree
          /\ requests'[r].sub = requests[r].sub
          /\ requests'[r].status = "open" => requests[r].status = "open"
    /\ \A r \in DOMAIN requests' \ DOMAIN requests :
          requests'[r].integrated = 0 /\ requests'[r].tree = branch[requests'[r].sub]

LEMMA OrderlyOn ==
    ASSUME Base, Base', Kept, DOMAIN requests' = DOMAIN requests,
           \A r \in DOMAIN requests : requests'[r].status = "open" => requests[r].status = "open",
           \A s \in DOMAIN items : at[s] = 0 =>
              /\ at'[s] = 0 /\ items'[s].base = items[s].base
              /\ \A p \in Paths : branch[s][p][1] = s => branch'[s][p][1] = s
    PROVE  Orderly
  <1>1. \A r \in DOMAIN requests :
          r \in DOMAIN requests' /\ requests'[r].tree = requests[r].tree /\ requests'[r].sub = requests[r].sub
    BY SameManifests
  <1> QED
    BY <1>1 DEF Orderly

LEMMA SteadyOrderly ==
    ASSUME Base, Base', Kept, Steady
    PROVE  Orderly
  <1>1. DOMAIN requests' = DOMAIN requests /\ at' = at /\ branch' = branch
    BY DEF Steady
  <1>2. \A r \in DOMAIN requests : requests'[r].status = "open" => requests[r].status = "open"
    BY DEF Steady
  <1>3. \A s \in DOMAIN items : items'[s].base = items[s].base
    BY DEF Steady
  <1> QED
    BY <1>1, <1>2, <1>3, OrderlyOn

\* Facts of the records that the following lemmas use.
LEMMA Placed ==
    ASSUME Base
    PROVE  /\ Len(hist) \in 1..Len(hist)
           /\ \A s \in DOMAIN items : /\ s \in Subtasks /\ items[s].base \in 1..Len(hist)
                                      /\ at[s] \in 0..Len(hist) /\ branch[s] \in Trees
           /\ \A n \in 1..Len(hist) : hist[n] \in Trees
           /\ \A s : OfSubtask(s) # {} => s \in DOMAIN items
           /\ \A s, r : r \in OfSubtask(s) <=> r \in DOMAIN requests /\ requests[r].sub = s
  <1>1. \A s \in DOMAIN items : /\ s \in Subtasks /\ items[s].base \in 1..Len(hist)
                                /\ at[s] \in 0..Len(hist) /\ branch[s] \in Trees
    BY DEF Base, ItemsFit, BranchesFit
  <1>2. Len(hist) \in 1..Len(hist) /\ \A n \in 1..Len(hist) : hist[n] \in Trees
    BY DEF Base, HistoryFits
  <1>3. \A s : OfSubtask(s) # {} => s \in DOMAIN items
    BY DEF OfSubtask, Base, RequestsFit
  <1> QED
    BY <1>1, <1>2, <1>3 DEF OfSubtask

LEMMA DeclareRooted ==
    ASSUME Base, Rooted, NEW batch \in SUBSET (Subtasks \ DOMAIN items),
           NEW deps \in [batch -> SUBSET (batch \cup DOMAIN items)], NEW owned \in [batch -> Scopes],
           Declare(batch, deps, owned)
    PROVE  Rooted' /\ Orderly
  <1>1. Base' /\ Kept
    BY DeclareFits
  <1>2. /\ hist' = hist /\ DOMAIN requests' = DOMAIN requests
        /\ \A r \in DOMAIN requests : requests'[r].status = requests[r].status
        /\ DOMAIN items' = batch \cup DOMAIN items
        /\ \A s \in DOMAIN items :
             items'[s] = items[s] /\ branch'[s] = branch[s] /\ at'[s] = at[s]
        /\ \A s \in batch : /\ items'[s].pipe = "pending" /\ items'[s].base = Len(hist)
                            /\ branch'[s] = hist[Len(hist)] /\ at'[s] = Len(hist)
    BY DeclareEffects
  <1>3. ASSUME NEW s \in DOMAIN items'
        PROVE  /\ at'[s] # 0 => branch'[s] = hist'[at'[s]] /\ (items'[s].pipe \in Going => at'[s] = items'[s].base)
               /\ at'[s] = 0 => \A p \in Paths : branch'[s][p] # hist'[items'[s].base][p] =>
                                   branch'[s][p][1] = s /\ p \in items'[s].owned
    <2>1. CASE s \in DOMAIN items
      BY <1>2, <2>1 DEF Rooted, BranchesRooted
    <2>2. CASE s \in batch
      <3>1. Len(hist) # 0
        BY Placed
      <3> QED
        BY <1>2, <2>2, <3>1 DEF Going
    <2> QED
      BY <1>2, <2>1, <2>2
  <1>4. BranchesRooted'
    BY <1>3 DEF BranchesRooted
  <1>5. \A s \in DOMAIN items : OfSubtask(s) # {} => at[s] = 0
    BY DEF Rooted, ReviewsRooted
  <1>6. Rooted'
    BY <1>1, <1>2, <1>4, <1>5, RootedOn
  <1>7. Orderly
    BY <1>1, <1>2, OrderlyOn
  <1> QED
    BY <1>6, <1>7

\* The branch of one subtask is moved to the head of the task.
LEMMA RefreshedRooted ==
    ASSUME Base, Base', Kept, Rooted, NEW s \in DOMAIN items, hist' = hist, requests' = requests,
           at[s] # 0, branch'[s] = hist[Len(hist)], at'[s] = Len(hist), DOMAIN items' = DOMAIN items,
           items'[s].pipe \in Going => items'[s].base = Len(hist),
           \A t \in DOMAIN items \ {s} :
              items'[t] = items[t] /\ branch'[t] = branch[t] /\ at'[t] = at[t]
    PROVE  Rooted' /\ Orderly
  <1>1. Len(hist) # 0
    BY Placed
  <1>2. ASSUME NEW t \in DOMAIN items'
        PROVE  /\ at'[t] # 0 => branch'[t] = hist'[at'[t]] /\ (items'[t].pipe \in Going => at'[t] = items'[t].base)
               /\ at'[t] = 0 => \A p \in Paths : branch'[t][p] # hist'[items'[t].base][p] =>
                                   branch'[t][p][1] = t /\ p \in items'[t].owned
    <2>1. CASE t # s
      BY <2>1 DEF Rooted, BranchesRooted
    <2>2. CASE t = s
      BY <1>1, <2>2
    <2> QED
      BY <2>1, <2>2
  <1>3. BranchesRooted'
    BY <1>2 DEF BranchesRooted
  <1>4. \A t \in DOMAIN items : OfSubtask(t) # {} => at[t] = 0
    BY DEF Rooted, ReviewsRooted
  <1>5. \A t \in DOMAIN items : at[t] = 0 =>
          /\ at'[t] = 0 /\ items'[t].base = items[t].base
          /\ \A p \in Paths : branch[t][p][1] = t => branch'[t][p][1] = t
    OBVIOUS
  <1>6. Rooted'
    BY <1>3, <1>4, <1>5, RootedOn
  <1>7. Orderly
    BY <1>5, OrderlyOn
  <1> QED
    BY <1>6, <1>7

LEMMA StartingRooted ==
    ASSUME Base, Rooted, NEW s \in DOMAIN items, Start(s) \/ StartUndone(s)
    PROVE  Rooted' /\ Orderly
  <1>1. CASE Start(s)
    <2>1. Base' /\ Kept
      BY <1>1, StartFits
    <2> QED
      BY <1>1, <2>1, StartEffects, RefreshedRooted
  <1>2. CASE StartUndone(s)
    <2>1. Base' /\ Kept
      BY <1>2, StartUndoneFits
    <2>2. "pending" \notin Going
      BY DEF Going
    <2> QED
      BY <1>2, <2>1, <2>2, StartUndoneEffects, RefreshedRooted
  <1> QED
    BY <1>1, <1>2

LEMMA CommitRooted ==
    ASSUME Base, Rooted, NEW s \in DOMAIN items, NEW written \in SUBSET items[s].owned, Commit(s, written)
    PROVE  Rooted' /\ Orderly
  <1>1. Base' /\ Kept
    BY CommitFits
  <1>2. /\ hist' = hist /\ requests' = requests /\ items' = items
        /\ items[s].pipe = "in_progress" /\ at'[s] = 0
        /\ \A p \in Paths : IF p \in written THEN branch'[s][p][1] = s ELSE branch'[s][p] = branch[s][p]
        /\ \A t \in DOMAIN items \ {s} : branch'[t] = branch[t] /\ at'[t] = at[t]
    BY CommitEffects
  <1>3. ASSUME NEW p \in Paths, branch'[s][p] # hist[items[s].base][p]
        PROVE  branch'[s][p][1] = s /\ p \in items[s].owned
    <2>1. CASE p \in written
      BY <1>2, <2>1
    <2>2. CASE p \notin written
      <3>1. branch[s][p] # hist[items[s].base][p]
        BY <1>2, <1>3, <2>2
      <3>2. at[s] = 0
        <4>1. "in_progress" \in Going
          BY DEF Going
        <4> QED
          BY <1>2, <3>1, <4>1 DEF Rooted, BranchesRooted
      <3>3. branch[s][p][1] = s /\ p \in items[s].owned
        BY <3>1, <3>2 DEF Rooted, BranchesRooted
      <3> QED
        BY <1>2, <2>2, <3>3
    <2> QED
      BY <2>1, <2>2
  <1>4. ASSUME NEW t \in DOMAIN items'
        PROVE  /\ at'[t] # 0 => branch'[t] = hist'[at'[t]] /\ (items'[t].pipe \in Going => at'[t] = items'[t].base)
               /\ at'[t] = 0 => \A p \in Paths : branch'[t][p] # hist'[items'[t].base][p] =>
                                   branch'[t][p][1] = t /\ p \in items'[t].owned
    <2>1. CASE t # s
      BY <1>2, <2>1 DEF Rooted, BranchesRooted
    <2>2. CASE t = s
      BY <1>2, <1>3, <2>2
    <2> QED
      BY <2>1, <2>2
  <1>5. BranchesRooted'
    BY <1>4 DEF BranchesRooted
  <1>6. \A t \in DOMAIN items : OfSubtask(t) # {} => at[t] = 0
    BY DEF Rooted, ReviewsRooted
  <1>7. \A t \in DOMAIN items : at[t] = 0 =>
          /\ at'[t] = 0 /\ items'[t].base = items[t].base
          /\ \A p \in Paths : branch[t][p][1] = t => branch'[t][p][1] = t
    BY <1>2
  <1>8. Rooted'
    BY <1>1, <1>2, <1>5, <1>6, <1>7, RootedOn
  <1>9. Orderly
    BY <1>1, <1>2, <1>7, OrderlyOn
  <1> QED
    BY <1>8, <1>9

LEMMA RequestReviewRooted ==
    ASSUME Base, Rooted, NEW s \in DOMAIN items, NEW phase \in {"chunk", "acceptance"}, RequestReview(s, phase)
    PROVE  Rooted' /\ Orderly
  <1>0. PICK q : q = Len(requests) + 1
    OBVIOUS
  <1>1. Base' /\ Kept
    BY RequestReviewFits
  <1>2. /\ hist' = hist /\ branch' = branch /\ at' = at
        /\ branch[s] # hist[items[s].base] /\ items[s].pipe = "in_progress"
        /\ \A r \in OfSubtask(s) : requests[r].status # "open"
        /\ DOMAIN items' = DOMAIN items
        /\ items'[s].base = items[s].base
        /\ \A t \in DOMAIN items \ {s} : items'[t] = items[t]
        /\ DOMAIN requests' = DOMAIN requests \cup {q} /\ q \notin DOMAIN requests
        /\ \A r \in DOMAIN requests : requests'[r] = requests[r]
        /\ requests'[q] = [sub |-> s, phase |-> phase, tree |-> branch[s], base |-> items[s].base,
                           current |-> TRUE, integrated |-> 0, status |-> "open"]
    BY <1>0, RequestReviewEffects DEF git
  <1>3. /\ requests'[q].sub = s /\ requests'[q].tree = branch[s] /\ requests'[q].base = items[s].base
        /\ requests'[q].integrated = 0 /\ requests'[q].status = "open"
    BY <1>2
  <1>4. at[s] = 0
    <2>1. "in_progress" \in Going
      BY DEF Going
    <2> QED
      BY <1>2, <2>1 DEF Rooted, BranchesRooted
  <1>5. \A p \in Paths : branch[s][p] # hist[items[s].base][p] => branch[s][p][1] = s /\ p \in items[s].owned
    BY <1>4 DEF Rooted, BranchesRooted
  <1>6. \A t \in DOMAIN items : items'[t].owned = items[t].owned
    BY <1>1 DEF Kept, ItemsKept
  <1>7. ASSUME NEW t \in DOMAIN items'
        PROVE  /\ at'[t] # 0 => branch'[t] = hist'[at'[t]] /\ (items'[t].pipe \in Going => at'[t] = items'[t].base)
               /\ at'[t] = 0 => \A p \in Paths : branch'[t][p] # hist'[items'[t].base][p] =>
                                   branch'[t][p][1] = t /\ p \in items'[t].owned
    <2>1. CASE t # s
      BY <1>2, <2>1 DEF Rooted, BranchesRooted
    <2>2. CASE t = s
      BY <1>2, <1>4, <1>5, <1>6, <2>2
    <2> QED
      BY <2>1, <2>2
  <1>8. BranchesRooted'
    BY <1>7 DEF BranchesRooted
  <1>9. \A t, r : r \in OfSubtask(t)' <=> r \in OfSubtask(t) \/ (r = q /\ t = s)
    BY <1>2, <1>3 DEF OfSubtask
  <1>10. \A t, r : r \in OfSubtask(t) => r \in DOMAIN requests
    BY DEF OfSubtask
  <1>11. OneOpen'
    <2>1. ASSUME NEW t \in DOMAIN items', NEW x \in OfSubtask(t)', NEW r \in OfSubtask(t)',
                 requests'[x].status = "open", requests'[r].status = "open"
          PROVE  x = r
      <3>1. CASE t = s
        <4>1. ASSUME NEW y \in OfSubtask(s), requests'[y].status = "open" PROVE FALSE
          BY <1>2, <1>10, <4>1
        <4> QED
          BY <1>9, <2>1, <3>1, <4>1
      <3>2. CASE t # s
        BY <1>2, <1>9, <1>10, <2>1, <3>2 DEF Rooted, OneOpen
      <3> QED
        BY <3>1, <3>2
    <2> QED
      BY <2>1 DEF OneOpen
  <1>12. ASSUME NEW t \in DOMAIN items', NEW r \in OfSubtask(t)'
         PROVE  /\ at'[t] = 0 /\ requests'[r].base = items'[t].base /\ Manifest(r)' # {}
                /\ \A p \in Manifest(r)' :
                     requests'[r].tree[p][1] = t /\ p \in items'[t].owned /\ branch'[t][p][1] = t
    <2>1. CASE r \in OfSubtask(t)
      <3>1. r \in DOMAIN requests /\ t \in DOMAIN items
        BY <1>2, <1>10, <2>1
      <3>2. /\ at[t] = 0 /\ requests[r].base = items[t].base /\ Manifest(r) # {}
            /\ \A p \in Manifest(r) :
                 requests[r].tree[p][1] = t /\ p \in items[t].owned /\ branch[t][p][1] = t
        BY <2>1, <3>1 DEF Rooted, ReviewsRooted
      <3>3. Manifest(r)' = Manifest(r)
        BY <1>1, <3>1, SameManifests
      <3>4. items'[t].base = items[t].base
        BY <1>2, <3>1
      <3> QED
        BY <1>2, <1>6, <3>1, <3>2, <3>3, <3>4
    <2>2. CASE r = q /\ t = s
      <3>1. Manifest(q)' = {p \in Paths : branch[s][p] # hist[items[s].base][p]}
        BY <1>2, <1>3 DEF Manifest
      <3>2. \E p \in Paths : branch[s][p] # hist[items[s].base][p]
        <4>1. branch[s] \in Trees /\ hist[items[s].base] \in Trees
          BY Placed
        <4> QED
          BY <1>2, <4>1 DEF Trees
      <3> QED
        BY <1>2, <1>3, <1>4, <1>5, <1>6, <2>2, <3>1, <3>2
    <2> QED
      BY <1>9, <2>1, <2>2
  <1>13. ReviewsRooted'
    BY <1>12 DEF ReviewsRooted
  <1>14. Orderly
    BY <1>2, <1>3 DEF Orderly
  <1> QED
    BY <1>8, <1>11, <1>13, <1>14 DEF Rooted

\* Every step but five is steady.
LEMMA SteadyStep ==
    ASSUME Base, [Next]_vars
    PROVE  \/ Steady
           \/ \E batch \in SUBSET (Subtasks \ DOMAIN items) :
                 \E deps \in [batch -> SUBSET (batch \cup DOMAIN items)], owned \in [batch -> Scopes] :
                    Declare(batch, deps, owned)
           \/ \E s \in DOMAIN items : Start(s) \/ StartUndone(s)
           \/ \E s \in DOMAIN items : \E written \in SUBSET items[s].owned : Commit(s, written)
           \/ \E s \in DOMAIN items, phase \in {"chunk", "acceptance"} : RequestReview(s, phase)
  <1>1. CASE \E s \in DOMAIN items : DeclareChunks(s)
    BY <1>1, DeclareChunksSteady
  <1>2. CASE \E s \in DOMAIN items : Supersede(s)
    BY <1>2, SupersedeSteady
  <1>3. CASE \E r \in DOMAIN requests : Fail(r) \/ PassChunk(r) \/ Reopen(r)
    BY <1>3, SettlingSteady
  <1>4. CASE \E r \in DOMAIN requests : Withdraw(r)
    BY <1>4, WithdrawSteady
  <1>5. CASE \E r \in DOMAIN requests, upto \in {"intent", "moved", "reset", "done", "recorded"} :
                Pass(r, upto)
    BY <1>5, PassSteady
  <1>6. CASE Recover
    <2>1. DOMAIN requests' = DOMAIN requests
      BY <1>6, RecoverFits
    <2>2. /\ items' = items /\ branch' = branch /\ at' = at
          /\ \A r \in DOMAIN requests : requests'[r].status = requests[r].status
      BY <1>6, RecoverStep
    <2> QED
      BY <2>1, <2>2, ElsewhereSteady
  <1>7. CASE HandEdit \/ PutAway \/ UNCHANGED vars
    <2>1. items' = items /\ requests' = requests /\ branch' = branch /\ at' = at
      BY <1>7 DEF HandEdit, PutAway, vars
    <2> QED
      BY <2>1, ElsewhereSteady
  <1>8. CASE \E other \in SUBSET DOMAIN requests : Resume(other)
    BY <1>8, ResumeSteady
  <1> QED
    BY <1>1, <1>2, <1>3, <1>4, <1>5, <1>6, <1>7, <1>8, Cases

LEMMA RootedStep ==
    ASSUME Base, Rooted, [Next]_vars
    PROVE  Rooted' /\ Orderly
  <1>1. Base' /\ Kept
    BY BaseStep
  <1>2. CASE Steady
    BY <1>1, <1>2, SteadyRooted, SteadyOrderly
  <1>3. CASE \E batch \in SUBSET (Subtasks \ DOMAIN items) :
               \E deps \in [batch -> SUBSET (batch \cup DOMAIN items)], owned \in [batch -> Scopes] :
                  Declare(batch, deps, owned)
    BY <1>3, DeclareRooted
  <1>4. CASE \E s \in DOMAIN items : Start(s) \/ StartUndone(s)
    BY <1>4, StartingRooted
  <1>5. CASE \E s \in DOMAIN items : \E written \in SUBSET items[s].owned : Commit(s, written)
    BY <1>5, CommitRooted
  <1>6. CASE \E s \in DOMAIN items, phase \in {"chunk", "acceptance"} : RequestReview(s, phase)
    BY <1>6, RequestReviewRooted
  <1> QED
    BY <1>2, <1>3, <1>4, <1>5, <1>6, SteadyStep

LEMMA RootedAlways == Spec => []Rooted
  <1>1. Init => Rooted
    BY DEF Init, Rooted, BranchesRooted, ReviewsRooted, OneOpen
  <1>2. Base /\ Rooted /\ [Next]_vars => Rooted'
    BY RootedStep
  <1> QED
    BY <1>1, <1>2, BaseAlways, PTL DEF Spec

\* The task branch, path by path: who wrote what it holds reviewed it, began
\* before, and wrote the path only once; a path never returns to what it held.
Writes(s, p) == \E n \in 1..Len(hist) : hist[n][p][1] = s
Wrote(s) == \E p \in Paths : Writes(s, p)

\* The request has been folded, or the journal says that it was.
Credited(r) ==
    \/ requests[r].integrated # 0
    \/ \E j \in DOMAIN journal : journal[j].request = r /\ journal[j].target # 0

FirstCommit == hist[1] = Baseline
AuthorsKnown ==
    \A s \in Subtasks : \A n \in 1..Len(hist) : \A p \in Paths : hist[n][p][1] = s =>
       /\ s \in DOMAIN items /\ at[s] = 0 /\ branch[s][p][1] = s
       /\ \E j \in DOMAIN journal : /\ journal[j].target # 0 /\ requests[journal[j].request].sub = s
                                    /\ requests[journal[j].request].tree[p] = hist[n][p]
BasesBefore ==
    \A s \in DOMAIN items : \A n \in 1..Len(hist) : \A p \in Paths :
       n <= items[s].base => hist[n][p][1] # s
ReviewsCover ==
    \A r \in DOMAIN requests : requests[r].status = "open" \/ Credited(r) =>
       \A p \in Paths : Writes(requests[r].sub, p) => requests[r].tree[p][1] = requests[r].sub
NothingReturns ==
    \A p \in Paths : \A k, n, m \in 1..Len(hist) :
       k <= n /\ n <= m /\ hist[k][p] = hist[m][p] => hist[n][p] = hist[k][p]
OneValue ==
    \A p \in Paths : \A m, n \in 1..Len(hist) : hist[m][p][1] = hist[n][p][1] => hist[m][p] = hist[n][p]
Lineage ==
    /\ FirstCommit /\ AuthorsKnown /\ BasesBefore /\ ReviewsCover /\ NothingReturns /\ OneValue

\* Only the fold of a review under way earns it a place in the journal.
LEMMA CreditsEarned ==
    ASSUME Base, [Next]_vars, NEW r \in DOMAIN requests, Credited(r)'
    PROVE  requests[r].status = "open" \/ Credited(r)
  <1>1. \/ requests'[r].integrated # 0
        \/ \E j \in DOMAIN journal' : journal'[j].request = r /\ journal'[j].target # 0
    BY DEF Credited
  <1>2. CASE Quiet
    BY <1>1, <1>2 DEF Quiet, Credited
  <1>3. CASE Recover
    <2>1. JournalUpdated
      BY <1>3, RecoverStep
    <2>2. \/ requests'[r].integrated = requests[r].integrated
          \/ \E j \in DOMAIN journal : /\ journal[j].request = r /\ journal[j].target # 0
                                       /\ requests'[r].integrated = journal[j].target
      BY <1>3, RecoverStep
    <2> QED
      BY <1>1, <2>1, <2>2 DEF JournalUpdated, Credited
  <1>4. ASSUME NEW q \in DOMAIN requests, NEW upto \in {"intent", "moved", "reset", "done", "recorded"},
               Pass(q, upto), requests[r].status # "open"
        PROVE  Credited(r)
    <2>1. requests[q].status = "open" /\ \A x \in DOMAIN requests \ {q} : requests'[x] = requests[x]
      BY <1>4, PassRecords
    <2>2. q # r /\ requests'[r] = requests[r]
      BY <1>4, <2>1
    <2>3. JournalStep(q)
      BY <1>4, PassStep
    <2>4. CASE JournalUpdated
      BY <1>1, <2>2, <2>4 DEF JournalUpdated, Credited
    <2>5. CASE \E row \in Fold : Appended(q, row)
      <3>1. PICK row \in Fold : Appended(q, row)
        BY <2>5
      <3>2. journal' = Append(journal, row) /\ row.request = q
        BY <3>1 DEF Appended
      <3>3. /\ DOMAIN journal' = DOMAIN journal \cup {Len(journal) + 1}
            /\ journal'[Len(journal) + 1] = row
            /\ \A j \in DOMAIN journal : journal'[j] = journal[j]
        BY <3>2 DEF Base, JournalFits
      <3> QED
        BY <1>1, <2>2, <3>2, <3>3 DEF Credited
    <2> QED
      BY <2>3, <2>4, <2>5 DEF JournalStep
  <1> QED
    BY <1>2, <1>3, <1>4, QuietStep

\* Who is credited with a fold wrote what it reviewed.
LEMMA CreditedWrote ==
    ASSUME Base, Integrity, Rooted, NEW r \in DOMAIN requests, Credited(r)
    PROVE  Wrote(requests[r].sub)
  <1>1. PICK n \in 1..Len(hist) : Holds(r, n)
    <2>1. CASE requests[r].integrated # 0
      <3>1. requests[r].integrated \in 1..Len(hist)
        BY <2>1 DEF Base, RequestsFit, HistoryFits
      <3> QED
        BY <2>1, <3>1 DEF Integrity, CreditsHold
    <2>2. CASE \E j \in DOMAIN journal : journal[j].request = r /\ journal[j].target # 0
      <3>1. PICK j \in DOMAIN journal : journal[j].request = r /\ journal[j].target # 0
        BY <2>2
      <3>2. journal[j].target \in 1..Len(hist)
        BY <3>1 DEF Base, JournalFits, HistoryFits
      <3> QED
        BY <3>1, <3>2 DEF Integrity, JournalHolds
    <2> QED
      BY <2>1, <2>2 DEF Credited
  <1>2. requests[r].sub \in DOMAIN items /\ r \in OfSubtask(requests[r].sub)
    BY DEF Base, RequestsFit, OfSubtask
  <1>3. PICK p \in Manifest(r) : requests[r].tree[p][1] = requests[r].sub
    BY <1>2 DEF Rooted, ReviewsRooted
  <1>4. p \in Paths /\ hist[n][p] = requests[r].tree[p]
    BY <1>1 DEF Holds, Manifest
  <1> QED
    BY <1>3, <1>4 DEF Wrote, Writes

\* A step that leaves the task branch as it is.
LEMMA CalmLineage ==
    ASSUME Base, Base', Kept, Orderly, Lineage, [Next]_vars, hist' = hist
    PROVE  Lineage'
  <1>1. FirstCommit' /\ NothingReturns' /\ OneValue'
    BY DEF Lineage, FirstCommit, NothingReturns, OneValue, Baseline
  <1>2. ASSUME NEW s \in Subtasks, NEW n \in 1..Len(hist), NEW p \in Paths, hist[n][p][1] = s
        PROVE  /\ s \in DOMAIN items' /\ at'[s] = 0 /\ branch'[s][p][1] = s
               /\ \E j \in DOMAIN journal' : /\ journal'[j].target # 0 /\ requests'[journal'[j].request].sub = s
                                             /\ requests'[journal'[j].request].tree[p] = hist[n][p]
    <2>1. s \in DOMAIN items /\ at[s] = 0 /\ branch[s][p][1] = s
      BY <1>2 DEF Lineage, AuthorsKnown
    <2>2. PICK j \in DOMAIN journal : /\ journal[j].target # 0 /\ requests[journal[j].request].sub = s
                                      /\ requests[journal[j].request].tree[p] = hist[n][p]
      BY <1>2 DEF Lineage, AuthorsKnown
    <2>3. /\ j \in DOMAIN journal' /\ journal'[j].request = journal[j].request
          /\ journal'[j].target = journal[j].target /\ journal[j].request \in DOMAIN requests
      BY DEF Kept, JournalKept, Base, JournalFits
    <2>4. s \in DOMAIN items' /\ at'[s] = 0 /\ branch'[s][p][1] = s
      BY <2>1 DEF Orderly, Kept, ItemsKept
    <2>5. \A r \in DOMAIN requests : requests'[r].sub = requests[r].sub /\ requests'[r].tree = requests[r].tree
      BY DEF Orderly
    <2> QED
      BY <2>2, <2>3, <2>4, <2>5
  <1>3. AuthorsKnown'
    BY <1>2 DEF AuthorsKnown
  <1>4. ASSUME NEW s \in DOMAIN items', NEW n \in 1..Len(hist), NEW p \in Paths, n <= items'[s].base
        PROVE  hist[n][p][1] # s
    <2>1. s \in Subtasks
      BY Placed DEF Base, ItemsFit
    <2>2. CASE s \in DOMAIN items /\ items'[s].base = items[s].base
      BY <1>4, <2>2 DEF Lineage, BasesBefore
    <2>3. CASE s \notin DOMAIN items \/ at[s] # 0
      BY <2>1, <2>3 DEF Lineage, AuthorsKnown
    <2> QED
      BY <2>2, <2>3 DEF Orderly
  <1>5. BasesBefore'
    BY <1>4 DEF BasesBefore
  <1>6. ASSUME NEW r \in DOMAIN requests', requests'[r].status = "open" \/ Credited(r)', NEW p \in Paths,
               NEW n \in 1..Len(hist), hist[n][p][1] = requests'[r].sub
        PROVE  requests'[r].tree[p][1] = requests'[r].sub
    <2>1. CASE r \in DOMAIN requests
      <3>1. requests'[r].sub = requests[r].sub /\ requests'[r].tree = requests[r].tree
        BY <2>1 DEF Orderly
      <3>2. requests[r].status = "open" \/ Credited(r)
        BY <1>6, <2>1, CreditsEarned DEF Orderly
      <3> QED
        BY <1>6, <2>1, <3>1, <3>2 DEF Lineage, ReviewsCover, Writes
    <2>2. CASE r \notin DOMAIN requests
      <3>1. requests'[r].tree = branch[requests'[r].sub]
        BY <2>2 DEF Orderly
      <3>2. requests'[r].sub \in Subtasks
        BY DEF Base, RequestsFit, ItemsFit
      <3> QED
        BY <1>6, <3>1, <3>2 DEF Lineage, AuthorsKnown
    <2> QED
      BY <2>1, <2>2
  <1>7. ReviewsCover'
    BY <1>6 DEF ReviewsCover, Writes
  <1> QED
    BY <1>1, <1>3, <1>5, <1>7 DEF Lineage

\* A patch that applies is the first its subtask writes: what it wrote before
\* would be in the reviewed tree, and the path would not be as it began.
LEMMA FoldFirst ==
    ASSUME Base, Rooted, Lineage, NEW r \in DOMAIN requests, requests[r].status = "open", Applies(r)
    PROVE  ~Wrote(requests[r].sub)
  <1> DEFINE s == requests[r].sub
             base == requests[r].base
  <1>1. /\ s \in DOMAIN items /\ r \in OfSubtask(s) /\ base \in 1..Len(hist)
        /\ Len(hist) \in 1..Len(hist) /\ Len(hist) \in Nat
    BY Placed DEF Base, RequestsFit, OfSubtask, HistoryFits
  <1>2. base = items[s].base
    BY <1>1 DEF Rooted, ReviewsRooted
  <1> HIDE DEF s
  <1>3. ASSUME NEW p \in Paths, NEW n \in 1..Len(hist), hist[n][p][1] = s
        PROVE  FALSE
    <2>1. base < n /\ hist[base][p][1] # s
      BY <1>1, <1>2, <1>3 DEF Lineage, BasesBefore
    <2>2. requests[r].tree[p][1] = s
      BY <1>3 DEF Lineage, ReviewsCover, Writes, s
    <2>3. p \in Manifest(r)
      BY <2>1, <2>2 DEF Manifest
    <2>4. hist[Len(hist)][p] = hist[base][p]
      BY <2>3 DEF Applies, Tip
    <2>5. hist[n][p] = hist[base][p]
      <3>1. n <= Len(hist) /\ base <= n
        BY <1>1, <2>1
      <3> QED
        BY <1>1, <2>4, <3>1 DEF Lineage, NothingReturns
    <2> QED
      BY <1>3, <2>1, <2>5
  <1> QED
    BY <1>3 DEF Wrote, Writes, s

\* The commit a fold adds: the reviewed bytes, over what the head had.
LEMMA FoldedHead ==
    ASSUME Base, NEW r \in DOMAIN requests, hist' = Append(hist, FoldedTree(r))
    PROVE  /\ Len(hist') = Len(hist) + 1 /\ Len(hist) \in Nat
           /\ \A n \in 1..Len(hist) : hist'[n] = hist[n]
           /\ \A p \in Paths : hist'[Len(hist) + 1][p] =
                 IF p \in Manifest(r) THEN requests[r].tree[p] ELSE hist[Len(hist)][p]
  <1>1. hist \in Seq(Trees) /\ FoldedTree(r) \in Trees
    BY FoldedTyped DEF Base, HistoryFits
  <1>2. \A p \in Paths : FoldedTree(r)[p] = IF p \in Manifest(r) THEN requests[r].tree[p] ELSE hist[Len(hist)][p]
    BY DEF FoldedTree, Tip
  <1> QED
    BY <1>1, <1>2

\* The fold is the first write of its subtask: who else wrote is as before.
LEMMA FoldWrites ==
    ASSUME Base, Rooted, Lineage, NEW r \in DOMAIN requests, requests[r].status = "open", Applies(r),
           hist' = Append(hist, FoldedTree(r)), NEW n \in 1..Len(hist'), NEW p \in Paths
    PROVE  \/ \E k \in 1..Len(hist) : hist'[n][p] = hist[k][p] /\ k <= n
           \/ /\ n = Len(hist) + 1 /\ p \in Manifest(r) /\ hist'[n][p] = requests[r].tree[p]
              /\ hist'[n][p][1] = requests[r].sub /\ ~Writes(requests[r].sub, p)
  <1>1. /\ Len(hist') = Len(hist) + 1 /\ Len(hist) \in Nat /\ Len(hist) \in 1..Len(hist)
        /\ \A k \in 1..Len(hist) : hist'[k] = hist[k]
        /\ \A x \in Paths : hist'[Len(hist) + 1][x] =
              IF x \in Manifest(r) THEN requests[r].tree[x] ELSE hist[Len(hist)][x]
    BY FoldedHead, Placed
  <1>2. requests[r].sub \in DOMAIN items /\ r \in OfSubtask(requests[r].sub)
    BY DEF Base, RequestsFit, OfSubtask
  <1>3. \A x \in Manifest(r) : requests[r].tree[x][1] = requests[r].sub
    BY <1>2 DEF Rooted, ReviewsRooted
  <1>4. ~Writes(requests[r].sub, p)
    BY FoldFirst DEF Wrote
  <1>5. CASE n \in 1..Len(hist)
    BY <1>1, <1>5
  <1>6. CASE n = Len(hist) + 1 /\ p \notin Manifest(r)
    BY <1>1, <1>6
  <1>7. CASE n = Len(hist) + 1 /\ p \in Manifest(r)
    BY <1>1, <1>3, <1>4, <1>7
  <1> QED
    BY <1>1, <1>5, <1>6, <1>7

LEMMA FoldPaths ==
    ASSUME Base, Rooted, Lineage, NEW r \in DOMAIN requests, requests[r].status = "open", Applies(r),
           hist' = Append(hist, FoldedTree(r))
    PROVE  NothingReturns' /\ OneValue'
  <1> DEFINE m == Len(hist) + 1
             s == requests[r].sub
  <1>1. /\ Len(hist') = m /\ Len(hist) \in Nat /\ Len(hist) \in 1..Len(hist)
        /\ \A k \in 1..Len(hist) : hist'[k] = hist[k]
        /\ \A p \in Paths : hist'[m][p] =
              IF p \in Manifest(r) THEN requests[r].tree[p] ELSE hist[Len(hist)][p]
    BY FoldedHead, Placed
  <1>2. \A p \in Manifest(r) : p \in Paths /\ requests[r].tree[p][1] = s
    <2>1. s \in DOMAIN items /\ r \in OfSubtask(s)
      BY DEF Base, RequestsFit, OfSubtask
    <2> QED
      BY <2>1 DEF Rooted, ReviewsRooted, Manifest
  <1>3. \A p \in Paths : \A n \in 1..Len(hist) : hist[n][p][1] # s
    BY FoldFirst DEF Wrote, Writes
  <1> HIDE DEF s
  <1>4. ASSUME NEW p \in Paths, NEW k \in 1..Len(hist'), NEW n \in 1..Len(hist'), NEW l \in 1..Len(hist'),
               k <= n, n <= l, hist'[k][p] = hist'[l][p]
        PROVE  hist'[n][p] = hist'[k][p]
    <2>1. CASE l \in 1..Len(hist)
      <3>1. k \in 1..Len(hist) /\ n \in 1..Len(hist)
        BY <1>1, <1>4, <2>1
      <3> QED
        BY <1>1, <1>4, <2>1, <3>1 DEF Lineage, NothingReturns
    <2>2. CASE l = m /\ n = m
      BY <1>4, <2>2
    <2>3. CASE l = m /\ n # m
      <3>1. n \in 1..Len(hist) /\ k \in 1..Len(hist) /\ n <= Len(hist)
        BY <1>1, <1>4, <2>3
      <3>2. p \notin Manifest(r)
        BY <1>1, <1>2, <1>3, <1>4, <2>3, <3>1
      <3>3. hist[k][p] = hist[Len(hist)][p]
        BY <1>1, <1>4, <2>3, <3>1, <3>2
      <3>4. hist[n][p] = hist[k][p]
        BY <1>1, <1>4, <3>1, <3>3 DEF Lineage, NothingReturns
      <3> QED
        BY <1>1, <3>1, <3>4
    <2> QED
      BY <1>1, <2>1, <2>2, <2>3
  <1>5. NothingReturns'
    BY <1>4 DEF NothingReturns
  <1>6. ASSUME NEW p \in Paths, NEW a \in 1..Len(hist'), NEW b \in 1..Len(hist'),
               hist'[a][p][1] = hist'[b][p][1], a <= b
        PROVE  hist'[a][p] = hist'[b][p]
    <2>1. CASE b \in 1..Len(hist)
      <3>1. a \in 1..Len(hist)
        BY <1>1, <1>6, <2>1
      <3> QED
        BY <1>1, <1>6, <2>1, <3>1 DEF Lineage, OneValue
    <2>2. CASE b = m /\ a = m
      BY <2>2
    <2>3. CASE b = m /\ a # m
      <3>1. a \in 1..Len(hist)
        BY <1>1, <2>3
      <3>2. p \notin Manifest(r)
        BY <1>1, <1>2, <1>3, <1>6, <2>3, <3>1
      <3>3. hist'[b][p] = hist[Len(hist)][p]
        BY <1>1, <2>3, <3>2
      <3> QED
        BY <1>1, <1>6, <3>1, <3>3 DEF Lineage, OneValue
    <2> QED
      BY <1>1, <2>1, <2>2, <2>3
  <1>7. OneValue'
    <2>1. ASSUME NEW p \in Paths, NEW a \in 1..Len(hist'), NEW b \in 1..Len(hist'),
                 hist'[a][p][1] = hist'[b][p][1]
          PROVE  hist'[a][p] = hist'[b][p]
      <3>1. a <= b \/ b <= a
        BY <1>1
      <3> QED
        BY <1>6, <2>1, <3>1
    <2> QED
      BY <2>1 DEF OneValue
  <1> QED
    BY <1>5, <1>7

LEMMA FoldLineage ==
    ASSUME Base, Base', Kept, Integrity, Rooted, Orderly, Steady, Lineage, [Next]_vars,
           NEW r \in DOMAIN requests, requests[r].status = "open", Applies(r),
           hist' = Append(hist, FoldedTree(r)), NEW row \in Fold, Appended(r, row)
    PROVE  Lineage'
  <1> DEFINE s == requests[r].sub
  <1>1. /\ Len(hist') = Len(hist) + 1 /\ Len(hist) \in Nat /\ Len(hist) \in 1..Len(hist)
        /\ \A k \in 1..Len(hist) : hist'[k] = hist[k]
    BY FoldedHead, Placed
  <1>2. ASSUME NEW n \in 1..Len(hist'), NEW p \in Paths
        PROVE  \/ \E k \in 1..Len(hist) : hist'[n][p] = hist[k][p] /\ k <= n
               \/ /\ n = Len(hist) + 1 /\ p \in Manifest(r) /\ hist'[n][p] = requests[r].tree[p]
                  /\ hist'[n][p][1] = s /\ ~Writes(s, p)
    BY FoldWrites
  <1>3. s \in DOMAIN items /\ s \in Subtasks /\ r \in OfSubtask(s)
    BY DEF Base, RequestsFit, ItemsFit, OfSubtask
  <1>4. /\ at[s] = 0 /\ \A p \in Manifest(r) : branch[s][p][1] = s /\ requests[r].tree[p][1] = s
    BY <1>3 DEF Rooted, ReviewsRooted
  <1>5. ~Wrote(s)
    BY FoldFirst
  <1>6. \A t : Wrote(t) => t # s
    BY <1>5
  <1> HIDE DEF s
  <1>7. FirstCommit'
    BY <1>1 DEF Lineage, FirstCommit, Baseline
  <1>8. /\ Len(journal) + 1 \in DOMAIN journal' /\ journal'[Len(journal) + 1] = row
        /\ row.request = r /\ row.target # 0
    <2>1. journal' = Append(journal, row) /\ row.request = r /\ row.target = Len(hist')
      BY <1>1 DEF Appended
    <2> QED
      BY <1>1, <2>1 DEF Base, JournalFits
  <1>9. \A q \in DOMAIN requests : requests'[q].sub = requests[q].sub /\ requests'[q].tree = requests[q].tree
    BY DEF Orderly
  <1>10. ASSUME NEW t \in Subtasks, NEW n \in 1..Len(hist'), NEW p \in Paths, hist'[n][p][1] = t
         PROVE  /\ t \in DOMAIN items' /\ at'[t] = 0 /\ branch'[t][p][1] = t
                /\ \E j \in DOMAIN journal' : /\ journal'[j].target # 0 /\ requests'[journal'[j].request].sub = t
                                              /\ requests'[journal'[j].request].tree[p] = hist'[n][p]
    <2>1. CASE \E k \in 1..Len(hist) : hist'[n][p] = hist[k][p] /\ k <= n
      <3>1. PICK k \in 1..Len(hist) : hist'[n][p] = hist[k][p]
        BY <2>1
      <3>2. t \in DOMAIN items /\ at[t] = 0 /\ branch[t][p][1] = t
        BY <1>10, <3>1 DEF Lineage, AuthorsKnown
      <3>3. PICK j \in DOMAIN journal : /\ journal[j].target # 0 /\ requests[journal[j].request].sub = t
                                        /\ requests[journal[j].request].tree[p] = hist[k][p]
        BY <1>10, <3>1 DEF Lineage, AuthorsKnown
      <3>4. /\ j \in DOMAIN journal' /\ journal'[j].request = journal[j].request
            /\ journal'[j].target = journal[j].target /\ journal[j].request \in DOMAIN requests
        <4>1. /\ DOMAIN journal = 1..Len(journal) /\ DOMAIN journal' = 1..Len(journal')
              /\ Len(journal) \in Nat /\ Len(journal') \in Nat
              /\ journal[j].request \in DOMAIN requests
          BY DEF Base, JournalFits
        <4>2. Len(journal) <= Len(journal') /\ JournalKept
          BY DEF Kept, JournalKept
        <4> QED
          BY <4>1, <4>2 DEF JournalKept
      <3>5. t \in DOMAIN items' /\ at'[t] = 0 /\ branch'[t][p][1] = t
        BY <3>2 DEF Orderly, Kept, ItemsKept
      <3> QED
        BY <1>9, <3>1, <3>3, <3>4, <3>5
    <2>2. CASE p \in Manifest(r) /\ hist'[n][p] = requests[r].tree[p] /\ hist'[n][p][1] = s
      <3>1. t = s /\ branch[s][p][1] = s
        BY <1>4, <1>10, <2>2
      <3>2. t \in DOMAIN items' /\ at'[t] = 0 /\ branch'[t][p][1] = t
        BY <1>3, <1>4, <3>1 DEF Orderly, Kept, ItemsKept
      <3>3. requests'[r].sub = t /\ requests'[r].tree[p] = hist'[n][p]
        BY <1>9, <2>2, <3>1 DEF s
      <3> QED
        BY <1>8, <3>2, <3>3
    <2> QED
      BY <1>2, <2>1, <2>2
  <1>11. AuthorsKnown'
    BY <1>10 DEF AuthorsKnown
  <1>12. ASSUME NEW t \in DOMAIN items', NEW n \in 1..Len(hist'), NEW p \in Paths, n <= items'[t].base
         PROVE  hist'[n][p][1] # t
    <2>1. t \in DOMAIN items /\ items'[t].base = items[t].base
      BY DEF Steady
    <2>2. items[t].base \in 1..Len(hist)
      BY <2>1, Placed
    <2>3. n \in 1..Len(hist)
      BY <1>1, <1>12, <2>1, <2>2
    <2> QED
      BY <1>1, <1>12, <2>1, <2>3 DEF Lineage, BasesBefore
  <1>13. BasesBefore'
    BY <1>12 DEF BasesBefore
  <1>14. ASSUME NEW q \in DOMAIN requests', requests'[q].status = "open" \/ Credited(q)', NEW p \in Paths,
                NEW n \in 1..Len(hist'), hist'[n][p][1] = requests'[q].sub
         PROVE  requests'[q].tree[p][1] = requests'[q].sub
    <2>1. q \in DOMAIN requests
      BY DEF Steady
    <2>2. requests'[q].sub = requests[q].sub /\ requests'[q].tree = requests[q].tree
      BY <1>9, <2>1
    <2>3. requests[q].status = "open" \/ Credited(q)
      BY <1>14, <2>1, CreditsEarned DEF Steady
    <2>4. CASE \E k \in 1..Len(hist) : hist'[n][p] = hist[k][p] /\ k <= n
      BY <1>14, <2>1, <2>2, <2>3, <2>4 DEF Lineage, ReviewsCover, Writes
    <2>5. CASE p \in Manifest(r) /\ hist'[n][p] = requests[r].tree[p] /\ hist'[n][p][1] = s
      <3>1. requests[q].sub = s /\ q \in OfSubtask(s)
        BY <1>14, <2>1, <2>2, <2>5 DEF OfSubtask
      <3>2. ~Credited(q)
        BY <1>5, <2>1, <3>1, CreditedWrote
      <3>3. q = r
        BY <1>3, <2>3, <3>1, <3>2 DEF Rooted, OneOpen
      <3> QED
        BY <1>4, <2>2, <2>5, <3>1, <3>3
    <2> QED
      BY <1>2, <2>4, <2>5
  <1>15. ReviewsCover'
    BY <1>14 DEF ReviewsCover, Writes
  <1>16. NothingReturns' /\ OneValue'
    BY FoldPaths
  <1> QED
    BY <1>7, <1>11, <1>13, <1>15, <1>16 DEF Lineage

\* Only a PASS moves the task branch, by the fold of what it reviewed.
LEMMA BranchMoves ==
    ASSUME Base, [Next]_vars
    PROVE  \/ hist' = hist
           \/ /\ Steady
              /\ \E r \in DOMAIN requests, row \in Fold :
                   /\ requests[r].status = "open" /\ Applies(r)
                   /\ hist' = Append(hist, FoldedTree(r)) /\ Appended(r, row)
  <1>1. CASE Quiet
    BY <1>1 DEF Quiet
  <1>2. CASE Recover
    BY <1>2, RecoverStep
  <1>3. ASSUME NEW r \in DOMAIN requests, NEW upto \in {"intent", "moved", "reset", "done", "recorded"},
               Pass(r, upto), hist' # hist
        PROVE  /\ Steady /\ requests[r].status = "open" /\ Applies(r)
               /\ \E row \in Fold : hist' = Append(hist, FoldedTree(r)) /\ Appended(r, row)
    <2>1. requests[r].status = "open" /\ Steady
      BY <1>3, PassRecords, PassSteady
    <2>2. Applies(r) /\ hist' = Append(hist, FoldedTree(r)) /\ \E row \in Fold : Appended(r, row)
      BY <1>3, PassStep
    <2> QED
      BY <2>1, <2>2
  <1> QED
    BY <1>1, <1>2, <1>3, QuietStep

LEMMA LineageStep ==
    ASSUME Base, Integrity, Rooted, Lineage, [Next]_vars
    PROVE  Lineage'
  <1>1. Base' /\ Kept /\ Orderly
    BY BaseStep, RootedStep
  <1>2. CASE hist' = hist
    BY <1>1, <1>2, CalmLineage
  <1>3. CASE hist' # hist
    <2>1. PICK r \in DOMAIN requests, row \in Fold :
            /\ requests[r].status = "open" /\ Applies(r)
            /\ hist' = Append(hist, FoldedTree(r)) /\ Appended(r, row)
      BY <1>3, BranchMoves
    <2>2. Steady
      BY <1>3, BranchMoves
    <2> QED
      BY <1>1, <2>1, <2>2, FoldLineage
  <1> QED
    BY <1>2, <1>3

LEMMA LineageAtFirst ==
    ASSUME Init PROVE Lineage
  <1> USE SubtaskAssumption
  <1>1. /\ items = <<>> /\ requests = <<>> /\ hist = <<Baseline>> /\ Len(hist) = 1 /\ hist[1] = Baseline
    BY DEF Init
  <1>2. \A n \in 1..Len(hist) : n = 1
    BY <1>1
  <1>3. FirstCommit /\ NothingReturns /\ OneValue
    BY <1>1, <1>2 DEF FirstCommit, NothingReturns, OneValue
  <1>4. AuthorsKnown
    BY <1>1, <1>2 DEF AuthorsKnown, Baseline
  <1>5. BasesBefore /\ ReviewsCover
    BY <1>1 DEF BasesBefore, ReviewsCover
  <1> QED
    BY <1>3, <1>4, <1>5 DEF Lineage

LEMMA LineageAlways == Spec => []Lineage
  <1>1. Init => Lineage
    BY LineageAtFirst
  <1>2. Base /\ Integrity /\ Rooted /\ Lineage /\ [Next]_vars => Lineage'
    BY LineageStep
  <1> QED
    BY <1>1, <1>2, BaseAlways, IntegrityAlways, RootedAlways, PTL DEF Spec

(***************************************************************************)
(* FinalDiffStands: when every live subtask has passed, the final review   *)
(* accounts for each byte a passed review reviewed.  A path that changed   *)
(* since its fold was written by another subtask, once; that one has       *)
(* passed, and its passed review holds what the path has now, or it was    *)
(* retired (_application_finalization_diff).                               *)
(***************************************************************************)
LEMMA PathAccounted ==
    ASSUME Base, Integrity, Rooted, Lineage, \A s \in Live : Passed(s),
           NEW r \in PassedFolds, NEW p \in Manifest(r)
    PROVE  LeftBehind(p) \/ Accounted(r, p)
  <1> DEFINE s == requests[r].sub
             head == Len(hist)
             v == hist[head][p]
             t == v[1]
  <1>1. /\ r \in DOMAIN requests /\ requests[r].status = "passed" /\ requests[r].phase = "acceptance"
        /\ p \in Paths /\ s \in DOMAIN items /\ r \in OfSubtask(s) /\ s \in Subtasks
        /\ head \in 1..Len(hist) /\ Tip = head /\ head \in Nat
    BY DEF PassedFolds, Base, RequestsFit, ItemsFit, OfSubtask, Manifest, HistoryFits, Tip
  <1>2. PICK n \in 1..Len(hist) : hist[n][p] = requests[r].tree[p]
    <2>1. requests[r].integrated \in 1..Len(hist) /\ Holds(r, requests[r].integrated)
      BY <1>1 DEF Integrity, PassesFolded, CreditsHold, Base, RequestsFit, HistoryFits
    <2> QED
      BY <2>1 DEF Holds
  <1>3. hist[n][p][1] = s
    BY <1>1, <1>2 DEF Rooted, ReviewsRooted
  <1>4. t \in Subtasks \cup {Nobody}
    <2>1. hist[head] \in Trees
      BY <1>1 DEF Base, HistoryFits
    <2> QED
      BY <1>1, <2>1 DEF Trees
  <1> HIDE DEF s
  <1>5. CASE t = s
    <2>1. v = hist[n][p]
      BY <1>1, <1>3, <1>5 DEF Lineage, OneValue
    <2> QED
      BY <1>1, <1>2, <2>1 DEF Accounted
  <1>6. CASE t = Nobody
    <2>1. 1 \in 1..Len(hist) /\ 1 <= n /\ n <= head
      BY <1>1, <1>2
    <2>2. hist[1][p] = <<Nobody, 0>>
      BY <1>1 DEF Lineage, FirstCommit, Baseline
    <2>3. hist[1][p] = v
      BY <1>1, <1>6, <2>1, <2>2 DEF Lineage, OneValue
    <2>4. hist[n][p] = hist[1][p]
      BY <1>1, <2>1, <2>3 DEF Lineage, NothingReturns
    <2>5. s = Nobody
      BY <1>3, <2>2, <2>4
    <2> QED
      BY <1>1, <2>5, SubtaskAssumption
  <1>7. CASE t \in Subtasks /\ t # s
    <2>1. t \in DOMAIN items
      BY <1>1, <1>7 DEF Lineage, AuthorsKnown
    <2>2. CASE t \notin Live
      <3>1. PICK j \in DOMAIN journal : /\ requests[journal[j].request].sub = t
                                        /\ requests[journal[j].request].tree[p] = v
        BY <1>1, <1>7 DEF Lineage, AuthorsKnown
      <3>2. journal[j].request \in DOMAIN requests
        BY DEF Base, JournalFits
      <3>3. LeftBehind(p)
        BY <1>1, <2>2, <3>1, <3>2 DEF LeftBehind
      <3> QED
        BY <3>3
    <2>3. CASE t \in Live
      <3>1. PICK q \in OfSubtask(t) : requests[q].status = "passed" /\ requests[q].phase = "acceptance"
        BY <2>1, <2>3 DEF Integrity, PassedReviewed
      <3>2. q \in DOMAIN requests /\ requests[q].sub = t
        BY DEF OfSubtask
      <3>3. requests[q].integrated # 0
        BY <3>1, <3>2 DEF Integrity, PassesFolded
      <3>4. requests[q].integrated \in 1..Len(hist) /\ Holds(q, requests[q].integrated)
        BY <3>2, <3>3 DEF Integrity, CreditsHold, Base, RequestsFit, HistoryFits
      <3>5. Writes(t, p)
        BY <1>1 DEF Writes
      <3>6. requests[q].tree[p][1] = t
        BY <1>1, <3>2, <3>3, <3>5 DEF Lineage, ReviewsCover, Credited
      <3>7. p \in Manifest(q)
        <4>1. requests[q].base \in 1..Len(hist) /\ requests[q].base = items[t].base
          BY <2>1, <3>1, <3>2 DEF Rooted, ReviewsRooted, Base, RequestsFit
        <4>2. hist[requests[q].base][p][1] # t
          BY <1>1, <2>1, <4>1 DEF Lineage, BasesBefore
        <4> QED
          BY <1>1, <3>6, <4>2 DEF Manifest
      <3>8. hist[requests[q].integrated][p] = requests[q].tree[p]
        BY <3>4, <3>7 DEF Holds
      <3>9. requests[q].tree[p] = v
        BY <1>1, <3>4, <3>6, <3>8 DEF Lineage, OneValue
      <3>10. q \in PassedFolds \ {r}
        BY <1>7, <3>1, <3>2 DEF PassedFolds, s
      <3> QED
        BY <1>1, <3>7, <3>9, <3>10 DEF Accounted
    <2> QED
      BY <2>2, <2>3
  <1> QED
    BY <1>4, <1>5, <1>6, <1>7

\* When every live subtask has passed, each path a PASS reviewed holds what it
\* reviewed, or what another PASS did that was folded later or wrote the path, or
\* what a subtask retired since left there (_application_finalization_diff).
THEOREM ReviewedBytesStand == Spec => []FinalDiffStands
  <1>1. Base /\ Integrity /\ Rooted /\ Lineage => FinalDiffStands
    BY PathAccounted DEF FinalDiffStands
  <1> QED
    BY <1>1, BaseAlways, IntegrityAlways, RootedAlways, LineageAlways, PTL

(***************************************************************************)
(* FirstFoldApplies.  Two subtasks at work, of which neither has written   *)
(* the task branch yet, own different paths, and the paths of each are     *)
(* as it began.  What makes a resting subtask busy without a start is a    *)
(* PASS that no longer counts, and who had a PASS has written, or is at    *)
(* work (a chunk).                                                         *)
(***************************************************************************)
Busy(s) == items[s].pipe \in Going \/ \E r \in OfSubtask(s) : requests[r].status = "open"
New(s) == Busy(s) /\ ~Wrote(s)

ChunksStand ==
    \A s \in DOMAIN items : \A r \in OfSubtask(s) : requests[r].phase = "chunk" =>
       /\ items[s].chunk # "none"
       /\ requests[r].status = "passed" => Wrote(s) \/ items[s].pipe \in Going
Apart ==
    \A s, t \in DOMAIN items : s # t /\ New(s) /\ New(t) => items[s].owned \cap items[t].owned = {}
Untouched ==
    \A s \in DOMAIN items : New(s) =>
       \A p \in items[s].owned : hist[Len(hist)][p] = hist[items[s].base][p]
Activity == ChunksStand /\ Apart /\ Untouched

CreditsWrite == \A r \in DOMAIN requests : Credited(r) => Wrote(requests[r].sub)

LEMMA CreditsWriteAlways == Spec => []CreditsWrite
  <1>1. Base /\ Integrity /\ Rooted => CreditsWrite
    BY CreditedWrote DEF CreditsWrite
  <1> QED
    BY <1>1, BaseAlways, IntegrityAlways, RootedAlways, PTL

LEMMA WroteOn ==
    ASSUME Base, Kept, NEW s
    PROVE  /\ Wrote(s) => Wrote(s)'
           /\ hist' = hist => (Wrote(s)' <=> Wrote(s))
  <1>1. \A n \in 1..Len(hist) : n \in 1..Len(hist') /\ hist'[n] = hist[n]
    BY DEF Kept, HistoryKept, Base, HistoryFits
  <1> QED
    BY <1>1 DEF Wrote, Writes

\* Only a start makes a subtask new.
Stirred ==
    \A s \in DOMAIN items' : New(s)' =>
       s \in DOMAIN items /\ New(s) /\ items'[s].base = items[s].base

LEMMA SteadyStirred ==
    ASSUME Base, Base', Kept, Integrity, CreditsWrite, ChunksStand, Steady
    PROVE  Stirred
  <1>1. ASSUME NEW s \in DOMAIN items', New(s)'
        PROVE  s \in DOMAIN items /\ New(s) /\ items'[s].base = items[s].base
    <2>1. s \in DOMAIN items /\ items'[s].base = items[s].base
      BY DEF Steady
    <2>2. ~Wrote(s)
      BY <1>1, WroteOn DEF New
    <2>3. OfSubtask(s)' = OfSubtask(s) /\ \A r \in OfSubtask(s) : r \in DOMAIN requests /\ requests[r].sub = s
      BY SameScopes DEF Kept, Steady, OfSubtask
    <2>4. items'[s].pipe \in Going \/ \E r \in OfSubtask(s) : requests'[r].status = "open"
      BY <1>1, <2>3 DEF New, Busy
    <2>5. ASSUME NEW r \in OfSubtask(s), requests[r].status \in {"open", "passed"} \/ requests[r].integrated # 0
          PROVE  Busy(s)
      <3>1. requests[r].integrated = 0
        BY <2>2, <2>3 DEF CreditsWrite, Credited
      <3>2. CASE requests[r].status = "open"
        BY <3>2 DEF Busy
      <3>3. CASE requests[r].status = "passed"
        <4>1. requests[r].phase # "acceptance" /\ requests[r].phase \in {"chunk", "acceptance"}
          <5>1. requests[r] \in Asked
            BY <2>3 DEF Base, RequestsFit
          <5>2. requests[r].phase \in {"chunk", "acceptance"}
            BY <5>1 DEF Asked
          <5> QED
            BY <2>3, <3>1, <3>3, <5>2 DEF Integrity, PassesFolded
        <4>2. items[s].pipe \in Going
          BY <2>1, <2>2, <3>3, <4>1 DEF ChunksStand
        <4> QED
          BY <4>2 DEF Busy
      <3> QED
        BY <2>5, <3>1, <3>2, <3>3
    <2>6. CASE \E r \in OfSubtask(s) : requests'[r].status = "open"
      BY <2>1, <2>2, <2>3, <2>5, <2>6 DEF Steady, New
    <2>7. CASE items'[s].pipe \in Going
      <3>1. \/ items[s].pipe \in Going
            \/ \E r \in OfSubtask(s) : requests[r].status \in {"open", "passed"} \/ requests[r].integrated # 0
        BY <2>1, <2>7 DEF Steady
      <3> QED
        BY <2>1, <2>2, <2>5, <3>1 DEF New, Busy
    <2> QED
      BY <2>1, <2>2, <2>4, <2>5, <2>6, <2>7 DEF New
  <1> QED
    BY <1>1 DEF Stirred

LEMMA SteadyChunks ==
    ASSUME Base, Base', Kept, CreditsWrite, CreditsWrite', ChunksStand, Steady
    PROVE  ChunksStand'
  <1>1. ASSUME NEW s \in DOMAIN items', NEW r \in OfSubtask(s)', requests'[r].phase = "chunk"
        PROVE  /\ items'[s].chunk # "none"
               /\ requests'[r].status = "passed" => Wrote(s)' \/ items'[s].pipe \in Going
    <2>1. s \in DOMAIN items
      BY DEF Steady
    <2>2. OfSubtask(s)' = OfSubtask(s) /\ \A q \in OfSubtask(s) : q \in DOMAIN requests /\ requests[q].sub = s
      BY SameScopes DEF Kept, Steady, OfSubtask
    <2>3. r \in OfSubtask(s) /\ r \in DOMAIN requests /\ requests[r].sub = s
      BY <1>1, <2>2
    <2>4. requests[r].phase = "chunk"
      BY <1>1, <2>3 DEF Kept, RequestsKept, Base, RequestsFit
    <2>5. /\ items[s].chunk # "none"
          /\ requests[r].status = "passed" => Wrote(s) \/ items[s].pipe \in Going
      BY <2>1, <2>3, <2>4 DEF ChunksStand
    <2>6. items'[s].chunk # "none"
      BY <2>1, <2>5 DEF Steady
    <2>7. ASSUME requests'[r].status = "passed"
          PROVE  Wrote(s)' \/ items'[s].pipe \in Going
      <3>1. \/ requests[r].status = "passed" \/ requests[r].integrated # 0
            \/ items'[requests[r].sub].pipe \in Going
        BY <2>3, <2>4, <2>7 DEF Steady
      <3>2. requests[r].integrated # 0 => Wrote(s)
        BY <2>3 DEF CreditsWrite, Credited
      <3>3. CASE Wrote(s)
        BY <3>3, WroteOn
      <3>4. CASE items[s].pipe \in Going
        <4>1. \/ items'[s].pipe \in Going
              \/ \E q \in OfSubtask(s) : requests'[q].integrated # 0
          BY <2>1, <2>5, <3>4 DEF Steady
        <4>2. ASSUME NEW q \in OfSubtask(s), requests'[q].integrated # 0
              PROVE  Wrote(s)'
          <5>1. q \in DOMAIN requests' /\ requests'[q].sub = s
            BY <2>2, <4>2 DEF OfSubtask
          <5>2. Credited(q)'
            BY <4>2 DEF Credited
          <5> QED
            BY <5>1, <5>2 DEF CreditsWrite
        <4> QED
          BY <4>1, <4>2
      <3> QED
        BY <2>3, <2>5, <3>1, <3>2, <3>3, <3>4
    <2> QED
      BY <2>6, <2>7
  <1> QED
    BY <1>1 DEF ChunksStand

\* No request is made, none changes its status, and no work stops.
LEMMA CalmChunks ==
    ASSUME Base, Base', Kept, ChunksStand, DOMAIN requests' = DOMAIN requests,
           \A r \in DOMAIN requests : requests'[r].status = requests[r].status,
           \A s \in DOMAIN items : /\ items'[s].chunk = items[s].chunk
                                   /\ items[s].pipe \in Going => items'[s].pipe \in Going
    PROVE  ChunksStand'
  <1>1. ASSUME NEW s \in DOMAIN items', NEW r \in OfSubtask(s)', requests'[r].phase = "chunk"
        PROVE  /\ items'[s].chunk # "none"
               /\ requests'[r].status = "passed" => Wrote(s)' \/ items'[s].pipe \in Going
    <2>1. OfSubtask(s)' = OfSubtask(s)
      BY SameScopes DEF Kept
    <2>2. r \in OfSubtask(s) /\ r \in DOMAIN requests /\ requests[r].sub = s
      BY <2>1 DEF OfSubtask
    <2>3. s \in DOMAIN items /\ requests[r].phase = "chunk"
      BY <1>1, <2>2 DEF Kept, RequestsKept, Base, RequestsFit
    <2>4. /\ items[s].chunk # "none"
          /\ requests[r].status = "passed" => Wrote(s) \/ items[s].pipe \in Going
      BY <2>2, <2>3 DEF ChunksStand
    <2> QED
      BY <2>2, <2>3, <2>4, WroteOn
  <1> QED
    BY <1>1 DEF ChunksStand

\* A subtask is new afterwards when it is at work, or under review, as before.
LEMMA StirredOn ==
    ASSUME Base, Base', Kept, hist' = hist,
           \A s \in DOMAIN items' : Busy(s)' =>
              s \in DOMAIN items /\ Busy(s) /\ items'[s].base = items[s].base
    PROVE  Stirred
  BY WroteOn DEF Stirred, New

LEMMA ApartOn ==
    ASSUME Base, Kept, Stirred, Apart
    PROVE  Apart'
  <1>1. \A s \in DOMAIN items : items'[s].owned = items[s].owned
    BY DEF Kept, ItemsKept
  <1> QED
    BY <1>1 DEF Stirred, Apart

LEMMA UntouchedOn ==
    ASSUME Base, Kept, Stirred, Untouched, hist' = hist
    PROVE  Untouched'
  <1>1. ASSUME NEW s \in DOMAIN items', New(s)', NEW p \in items'[s].owned
        PROVE  hist'[Len(hist')][p] = hist'[items'[s].base][p]
    <2>1. s \in DOMAIN items /\ New(s) /\ items'[s].base = items[s].base
      BY <1>1 DEF Stirred
    <2>2. items'[s].owned = items[s].owned
      BY <2>1 DEF Kept, ItemsKept
    <2>3. hist[Len(hist)][p] = hist[items[s].base][p]
      BY <1>1, <2>1, <2>2 DEF Untouched
    <2> QED
      BY <2>1, <2>3
  <1> QED
    BY <1>1 DEF Untouched

LEMMA DeclareActivity ==
    ASSUME Base, Activity, NEW batch \in SUBSET (Subtasks \ DOMAIN items),
           NEW deps \in [batch -> SUBSET (batch \cup DOMAIN items)], NEW owned \in [batch -> Scopes],
           Declare(batch, deps, owned)
    PROVE  Activity'
  <1>1. Base' /\ Kept
    BY DeclareFits
  <1>2. /\ hist' = hist /\ DOMAIN requests' = DOMAIN requests
        /\ \A r \in DOMAIN requests : requests'[r].status = requests[r].status
        /\ DOMAIN items' = batch \cup DOMAIN items
        /\ \A s \in DOMAIN items : items'[s] = items[s]
        /\ \A s \in batch : items'[s].pipe = "pending"
    BY DeclareEffects
  <1>3. ASSUME NEW s \in DOMAIN items', Busy(s)'
        PROVE  s \in DOMAIN items /\ Busy(s) /\ items'[s].base = items[s].base
    <2>1. OfSubtask(s)' = OfSubtask(s)
      BY <1>1, <1>2, SameScopes DEF Kept
    <2>2. \A r \in OfSubtask(s) : r \in DOMAIN requests /\ s \in DOMAIN items
      BY DEF OfSubtask, Base, RequestsFit
    <2>3. CASE s \in DOMAIN items
      BY <1>2, <1>3, <2>1, <2>2, <2>3 DEF Busy
    <2>4. CASE s \notin DOMAIN items
      BY <1>2, <1>3, <2>1, <2>2, <2>4 DEF Busy, Going
    <2> QED
      BY <2>3, <2>4
  <1>4. Stirred
    BY <1>1, <1>2, <1>3, StirredOn
  <1>5. Apart' /\ Untouched'
    BY <1>1, <1>2, <1>4, ApartOn, UntouchedOn DEF Activity
  <1>6. ChunksStand'
    BY <1>1, <1>2, CalmChunks DEF Activity
  <1> QED
    BY <1>5, <1>6 DEF Activity

\* A branch moved or written, and the board as it was.
LEMMA BranchActivity ==
    ASSUME Base, Base', Kept, Activity, hist' = hist, requests' = requests, items' = items
    PROVE  Activity'
  <1>1. \A s : OfSubtask(s)' = OfSubtask(s)
    BY DEF OfSubtask
  <1>2. \A s : Busy(s)' <=> Busy(s)
    BY <1>1 DEF Busy
  <1>3. Stirred
    BY <1>2, StirredOn
  <1>4. Apart' /\ Untouched'
    BY <1>3, ApartOn, UntouchedOn DEF Activity
  <1>5. ChunksStand'
    BY CalmChunks DEF Activity
  <1> QED
    BY <1>4, <1>5 DEF Activity

\* A start compares the paths of the subtask with those of all that are active.
LEMMA StartActivity ==
    ASSUME Base, Integrity, CreditsWrite, Activity, NEW s \in DOMAIN items, Start(s)
    PROVE  Activity'
  <1>1. Base' /\ Kept
    BY StartFits
  <1>2. /\ hist' = hist /\ requests' = requests /\ Free(s) /\ DOMAIN items' = DOMAIN items
        /\ items'[s].pipe = "in_progress" /\ items'[s].base = Len(hist)
        /\ items'[s].chunk = items[s].chunk
        /\ \A t \in DOMAIN items \ {s} : items'[t] = items[t]
    BY StartEffects
  <1>3. \A t : OfSubtask(t)' = OfSubtask(t)
    BY <1>2 DEF OfSubtask
  <1>4. \A t \in DOMAIN items : items'[t].owned = items[t].owned
    BY <1>1 DEF Kept, ItemsKept
  <1>5. ASSUME NEW t \in DOMAIN items, t # s, New(t)'
        PROVE  /\ New(t) /\ items[t].owned \cap items[s].owned = {}
    <2>1. New(t)
      BY <1>1, <1>2, <1>3, <1>5, WroteOn DEF New, Busy
    <2>2. items[t].status # "passed"
      <3>1. ASSUME NEW r \in OfSubtask(t) PROVE requests[r].integrated = 0
        BY <2>1 DEF New, CreditsWrite, Credited, OfSubtask
      <3> QED
        BY <3>1 DEF Integrity, PassedReviewed, PassesFolded, Passed, OfSubtask
    <2>3. Active(t)
      BY <2>1, <2>2 DEF Active, Effective, New, Busy, Going, Open
    <2>4. ~Overlaps(s, t)
      BY <1>2, <1>5, <2>3 DEF Free
    <2> QED
      BY <2>1, <2>4 DEF Overlaps
  <1>6. Apart'
    BY <1>2, <1>4, <1>5 DEF Apart, Activity
  <1>7. ASSUME NEW t \in DOMAIN items', New(t)', NEW p \in items'[t].owned
        PROVE  hist'[Len(hist')][p] = hist'[items'[t].base][p]
    <2>1. CASE t = s
      BY <1>2, <2>1
    <2>2. CASE t # s
      BY <1>2, <1>4, <1>5, <1>7, <2>2 DEF Untouched, Activity
    <2> QED
      BY <2>1, <2>2
  <1>8. Untouched'
    BY <1>7 DEF Untouched
  <1>9. ChunksStand'
    <2>1. \A t \in DOMAIN items : /\ items'[t].chunk = items[t].chunk
                                  /\ items[t].pipe \in Going => items'[t].pipe \in Going
      BY <1>2 DEF Going
    <2> QED
      BY <1>1, <1>2, <2>1, CalmChunks DEF Activity
  <1> QED
    BY <1>6, <1>8, <1>9 DEF Activity

LEMMA RequestReviewActivity ==
    ASSUME Base, Activity, NEW s \in DOMAIN items, NEW phase \in {"chunk", "acceptance"},
           RequestReview(s, phase)
    PROVE  Activity'
  <1>0. PICK n : n = Len(requests) + 1
    OBVIOUS
  <1>1. Base' /\ Kept
    BY RequestReviewFits
  <1>chunk. phase = "chunk" => items[s].chunk = "open"
    BY RequestReviewEffects
  <1>2. /\ hist' = hist /\ items[s].pipe = "in_progress"
        /\ DOMAIN items' = DOMAIN items
        /\ items'[s].pipe = "in_review" /\ items'[s].base = items[s].base
        /\ items'[s].chunk = items[s].chunk
        /\ \A t \in DOMAIN items \ {s} : items'[t] = items[t]
        /\ DOMAIN requests' = DOMAIN requests \cup {n} /\ n \notin DOMAIN requests
        /\ \A r \in DOMAIN requests : requests'[r] = requests[r]
        /\ requests'[n] = [sub |-> s, phase |-> phase, tree |-> branch[s], base |-> items[s].base,
                           current |-> TRUE, integrated |-> 0, status |-> "open"]
    BY <1>0, RequestReviewEffects DEF git
  <1>3. requests'[n].sub = s /\ requests'[n].phase = phase /\ requests'[n].status = "open"
    BY <1>2
  <1>4. hist' = hist /\ Busy(s)
    BY <1>2 DEF Busy, Going
  <1>5. ASSUME NEW t \in DOMAIN items', NEW r \in OfSubtask(t)'
        PROVE  \/ r = n /\ t = s
               \/ r \in OfSubtask(t) /\ requests'[r] = requests[r]
    BY <1>2, <1>3, <1>5 DEF OfSubtask
  <1>6. ASSUME NEW t \in DOMAIN items', Busy(t)'
        PROVE  t \in DOMAIN items /\ Busy(t) /\ items'[t].base = items[t].base
    <2>1. CASE t = s
      BY <1>2, <1>4, <2>1
    <2>2. CASE t # s
      BY <1>2, <1>5, <1>6, <2>2 DEF Busy
    <2> QED
      BY <2>1, <2>2
  <1>7. Stirred
    BY <1>1, <1>4, <1>6, StirredOn
  <1>8. Apart' /\ Untouched'
    BY <1>1, <1>4, <1>7, ApartOn, UntouchedOn DEF Activity
  <1>9. ASSUME NEW t \in DOMAIN items', NEW r \in OfSubtask(t)', requests'[r].phase = "chunk"
        PROVE  /\ items'[t].chunk # "none"
               /\ requests'[r].status = "passed" => Wrote(t)' \/ items'[t].pipe \in Going
    <2>1. CASE r = n /\ t = s
      BY <1>2, <1>3, <1>9, <1>chunk, <2>1
    <2>2. CASE r \in OfSubtask(t) /\ requests'[r] = requests[r]
      <3>1. /\ items[t].chunk # "none"
            /\ requests[r].status = "passed" => Wrote(t) \/ items[t].pipe \in Going
        BY <1>2, <1>9, <2>2 DEF Activity, ChunksStand
      <3>2. Wrote(t) => Wrote(t)'
        BY <1>1, WroteOn
      <3> QED
        BY <1>2, <2>2, <3>1, <3>2 DEF Going
    <2> QED
      BY <1>5, <2>1, <2>2
  <1>10. ChunksStand'
    BY <1>9 DEF ChunksStand
  <1> QED
    BY <1>8, <1>10 DEF Activity

\* A fold writes paths of its subtask alone, which has then written: the
\* others that are new see what they began from.
LEMMA FoldUntouched ==
    ASSUME Base, Base', Kept, Rooted, Lineage, Stirred, Apart, Untouched,
           NEW r \in DOMAIN requests, requests[r].status = "open", Applies(r),
           hist' = Append(hist, FoldedTree(r))
    PROVE  Untouched'
  <1>0. PICK s : s = requests[r].sub
    OBVIOUS
  <1> DEFINE m == Len(hist) + 1
  <1>1. /\ Len(hist') = m /\ Len(hist) \in Nat
        /\ \A n \in 1..Len(hist) : hist'[n] = hist[n]
        /\ \A p \in Paths : hist'[m][p] =
              IF p \in Manifest(r) THEN requests[r].tree[p] ELSE hist[Len(hist)][p]
    BY FoldedHead
  <1>2. s \in DOMAIN items /\ r \in OfSubtask(s)
    BY <1>0 DEF Base, RequestsFit, OfSubtask
  <1>3. /\ Manifest(r) # {}
        /\ \A p \in Manifest(r) : requests[r].tree[p][1] = s /\ p \in items[s].owned
    BY <1>2 DEF Rooted, ReviewsRooted
  <1>4. New(s)
    <2>1. Busy(s)
      BY <1>2 DEF Busy
    <2>2. ~Wrote(s)
      BY <1>0, FoldFirst
    <2> QED
      BY <2>1, <2>2 DEF New
  <1>5. Manifest(r) \subseteq Paths
    BY DEF Manifest
  <1>6. Wrote(s)'
    <2>1. PICK p \in Manifest(r) : TRUE
      BY <1>3
    <2>2. hist'[m][p][1] = s /\ p \in Paths /\ m \in 1..Len(hist')
      BY <1>1, <1>3, <1>5, <2>1
    <2> QED
      BY <2>2 DEF Wrote, Writes
  <1> HIDE DEF m
  <1>7. ASSUME NEW t \in DOMAIN items', New(t)', NEW p \in items'[t].owned
        PROVE  hist'[Len(hist')][p] = hist'[items'[t].base][p]
    <2>1. t \in DOMAIN items /\ New(t) /\ items'[t].base = items[t].base
      BY <1>7 DEF Stirred
    <2>2. /\ items'[t].owned = items[t].owned /\ p \in Paths /\ items[t].base \in 1..Len(hist)
      <3>1. items'[t].owned = items[t].owned
        BY <2>1 DEF Kept, ItemsKept
      <3>2. items[t].owned \in Scopes /\ items[t].base \in 1..Len(hist)
        BY <2>1 DEF Base, ItemsFit, Item
      <3> QED
        BY <1>7, <3>1, <3>2, SubtaskAssumption
    <2>3. t # s
      BY <1>6, <1>7 DEF New
    <2>4. items[s].owned \cap items[t].owned = {}
      BY <1>2, <1>4, <2>1, <2>3 DEF Apart
    <2>5. p \notin Manifest(r)
      BY <1>3, <1>7, <2>2, <2>4
    <2>6. hist'[m][p] = hist[Len(hist)][p]
      BY <1>1, <2>2, <2>5
    <2>7. hist[Len(hist)][p] = hist[items[t].base][p]
      BY <1>7, <2>1, <2>2 DEF Untouched
    <2> QED
      BY <1>1, <2>1, <2>2, <2>6, <2>7
  <1> QED
    BY <1>7 DEF Untouched

LEMMA ActivityStep ==
    ASSUME Base, Integrity, Rooted, Lineage, CreditsWrite, CreditsWrite', Activity, [Next]_vars
    PROVE  Activity'
  <1>1. Base' /\ Kept
    BY BaseStep
  <1>2. CASE Steady
    <2>1. Stirred /\ ChunksStand'
      BY <1>1, <1>2, SteadyStirred, SteadyChunks DEF Activity
    <2>2. Apart'
      BY <1>1, <2>1, ApartOn DEF Activity
    <2>3. Untouched'
      <3>1. CASE hist' = hist
        BY <1>1, <2>1, <3>1, UntouchedOn DEF Activity
      <3>2. CASE hist' # hist
        <4>1. PICK r \in DOMAIN requests :
                requests[r].status = "open" /\ Applies(r) /\ hist' = Append(hist, FoldedTree(r))
          BY <3>2, BranchMoves
        <4> QED
          BY <1>1, <2>1, <4>1, FoldUntouched DEF Activity
      <3> QED
        BY <3>1, <3>2
    <2> QED
      BY <2>1, <2>2, <2>3 DEF Activity
  <1>3. CASE \E batch \in SUBSET (Subtasks \ DOMAIN items) :
               \E deps \in [batch -> SUBSET (batch \cup DOMAIN items)], owned \in [batch -> Scopes] :
                  Declare(batch, deps, owned)
    BY <1>3, DeclareActivity
  <1>4. CASE \E s \in DOMAIN items : Start(s) \/ StartUndone(s)
    <2>1. ASSUME NEW s \in DOMAIN items, StartUndone(s)
          PROVE  Activity'
      BY <1>1, <2>1, StartUndoneEffects, BranchActivity
    <2> QED
      BY <1>4, <2>1, StartActivity
  <1>5. CASE \E s \in DOMAIN items : \E written \in SUBSET items[s].owned : Commit(s, written)
    BY <1>1, <1>5, CommitEffects, BranchActivity
  <1>6. CASE \E s \in DOMAIN items, phase \in {"chunk", "acceptance"} : RequestReview(s, phase)
    BY <1>6, RequestReviewActivity
  <1> QED
    BY <1>2, <1>3, <1>4, <1>5, <1>6, SteadyStep

LEMMA ActivityAlways == Spec => []Activity
  <1>1. Init => Activity
    BY DEF Init, Activity, ChunksStand, Apart, Untouched
  <1>2. /\ Base /\ Integrity /\ Rooted /\ Lineage /\ CreditsWrite /\ CreditsWrite'
        /\ Activity /\ [Next]_vars
        => Activity'
    BY ActivityStep
  <1> QED
    BY <1>1, <1>2, BaseAlways, IntegrityAlways, RootedAlways, LineageAlways, CreditsWriteAlways, PTL DEF Spec

\* A subtask of whose folds the journal says nothing has not written.
LEMMA FirstFold ==
    ASSUME Base, Rooted, Lineage, Activity
    PROVE  FirstFoldApplies
  <1>1. ASSUME NEW r \in DOMAIN requests, requests[r].status = "open",
               \A j \in DOMAIN journal : requests[journal[j].request].sub # requests[r].sub,
               NEW p \in Manifest(r)
        PROVE  hist[Len(hist)][p] = hist[requests[r].base][p]
    <2> DEFINE s == requests[r].sub
    <2>1. s \in DOMAIN items /\ s \in Subtasks /\ r \in OfSubtask(s)
      BY DEF Base, RequestsFit, ItemsFit, OfSubtask
    <2>2. requests[r].base = items[s].base /\ p \in items[s].owned
      BY <1>1, <2>1 DEF Rooted, ReviewsRooted
    <2>3. ~Wrote(s)
      BY <1>1, <2>1 DEF Lineage, AuthorsKnown, Wrote, Writes
    <2>4. New(s)
      BY <1>1, <2>1, <2>3 DEF New, Busy
    <2> HIDE DEF s
    <2> QED
      BY <2>1, <2>2, <2>4 DEF Activity, Untouched
  <1> QED
    BY <1>1 DEF FirstFoldApplies, Applies, Open, Tip

\* A subtask at work began from its dependencies' folds, and its first fold
\* meets the paths as they were (start_subtask, _overlapping_active_subtasks,
\* the worktree that is refreshed before it).
THEOREM FoldsMeetTheirBase == Spec => []BaseStands
  <1>1. Base /\ Rooted /\ Lineage /\ Activity => FirstFoldApplies
    BY FirstFold
  <1>2. DependenciesInBase /\ FirstFoldApplies => BaseStands
    BY DEF BaseStands
  <1> QED
    BY <1>1, <1>2, BaseAlways, RootedAlways, LineageAlways, ActivityAlways, DependenciesStay, PTL
=============================================================================
