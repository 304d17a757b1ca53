------------------------- MODULE InstructionsProofs -------------------------
(***************************************************************************)
(* Theorems about Instructions, for every conversation, number of messages *)
(* and number of disturbances.                                             *)
(***************************************************************************)
EXTENDS Instructions, TLAPS, WellFoundedInduction, SequenceTheorems, FiniteSetTheorems

(***************************************************************************)
(* Lemmas about sequences of items.  Ids says which messages a sequence    *)
(* holds, Lone that it holds one of them once at most.                     *)
(***************************************************************************)
Items == [id : Messages, retry : BOOLEAN]
Lone(items, m) == \A i, j \in DOMAIN items : items[i].id = m /\ items[j].id = m => i = j

\* A set of naturals that is not empty has a least element.
LEMMA LeastNatural ==
    ASSUME NEW T \in SUBSET Nat, T # {}
    PROVE  \E n \in T : \A k \in T : n <= k
<1> DEFINE R == OpToRel(<, Nat)
<1>1. PICK n \in T : \A k \in T : <<k, n>> \notin R
  BY NatLessThanWellFounded, WFMin
<1>2. \A k \in T : ~(k < n)
  BY <1>1 DEF OpToRel
<1> QED BY <1>2

Increasing(f) == \A i, j \in DOMAIN f : i < j => f[i] < f[j]

\* The positions of a finite sequence can be listed in their order.
LEMMA OrderExists ==
    ASSUME NEW n \in Nat, NEW S \in SUBSET (1..n)
    PROVE  IsFiniteSet(S) /\ \E f \in SetToSeqs(S) : Increasing(f)
<1> DEFINE Listed(T) == \E f \in SetToSeqs(T) : Increasing(f)
           Unlisted == {k \in Nat : \E T \in SUBSET (1..k) : ~Listed(T)}
<1>1. \A k \in Nat : \A T \in SUBSET (1..k) : IsFiniteSet(T) /\ Cardinality(T) \in Nat
  <2> SUFFICES ASSUME NEW k \in Nat, NEW T \in SUBSET (1..k)
               PROVE  IsFiniteSet(T) /\ Cardinality(T) \in Nat
    OBVIOUS
  <2>1. IsFiniteSet(1..k)
    BY FS_Interval
  <2> QED BY <2>1, FS_Subset, FS_CardinalityType
<1>2. Unlisted = {}
  <2> SUFFICES ASSUME Unlisted # {} PROVE FALSE
    OBVIOUS
  <2>1. PICK k \in Unlisted : \A j \in Unlisted : k <= j
    <3>1. Unlisted \in SUBSET Nat
      OBVIOUS
    <3> QED BY <3>1, LeastNatural
  <2>2. PICK T \in SUBSET (1..k) : ~Listed(T)
    BY <2>1
  <2>3. CASE k = 0
    <3>1. T = {} /\ Cardinality(T) = 0
      <4>1. T = {}
        BY <2>3
      <4> QED BY <4>1, FS_EmptySet
    <3> DEFINE f == [i \in {} |-> i]
    <3>2. f \in SetToSeqs(T)
      <4>1. 1..Cardinality(T) = {}
        BY <3>1
      <4>2. f \in [{} -> T]
        OBVIOUS
      <4> QED BY <4>1, <4>2 DEF SetToSeqs
    <3>3. Increasing(f)
      BY DEF Increasing
    <3> QED BY <2>2, <3>2, <3>3
  <2>4. CASE k # 0
    <3> DEFINE U == T \ {k}
               c == Cardinality(U)
    <3>1. k - 1 \in Nat /\ k - 1 \notin Unlisted /\ U \in SUBSET (1..(k - 1))
      BY <2>1, <2>4
    <3>2. PICK g \in SetToSeqs(U) : Increasing(g)
      BY <3>1
    <3>3. k \in T
      BY <2>2, <3>1
    <3>4. c \in Nat /\ IsFiniteSet(U)
      BY <1>1, <3>1
    <3>5. Cardinality(T) = c + 1
      <4>1. T = U \cup {k} /\ k \notin U
        BY <3>3
      <4> HIDE DEF U
      <4> QED BY <3>4, <4>1, FS_AddElement
    <3>6. /\ g \in [1..c -> U]
          /\ \A i, j \in 1..c : i # j => g[i] # g[j]
      BY <3>2 DEF SetToSeqs
    <3> HIDE DEF c
    <3> DEFINE f == [i \in 1..(c + 1) |-> IF i = c + 1 THEN k ELSE g[i]]
    <3>7. \A i \in 1..c : g[i] \in T /\ g[i] \in Nat /\ g[i] < k
      <4>1. \A i \in 1..c : g[i] \in U
        BY <3>6
      <4>2. \A u \in U : u \in T /\ u \in Nat /\ u < k
        BY <3>1, <2>1
      <4> QED BY <4>1, <4>2
    <3>8. f \in SetToSeqs(T)
      <4>1. f \in [1..(c + 1) -> T]
        BY <3>3, <3>4, <3>7
      <4>2. ASSUME NEW i \in 1..(c + 1), NEW j \in 1..(c + 1), i # j PROVE f[i] # f[j]
        <5>1. i # c + 1 => i \in 1..c /\ f[i] = g[i]
          BY <3>4
        <5>2. j # c + 1 => j \in 1..c /\ f[j] = g[j]
          BY <3>4
        <5>3. \A h \in 1..c : g[h] # k
          BY <3>7, <2>1
        <5> QED BY <4>2, <5>1, <5>2, <5>3, <3>6
      <4> HIDE DEF f
      <4> QED BY <3>5, <4>1, <4>2 DEF SetToSeqs
    <3>9. Increasing(f)
      <4>1. \A i, j \in 1..c : i < j => g[i] < g[j]
        BY <3>2, <3>6 DEF Increasing
      <4>2. \A i, j \in 1..(c + 1) : i < j => i \in 1..c /\ (j \in 1..c \/ j = c + 1)
        BY <3>4
      <4> QED BY <3>4, <3>7, <4>1, <4>2 DEF Increasing
    <3> QED BY <2>2, <3>8, <3>9
  <2> QED BY <2>3, <2>4
<1> QED BY <1>1, <1>2

LEMMA AscendingList ==
    ASSUME NEW n \in Nat, NEW S \in SUBSET (1..n)
    PROVE  /\ Cardinality(S) \in Nat
           /\ Ascending(S) \in [1..Cardinality(S) -> S]
           /\ \A k \in S : \E i \in DOMAIN Ascending(S) : Ascending(S)[i] = k
           /\ \A i, j \in DOMAIN Ascending(S) : Ascending(S)[i] = Ascending(S)[j] => i = j
<1>1. IsFiniteSet(S) /\ Cardinality(S) \in Nat
  BY OrderExists, FS_CardinalityType
<1>2. Ascending(S) \in SetToSeqs(S)
  <2>1. \E f \in SetToSeqs(S) : \A i, j \in DOMAIN f : i < j => f[i] < f[j]
    BY OrderExists DEF Increasing
  <2> QED BY <2>1 DEF Ascending
<1>3. Ascending(S) \in Injection(1..Cardinality(S), S)
  BY <1>2 DEF SetToSeqs, Injection, IsInjective
<1>4. Cardinality(1..Cardinality(S)) = Cardinality(S)
  BY <1>1, FS_Interval
<1>5. Ascending(S) \in Surjection(1..Cardinality(S), S)
  BY <1>1, <1>3, <1>4, FS_Injection
<1> QED BY <1>1, <1>3, <1>5 DEF Injection, Surjection, IsInjective

\* What a sequence of items holds.
LEMMA Holding ==
    ASSUME NEW q \in Seq(Items)
    PROVE  /\ Len(q) \in Nat /\ DOMAIN q = 1..Len(q)
           /\ Range(q) \subseteq Items /\ Ids(q) \subseteq Messages
           /\ \A i \in DOMAIN q : q[i] \in Range(q) /\ q[i] \in Items /\ q[i].id \in Ids(q)
           /\ \A m \in Ids(q) : \E x \in Range(q) : x.id = m
           /\ \A x \in Range(q) : x.id \in Ids(q)
<1>1. Len(q) \in Nat /\ DOMAIN q = 1..Len(q) /\ \A i \in DOMAIN q : q[i] \in Items
  BY LenProperties, ElementOfSeq
<1>2. \A x \in Items : x.id \in Messages
  BY DEF Items
<1> QED BY <1>1, <1>2 DEF Range, Ids

LEMMA NoItems ==
    /\ <<>> \in Seq(Items) /\ Ids(<<>>) = {} /\ Range(<<>>) = {} /\ DOMAIN <<>> = {}
    /\ \A m : Lone(<<>>, m)
<1>1. <<>> \in Seq(Items) /\ Len(<<>>) = 0
  BY EmptySeq
<1>2. DOMAIN <<>> = {}
  BY <1>1, LenProperties
<1> QED BY <1>1, <1>2 DEF Ids, Range, Lone

LEMMA ItemIsItem ==
    ASSUME NEW m \in Messages, NEW b \in BOOLEAN
    PROVE  Item(m, b) \in Items /\ Item(m, b).id = m /\ Item(m, b).retry = b
BY DEF Item, Items

\* One more item at the end.
LEMMA Appended ==
    ASSUME NEW q \in Seq(Items), NEW x \in Items
    PROVE  /\ Append(q, x) \in Seq(Items)
           /\ Range(Append(q, x)) = Range(q) \cup {x}
           /\ Ids(Append(q, x)) = Ids(q) \cup {x.id}
           /\ \A m : Lone(q, m) /\ (x.id = m => m \notin Ids(q)) => Lone(Append(q, x), m)
<1> DEFINE r == Append(q, x)
           n == Len(q)
<1>1. /\ r \in Seq(Items) /\ Len(r) = n + 1 /\ r[n + 1] = x
      /\ \A i \in 1..n : r[i] = q[i]
  BY AppendProperties
<1>2. n \in Nat /\ DOMAIN q = 1..n /\ DOMAIN r = 1..(n + 1)
  BY <1>1, LenProperties
<1>3. \A i \in 1..(n + 1) : i \in 1..n \/ i = n + 1
  BY <1>2
<1>4. n + 1 \in 1..(n + 1) /\ \A i \in 1..n : i \in 1..(n + 1)
  BY <1>2
<1> HIDE DEF r, n
<1>5. Range(r) = Range(q) \cup {x}
  BY <1>1, <1>2, <1>3, <1>4 DEF Range
<1>6. Ids(r) = Ids(q) \cup {x.id}
  BY <1>1, <1>2, <1>3, <1>4 DEF Ids
<1>7. ASSUME NEW m, Lone(q, m), x.id = m => m \notin Ids(q) PROVE Lone(r, m)
  <2>1. \A i, j \in 1..n : q[i].id = m /\ q[j].id = m => i = j
    BY <1>2, <1>7 DEF Lone
  <2>2. x.id = m => \A i \in 1..n : q[i].id # m
    BY <1>2, <1>7 DEF Ids
  <2> QED BY <1>1, <1>2, <1>3, <2>1, <2>2 DEF Lone
<1> QED BY <1>1, <1>5, <1>6, <1>7 DEF r

\* Two sequences, one after the other.
LEMMA Joined ==
    ASSUME NEW q \in Seq(Items), NEW r \in Seq(Items)
    PROVE  /\ q \o r \in Seq(Items)
           /\ Range(q \o r) = Range(q) \cup Range(r)
           /\ Ids(q \o r) = Ids(q) \cup Ids(r)
           /\ \A m : Lone(q, m) /\ Lone(r, m) /\ ~(m \in Ids(q) /\ m \in Ids(r)) => Lone(q \o r, m)
<1> DEFINE p == q \o r
           a == Len(q)
           b == Len(r)
<1>1. /\ p \in Seq(Items) /\ Len(p) = a + b
      /\ \A i \in 1..(a + b) : p[i] = IF i <= a THEN q[i] ELSE r[i - a]
  BY ConcatProperties
<1>2. a \in Nat /\ b \in Nat /\ DOMAIN q = 1..a /\ DOMAIN r = 1..b /\ DOMAIN p = 1..(a + b)
  BY <1>1, LenProperties
<1>3. \A i \in 1..(a + b) : (i \in 1..a /\ p[i] = q[i]) \/ (~(i <= a) /\ i - a \in 1..b /\ p[i] = r[i - a])
  BY <1>1, <1>2
<1>4. /\ \A i \in 1..a : i \in 1..(a + b) /\ p[i] = q[i]
      /\ \A j \in 1..b : a + j \in 1..(a + b) /\ p[a + j] = r[j]
  BY <1>1, <1>2
<1>5. Range(p) = Range(q) \cup Range(r)
  BY RangeConcatenation
<1> HIDE DEF p, a, b
<1>6. Ids(p) = Ids(q) \cup Ids(r)
  <2>1. Ids(p) \subseteq Ids(q) \cup Ids(r)
    BY <1>2, <1>3 DEF Ids
  <2>2. Ids(q) \subseteq Ids(p) /\ Ids(r) \subseteq Ids(p)
    BY <1>2, <1>4 DEF Ids
  <2> QED BY <2>1, <2>2
<1>7. ASSUME NEW m, Lone(q, m), Lone(r, m), ~(m \in Ids(q) /\ m \in Ids(r)) PROVE Lone(p, m)
  <2>1. \A i, j \in 1..a : q[i].id = m /\ q[j].id = m => i = j
    BY <1>2, <1>7 DEF Lone
  <2>2. \A i, j \in 1..b : r[i].id = m /\ r[j].id = m => i = j
    BY <1>2, <1>7 DEF Lone
  <2>3. \A i \in 1..a : \A j \in 1..b : ~(q[i].id = m /\ r[j].id = m)
    BY <1>2, <1>7 DEF Ids
  <2> SUFFICES ASSUME NEW i \in 1..(a + b), NEW j \in 1..(a + b), p[i].id = m, p[j].id = m
               PROVE  i = j
    BY <1>2 DEF Lone
  <2>4. i - a = j - a => i = j
    BY <1>2
  <2> QED BY <1>3, <2>1, <2>2, <2>3, <2>4
<1> QED BY <1>1, <1>5, <1>6, <1>7 DEF p

\* The first item, and the rest.
LEMMA HeadAndTail ==
    ASSUME NEW q \in Seq(Items), q # <<>>
    PROVE  /\ Tail(q) \in Seq(Items) /\ Head(q) \in Items /\ Head(q) \in Range(q)
           /\ Range(q) = {Head(q)} \cup Range(Tail(q))
           /\ Ids(q) = {Head(q).id} \cup Ids(Tail(q))
           /\ \A m : Lone(q, m) => Lone(Tail(q), m) /\ (Head(q).id = m => m \notin Ids(Tail(q)))
<1> DEFINE t == Tail(q)
           n == Len(q)
<1>1. /\ t \in Seq(Items) /\ Len(t) = n - 1 /\ Head(q) \in Items /\ Head(q) = q[1]
      /\ \A i \in 1..Len(t) : t[i] = q[i + 1]
  <2>1. Head(q) = q[1]
    OBVIOUS
  <2> QED BY <2>1, HeadTailProperties
<1>2. n \in Nat \ {0} /\ DOMAIN q = 1..n /\ DOMAIN t = 1..(n - 1)
  BY <1>1, LenProperties, EmptySeq
<1>3. /\ \A i \in 1..n : i = 1 \/ (i - 1 \in 1..(n - 1) /\ q[i] = t[i - 1])
      /\ \A i \in 1..(n - 1) : i + 1 \in 1..n /\ t[i] = q[i + 1] /\ i + 1 # 1
      /\ 1 \in 1..n
      /\ \A i, j \in 1..(n - 1) : i + 1 = j + 1 => i = j
  BY <1>1, <1>2
<1> HIDE DEF t, n
<1>4. Range(q) = {Head(q)} \cup Range(t)
  <2>1. Range(q) = {q[i] : i \in 1..n} /\ Range(t) = {t[i] : i \in 1..(n - 1)}
    BY <1>2 DEF Range
  <2>2. \A i \in 1..n : q[i] \in {Head(q)} \cup {t[j] : j \in 1..(n - 1)}
    BY <1>1, <1>3
  <2>3. \A i \in 1..(n - 1) : t[i] \in {q[j] : j \in 1..n}
    BY <1>3
  <2>4. Head(q) \in {q[j] : j \in 1..n}
    BY <1>1, <1>3
  <2> QED BY <2>1, <2>2, <2>3, <2>4
<1>5. Ids(q) = {Head(q).id} \cup Ids(t)
  <2>1. Ids(q) = {x.id : x \in Range(q)} /\ Ids(t) = {x.id : x \in Range(t)}
    BY DEF Ids, Range
  <2> QED BY <1>4, <2>1
<1>6. ASSUME NEW m, Lone(q, m) PROVE Lone(t, m) /\ (Head(q).id = m => m \notin Ids(t))
  <2>1. \A i, j \in 1..n : q[i].id = m /\ q[j].id = m => i = j
    BY <1>2, <1>6 DEF Lone
  <2>2. Lone(t, m)
    BY <1>2, <1>3, <2>1 DEF Lone
  <2>3. Head(q).id = m => \A i \in 1..(n - 1) : t[i].id # m
    BY <1>1, <1>3, <2>1
  <2> QED BY <1>2, <2>2, <2>3 DEF Ids
<1> QED BY <1>1, <1>4, <1>5, <1>6 DEF t

\* The items at some positions.
LEMMA SubsequenceOf ==
    ASSUME NEW T, NEW q \in Seq(T), NEW S \in SUBSET (DOMAIN q)
    PROVE  /\ Subsequence(q, S) \in Seq(T)
           /\ Range(Subsequence(q, S)) = {q[i] : i \in S}
           /\ \A i, j \in DOMAIN Subsequence(q, S) :
                \E g, h \in S :
                  Subsequence(q, S)[i] = q[g] /\ Subsequence(q, S)[j] = q[h] /\ (g = h => i = j)
<1> DEFINE a == Ascending(S)
           n == Cardinality(S)
<1>1. Len(q) \in Nat /\ DOMAIN q = 1..Len(q) /\ \A i \in DOMAIN q : q[i] \in T
  BY LenProperties, ElementOfSeq
<1>2. /\ n \in Nat /\ a \in [1..n -> S]
      /\ \A k \in S : \E i \in DOMAIN a : a[i] = k
      /\ \A i, j \in DOMAIN a : a[i] = a[j] => i = j
  BY <1>1, AscendingList
<1> HIDE DEF a, n
<1>3. Subsequence(q, S) = [i \in 1..n |-> q[a[i]]]
  BY <1>2 DEF Subsequence, a
<1>4. [i \in 1..n |-> q[a[i]]] \in Seq(T)
  <2>1. [i \in 1..n |-> q[a[i]]] \in [1..n -> T]
    BY <1>1, <1>2
  <2> QED BY <1>2, <2>1
<1>5. Range(Subsequence(q, S)) = {q[i] : i \in S}
  <2>1. Range(Subsequence(q, S)) = {q[a[i]] : i \in 1..n}
    BY <1>3 DEF Range
  <2>2. {q[a[i]] : i \in 1..n} = {q[i] : i \in S}
    BY <1>2
  <2> QED BY <2>1, <2>2
<1>6. ASSUME NEW i \in DOMAIN Subsequence(q, S), NEW j \in DOMAIN Subsequence(q, S)
      PROVE  \E g, h \in S :
                  Subsequence(q, S)[i] = q[g] /\ Subsequence(q, S)[j] = q[h] /\ (g = h => i = j)
  <2>1. i \in 1..n /\ j \in 1..n
    BY <1>3, <1>6
  <2>2. a[i] \in S /\ a[j] \in S /\ (a[i] = a[j] => i = j)
    BY <1>2, <2>1
  <2>3. Subsequence(q, S)[i] = q[a[i]] /\ Subsequence(q, S)[j] = q[a[j]]
    BY <1>3, <2>1
  <2> QED BY <2>2, <2>3
<1>7. Subsequence(q, S) \in Seq(T)
  BY <1>3, <1>4
<1> QED BY <1>5, <1>6, <1>7

LEMMA SubsequenceItems ==
    ASSUME NEW q \in Seq(Items), NEW S \in SUBSET (DOMAIN q)
    PROVE  /\ Subsequence(q, S) \in Seq(Items)
           /\ Range(Subsequence(q, S)) = {q[i] : i \in S}
           /\ Ids(Subsequence(q, S)) = {q[i].id : i \in S}
           /\ \A m : Lone(q, m) => Lone(Subsequence(q, S), m)
<1> DEFINE r == Subsequence(q, S)
<1>1. /\ r \in Seq(Items) /\ Range(r) = {q[i] : i \in S}
      /\ \A i, j \in DOMAIN r : \E g, h \in S : r[i] = q[g] /\ r[j] = q[h] /\ (g = h => i = j)
  BY SubsequenceOf
<1> HIDE DEF r
<1>2. Ids(r) = {q[i].id : i \in S}
  <2>1. Ids(r) = {x.id : x \in Range(r)}
    BY DEF Ids, Range
  <2> QED BY <1>1, <2>1
<1>3. \A m : Lone(q, m) => Lone(r, m)
  BY <1>1 DEF Lone
<1> QED BY <1>1, <1>2, <1>3 DEF r

(***************************************************************************)
(* The types.                                                              *)
(***************************************************************************)
Run ==
    [on : {"on", "off", "ending"}, hand : Seq(Items), worker : Messages \cup {None},
     retry : BOOLEAN, step : {"idle", "check", "wait"},
     result : {"none", "delivered", "posted", "dropped", "not_ready", "unconfirmed"},
     typing : Messages \cup {None}, posted : SUBSET Messages, awaiting : SUBSET Messages,
     dropped : SUBSET Messages, again : SUBSET Messages, held : BOOLEAN,
     failures : Nat, fallback : BOOLEAN]

Statuses == {"none", "queued", "taken", "posted"} \cup Closed

Types ==
    /\ receipts \in [Messages -> [status : Statuses, session : Sessions \cup {None}]]
    /\ inbox \in [Sessions -> Seq(Items)]
    /\ session \in [Sessions -> {"none", "launching", "running", "ended"}]
    /\ run \in [Sessions -> Run]
    /\ cli \in [Sessions -> Seq(Items)]
    /\ seen \in SUBSET Messages /\ doubted \in SUBSET Messages
    /\ read \in [Messages -> Nat]
    /\ pulled \in SUBSET Wakes
    /\ channel \in Channels
    /\ troubles \in 0..MaxTroubles

(***************************************************************************)
(* What each step does to the supervisor of one session, and that it       *)
(* leaves the others alone.                                                *)
(***************************************************************************)
Elsewhere(s) == \A t \in Sessions \ {s} : run'[t] = run[t]

\* The typing of a message is left out: it was taken back, or has arrived.
Skips(s) ==
    \/ ~Current(Tip(s).id)
    \/ Tip(s).retry /\ channel # "typed" /\ Tip(s).id \in seen

\* A message whose receipt is overdue leaves the posted ones, or goes back.
LateRun(s, m, back) ==
    LET late == [run[s] EXCEPT !.awaiting = @ \ {m}, !.posted = @ \ {m},
                               !.failures = @ + 1, !.fallback = @ \/ Fell(run[s].failures + 1)]
    IN run' = [run EXCEPT ![s] = IF back THEN [late EXCEPT !.hand = <<Item(m, TRUE)>> \o @,
                                                           !.again = @ \cup {m}]
                                 ELSE late]

\* The sequence of one item.
LEMMA OneItem ==
    ASSUME NEW m \in Messages, NEW b \in BOOLEAN
    PROVE  /\ <<Item(m, b)>> \in Seq(Items) /\ Range(<<Item(m, b)>>) = {Item(m, b)}
           /\ Ids(<<Item(m, b)>>) = {m} /\ \A x : Lone(<<Item(m, b)>>, x)
<1>1. Item(m, b) \in Items /\ Item(m, b).id = m
  BY ItemIsItem
<1>2. PICK x : x = Item(m, b)
  OBVIOUS
<1>3. <<x>> \in Seq(Items) /\ DOMAIN <<x>> = {1} /\ <<x>>[1] = x
  BY <1>1, <1>2
<1>4. Range(<<x>>) = {x} /\ Ids(<<x>>) = {x.id} /\ \A y : Lone(<<x>>, y)
  BY <1>3 DEF Range, Ids, Lone
<1> QED BY <1>1, <1>2, <1>3, <1>4

LEMMA OffRun == Off \in Run /\ [Off EXCEPT !.on = "on"] \in Run
BY NoItems DEF Off, Run

LEMMA TakeRun ==
    ASSUME Types, NEW s \in Sessions, Take(s)
    PROVE  /\ run' \in [Sessions -> Run] /\ Elsewhere(s)
           /\ run'[s].hand = run[s].hand \o inbox[s]
           /\ run'[s].on = run[s].on /\ run'[s].worker = run[s].worker
           /\ run'[s].retry = run[s].retry /\ run'[s].step = run[s].step
           /\ run'[s].result = run[s].result /\ run'[s].typing = run[s].typing
           /\ run'[s].posted = run[s].posted /\ run'[s].dropped = run[s].dropped
           /\ run'[s].again = run[s].again
<1>1. run \in [Sessions -> Run] /\ run[s] \in Run
  BY DEF Types
<1>2. run[s].hand \o inbox[s] \in Seq(Items)
  BY <1>1, Joined DEF Types, Run
<1> QED BY <1>1, <1>2 DEF Take, Elsewhere, Run

LEMMA MenuRun ==
    ASSUME Types, NEW s \in Sessions, MenuShows(s)
    PROVE  /\ run' \in [Sessions -> Run] /\ Elsewhere(s)
           /\ run'[s].hand = <<>>
           /\ run'[s].on = run[s].on /\ run'[s].worker = run[s].worker
           /\ run'[s].retry = run[s].retry /\ run'[s].step = run[s].step
           /\ run'[s].result = run[s].result /\ run'[s].typing = run[s].typing
           /\ run'[s].posted = run[s].posted /\ run'[s].dropped = run[s].dropped
           /\ run'[s].again = run[s].again
<1>1. run \in [Sessions -> Run] /\ run[s] \in Run
  BY DEF Types
<1> QED BY <1>1, NoItems DEF MenuShows, Elsewhere, Run

LEMMA MenuGoneRun ==
    ASSUME Types, NEW s \in Sessions, MenuGone(s)
    PROVE  /\ run' \in [Sessions -> Run] /\ Elsewhere(s)
           /\ run'[s].on = run[s].on /\ run'[s].hand = run[s].hand
           /\ run'[s].worker = run[s].worker /\ run'[s].retry = run[s].retry
           /\ run'[s].step = run[s].step /\ run'[s].result = run[s].result
           /\ run'[s].typing = run[s].typing /\ run'[s].posted = run[s].posted
           /\ run'[s].dropped = run[s].dropped /\ run'[s].again = run[s].again
<1>1. run \in [Sessions -> Run] /\ run[s] \in Run
  BY DEF Types
<1> QED BY <1>1 DEF MenuGone, Elsewhere, Run

LEMMA SubmitRun ==
    ASSUME Types, NEW s \in Sessions, Submit(s)
    PROVE  /\ run' \in [Sessions -> Run] /\ Elsewhere(s)
           /\ run'[s].hand = Tail(run[s].hand)
           /\ run'[s].worker = IF Current(Tip(s).id) THEN Tip(s).id ELSE None
           /\ run'[s].retry = Tip(s).retry
           /\ run'[s].step = IF Current(Tip(s).id) THEN "check" ELSE "idle"
           /\ run'[s].on = run[s].on /\ run'[s].result = run[s].result
           /\ run'[s].typing = run[s].typing /\ run'[s].posted = run[s].posted
           /\ run'[s].dropped = run[s].dropped /\ run'[s].again = run[s].again
<1>1. run \in [Sessions -> Run] /\ run[s] \in Run
  BY DEF Types
<1>2. run[s].hand # <<>> /\ run[s].hand \in Seq(Items)
  BY <1>1 DEF Submit, MayWrite, Run
<1>3. Tip(s) \in Items /\ Tail(run[s].hand) \in Seq(Items) /\ Tip(s).id \in Messages /\ Tip(s).retry \in BOOLEAN
  BY <1>2, HeadAndTail DEF Tip, Items
<1>4. PICK m, b, w, st : /\ m = Tip(s).id /\ b = Tip(s).retry
                         /\ w = IF Current(m) THEN m ELSE None
                         /\ st = IF Current(m) THEN "check" ELSE "idle"
  OBVIOUS
<1>5. run' = [run EXCEPT ![s].hand = Tail(@), ![s].worker = w, ![s].retry = b, ![s].step = st]
  BY <1>4 DEF Submit
<1>6. w \in Messages \cup {None} /\ b \in BOOLEAN /\ st \in {"idle", "check", "wait"}
  BY <1>3, <1>4
<1> QED BY ZenonT(40), <1>1, <1>3, <1>4, <1>5, <1>6 DEF Elsewhere, Run

LEMMA TypeWriteRun ==
    ASSUME Types, NEW s \in Sessions, TypeWrite(s)
    PROVE  /\ run' \in [Sessions -> Run] /\ Elsewhere(s)
           /\ run'[s].hand = Tail(run[s].hand)
           /\ run'[s].typing = IF Skips(s) THEN run[s].typing ELSE Tip(s).id
           /\ run'[s].on = run[s].on /\ run'[s].worker = run[s].worker
           /\ run'[s].retry = run[s].retry /\ run'[s].step = run[s].step
           /\ run'[s].result = run[s].result /\ run'[s].posted = run[s].posted
           /\ run'[s].dropped = run[s].dropped /\ run'[s].again = run[s].again
<1>1. run \in [Sessions -> Run] /\ run[s] \in Run
  BY DEF Types
<1>2. run[s].hand # <<>> /\ run[s].hand \in Seq(Items)
  BY <1>1 DEF TypeWrite, MayWrite, Run
<1>3. Tip(s) \in Items /\ Tail(run[s].hand) \in Seq(Items) /\ Tip(s).id \in Messages /\ Tip(s).retry \in BOOLEAN
  BY <1>2, HeadAndTail DEF Tip, Items
<1>4. run' = IF Skips(s) THEN [run EXCEPT ![s].hand = Tail(@)]
             ELSE [run EXCEPT ![s].hand = Tail(@), ![s].typing = Tip(s).id]
  BY DEF TypeWrite, Skips
<1>5. PICK m : m = Tip(s).id
  OBVIOUS
<1>6. CASE Skips(s)
  <2>1. run' = [run EXCEPT ![s].hand = Tail(@)]
    BY <1>4, <1>6
  <2> QED BY <1>1, <1>3, <1>6, <2>1 DEF Elsewhere, Run
<1>7. CASE ~Skips(s)
  <2>1. run' = [run EXCEPT ![s].hand = Tail(@), ![s].typing = m]
    BY <1>4, <1>5, <1>7
  <2> QED BY <1>1, <1>3, <1>5, <1>7, <2>1 DEF Elsewhere, Run
<1> QED BY <1>6, <1>7

LEMMA TypeRecordRun ==
    ASSUME Types, NEW s \in Sessions, TypeRecord(s)
    PROVE  /\ run' \in [Sessions -> Run] /\ Elsewhere(s)
           /\ run'[s].typing = None
           /\ run'[s].posted = IF channel = "hook" THEN run[s].posted \cup {run[s].typing} ELSE run[s].posted
           /\ run'[s].on = run[s].on /\ run'[s].hand = run[s].hand
           /\ run'[s].worker = run[s].worker /\ run'[s].retry = run[s].retry
           /\ run'[s].step = run[s].step /\ run'[s].result = run[s].result
           /\ run'[s].dropped = run[s].dropped /\ run'[s].again = run[s].again
<1>1. run \in [Sessions -> Run] /\ run[s] \in Run
  BY DEF Types
<1>2. run[s].typing \in Messages
  BY <1>1 DEF TypeRecord, Run
<1>3. CASE channel = "hook"
  <2>1. run' = [run EXCEPT ![s].typing = None, ![s].posted = @ \cup {run[s].typing},
                           ![s].awaiting = @ \cup {run[s].typing}]
    BY <1>3 DEF TypeRecord
  <2> QED BY ZenonT(40), <1>1, <1>2, <1>3, <2>1 DEF Elsewhere, Run
<1>4. CASE channel # "hook"
  <2>1. run' = [run EXCEPT ![s].typing = None]
    BY <1>4 DEF TypeRecord
  <2> QED BY <1>1, <1>4, <2>1 DEF Elsewhere, Run
<1> QED BY <1>3, <1>4

LEMMA AnswerRun ==
    ASSUME Types, NEW s \in Sessions, NEW result \in {"delivered", "posted", "dropped", "not_ready", "unconfirmed"},
           Answer(s, result)
    PROVE  /\ run' \in [Sessions -> Run] /\ Elsewhere(s)
           /\ run'[s].step = "idle"
           /\ run'[s].result = result
           /\ run'[s].on = run[s].on /\ run'[s].hand = run[s].hand
           /\ run'[s].worker = run[s].worker /\ run'[s].retry = run[s].retry
           /\ run'[s].typing = run[s].typing /\ run'[s].posted = run[s].posted
           /\ run'[s].dropped = run[s].dropped /\ run'[s].again = run[s].again
<1>1. run \in [Sessions -> Run] /\ run[s] \in Run
  BY DEF Types
<1> QED BY <1>1 DEF Answer, Elsewhere, Run

LEMMA SentRun ==
    ASSUME Types, NEW s \in Sessions, run' = [run EXCEPT ![s].step = "wait"]
    PROVE  /\ run' \in [Sessions -> Run] /\ Elsewhere(s)
           /\ run'[s].step = "wait"
           /\ run'[s].on = run[s].on /\ run'[s].hand = run[s].hand
           /\ run'[s].worker = run[s].worker /\ run'[s].retry = run[s].retry
           /\ run'[s].result = run[s].result /\ run'[s].typing = run[s].typing
           /\ run'[s].posted = run[s].posted /\ run'[s].dropped = run[s].dropped
           /\ run'[s].again = run[s].again
<1>1. run \in [Sessions -> Run] /\ run[s] \in Run
  BY DEF Types
<1> QED BY <1>1 DEF Types, Elsewhere, Run

LEMMA WaitDroppedRun ==
    ASSUME Types, NEW s \in Sessions, run' = [run EXCEPT ![s].step = "idle", ![s].result = "dropped",
                             ![s].dropped = @ \ {run[s].worker}]
    PROVE  /\ run' \in [Sessions -> Run] /\ Elsewhere(s)
           /\ run'[s].step = "idle"
           /\ run'[s].result = "dropped"
           /\ run'[s].dropped = run[s].dropped \ {run[s].worker}
           /\ run'[s].on = run[s].on /\ run'[s].hand = run[s].hand
           /\ run'[s].worker = run[s].worker /\ run'[s].retry = run[s].retry
           /\ run'[s].typing = run[s].typing /\ run'[s].posted = run[s].posted
           /\ run'[s].again = run[s].again
<1>1. run \in [Sessions -> Run] /\ run[s] \in Run
  BY DEF Types
<1> QED BY <1>1 DEF Types, Elsewhere, Run

LEMMA WaitPostedRun ==
    ASSUME Types, NEW s \in Sessions, run' = [run EXCEPT ![s].step = "idle", ![s].result = "posted",
                             ![s].awaiting = @ \cup {run[s].worker}],
           run[s].worker \in Messages
    PROVE  /\ run' \in [Sessions -> Run] /\ Elsewhere(s)
           /\ run'[s].step = "idle"
           /\ run'[s].result = "posted"
           /\ run'[s].on = run[s].on /\ run'[s].hand = run[s].hand
           /\ run'[s].worker = run[s].worker /\ run'[s].retry = run[s].retry
           /\ run'[s].typing = run[s].typing /\ run'[s].posted = run[s].posted
           /\ run'[s].dropped = run[s].dropped /\ run'[s].again = run[s].again
<1>1. run \in [Sessions -> Run] /\ run[s] \in Run
  BY DEF Types
<1> QED BY ZenonT(40), <1>1 DEF Types, Elsewhere, Run

LEMMA DeliveredRun ==
    ASSUME Types, NEW s \in Sessions, TakeOutcome(s), run[s].result = "delivered"
    PROVE  /\ run' \in [Sessions -> Run] /\ Elsewhere(s)
           /\ run'[s].worker = None
           /\ run'[s].result = "none"
           /\ run'[s].retry = FALSE
           /\ run'[s].on = run[s].on /\ run'[s].hand = run[s].hand
           /\ run'[s].step = run[s].step /\ run'[s].typing = run[s].typing
           /\ run'[s].posted = run[s].posted /\ run'[s].dropped = run[s].dropped
           /\ run'[s].again = run[s].again
<1>1. run \in [Sessions -> Run] /\ run[s] \in Run
  BY DEF Types
<1>2. run' = [run EXCEPT ![s] = [[run[s] EXCEPT !.worker = None, !.result = "none", !.retry = FALSE]
                                    EXCEPT !.failures = 0]]
  BY DEF TakeOutcome
<1> QED BY <1>1, <1>2 DEF TakeOutcome, Elsewhere, Run

LEMMA AcceptedRun ==
    ASSUME Types, NEW s \in Sessions, TakeOutcome(s), run[s].result = "posted", run[s].worker \in Messages
    PROVE  /\ run' \in [Sessions -> Run] /\ Elsewhere(s)
           /\ run'[s].worker = None
           /\ run'[s].result = "none"
           /\ run'[s].retry = FALSE
           /\ run'[s].posted = run[s].posted \cup {run[s].worker}
           /\ run'[s].on = run[s].on /\ run'[s].hand = run[s].hand
           /\ run'[s].step = run[s].step /\ run'[s].typing = run[s].typing
           /\ run'[s].dropped = run[s].dropped /\ run'[s].again = run[s].again
<1>1. run \in [Sessions -> Run] /\ run[s] \in Run
  BY DEF Types
<1>2. run' = [run EXCEPT ![s] = [[run[s] EXCEPT !.worker = None, !.result = "none", !.retry = FALSE]
                                    EXCEPT !.posted = @ \cup {run[s].worker}]]
  BY DEF TakeOutcome
<1> QED BY ZenonT(40), <1>1, <1>2 DEF TakeOutcome, Elsewhere, Run

LEMMA ReturnedRun ==
    ASSUME Types, NEW s \in Sessions, TakeOutcome(s),
           run[s].result \in {"dropped", "not_ready", "unconfirmed"}, run[s].worker \in Messages
    PROVE  /\ run' \in [Sessions -> Run] /\ Elsewhere(s)
           /\ run'[s].worker = None
           /\ run'[s].result = "none"
           /\ run'[s].retry = FALSE
           /\ run'[s].hand = <<Item(run[s].worker, run[s].result # "not_ready")>> \o run[s].hand
           /\ run'[s].on = run[s].on /\ run'[s].step = run[s].step
           /\ run'[s].typing = run[s].typing /\ run'[s].posted = run[s].posted
           /\ run'[s].dropped = run[s].dropped /\ run'[s].again = run[s].again
<1>1. run \in [Sessions -> Run] /\ run[s] \in Run
  BY DEF Types
<1>2. run[s].hand \in Seq(Items) /\ run[s].failures \in Nat /\ run[s].fallback \in BOOLEAN
  BY <1>1 DEF Run
<1>3. PICK f, n, b : /\ f = (run[s].result # "not_ready")
                     /\ n = IF run[s].result = "unconfirmed" THEN run[s].failures + 1 ELSE run[s].failures
                     /\ b = (run[s].fallback \/ (run[s].result = "unconfirmed" /\ Fell(run[s].failures + 1)))
  OBVIOUS
<1>4. run' = [run EXCEPT ![s] = [[run[s] EXCEPT !.worker = None, !.result = "none", !.retry = FALSE]
                                    EXCEPT !.hand = <<Item(run[s].worker, f)>> \o @, !.failures = n, !.fallback = b]]
  <2>1. run[s].result # "delivered" /\ run[s].result # "posted"
    OBVIOUS
  <2>2. run' = [run EXCEPT ![s] = [[run[s] EXCEPT !.worker = None, !.result = "none", !.retry = FALSE]
                                    EXCEPT !.hand = <<Item(run[s].worker, run[s].result # "not_ready")>> \o @,
                                           !.failures = IF run[s].result = "unconfirmed" THEN run[s].failures + 1 ELSE @,
                                           !.fallback = @ \/ (run[s].result = "unconfirmed" /\ Fell(run[s].failures + 1))]]
    BY <2>1 DEF TakeOutcome
  <2> QED BY <1>1, <1>3, <2>2
<1>5. PICK h : h = <<Item(run[s].worker, f)>> \o run[s].hand
  OBVIOUS
<1>6. h \in Seq(Items) /\ n \in Nat /\ b \in BOOLEAN
  <2>1. f \in BOOLEAN /\ n \in Nat /\ b \in BOOLEAN
    BY <1>2, <1>3
  <2>2. <<Item(run[s].worker, f)>> \in Seq(Items)
    BY <2>1, OneItem
  <2> QED BY <1>2, <1>5, <2>1, <2>2, Joined
<1> QED BY <1>1, <1>3, <1>4, <1>5, <1>6 DEF Types, Elsewhere, Run

LEMMA ReceiptSeenRun ==
    ASSUME Types, NEW s \in Sessions, ReceiptSeen(s)
    PROVE  /\ run' \in [Sessions -> Run] /\ Elsewhere(s)
           /\ run'[s].posted = run[s].posted \ (run[s].awaiting \cap seen)
           /\ run'[s].on = run[s].on /\ run'[s].hand = run[s].hand
           /\ run'[s].worker = run[s].worker /\ run'[s].retry = run[s].retry
           /\ run'[s].step = run[s].step /\ run'[s].result = run[s].result
           /\ run'[s].typing = run[s].typing /\ run'[s].dropped = run[s].dropped
           /\ run'[s].again = run[s].again
<1>1. run \in [Sessions -> Run] /\ run[s] \in Run
  BY DEF Types
<1> QED BY <1>1 DEF ReceiptSeen, Elsewhere, Run

LEMMA OverdueRun ==
    ASSUME Types, NEW s \in Sessions, NEW m \in run[s].posted, NEW back \in BOOLEAN,
           LateRun(s, m, back)
    PROVE  /\ run' \in [Sessions -> Run] /\ Elsewhere(s)
           /\ run'[s].hand = IF back THEN <<Item(m, TRUE)>> \o run[s].hand ELSE run[s].hand
           /\ run'[s].posted = run[s].posted \ {m}
           /\ run'[s].again = IF back THEN run[s].again \cup {m} ELSE run[s].again
           /\ run'[s].on = run[s].on /\ run'[s].worker = run[s].worker
           /\ run'[s].retry = run[s].retry /\ run'[s].step = run[s].step
           /\ run'[s].result = run[s].result /\ run'[s].typing = run[s].typing
           /\ run'[s].dropped = run[s].dropped
<1>1. run \in [Sessions -> Run] /\ run[s] \in Run
  BY DEF Types
<1>2. m \in Messages /\ run[s].hand \in Seq(Items) /\ run[s].failures \in Nat /\ run[s].fallback \in BOOLEAN
  BY <1>1 DEF Run
<1>3. PICK h, n, b : /\ h = <<Item(m, TRUE)>> \o run[s].hand
                     /\ n = run[s].failures + 1 /\ b = (run[s].fallback \/ Fell(run[s].failures + 1))
  OBVIOUS
<1>4. h \in Seq(Items) /\ n \in Nat /\ b \in BOOLEAN
  <2>1. <<Item(m, TRUE)>> \in Seq(Items)
    BY <1>2, OneItem
  <2>2. n \in Nat /\ b \in BOOLEAN
    BY <1>2, <1>3
  <2>3. h \in Seq(Items)
    BY <1>2, <1>3, <2>1, Joined
  <2> QED BY <2>2, <2>3
<1>5. CASE back
  <2>1. run' = [run EXCEPT ![s] = [[run[s] EXCEPT !.awaiting = @ \ {m}, !.posted = @ \ {m}, !.failures = @ + 1,
                                                   !.fallback = @ \/ Fell(run[s].failures + 1)]
                                      EXCEPT !.hand = <<Item(m, TRUE)>> \o @, !.again = @ \cup {m}]]
    BY <1>5 DEF LateRun
  <2>2. PICK l : l = [run[s] EXCEPT !.awaiting = @ \ {m}, !.posted = @ \ {m}, !.failures = @ + 1,
                                    !.fallback = @ \/ Fell(run[s].failures + 1)]
    OBVIOUS
  <2>3. l = [run[s] EXCEPT !.awaiting = @ \ {m}, !.posted = @ \ {m}, !.failures = n, !.fallback = b]
    BY <1>1, <1>3, <2>2 DEF Run
  <2>4. /\ l \in Run /\ l.hand = run[s].hand /\ l.posted = run[s].posted \ {m} /\ l.again = run[s].again
        /\ l.on = run[s].on /\ l.worker = run[s].worker /\ l.retry = run[s].retry /\ l.step = run[s].step
        /\ l.result = run[s].result /\ l.typing = run[s].typing /\ l.dropped = run[s].dropped
    BY <1>1, <1>2, <1>4, <2>3 DEF Run
  <2>5. run' = [run EXCEPT ![s] = [l EXCEPT !.hand = <<Item(m, TRUE)>> \o @, !.again = @ \cup {m}]]
    BY <2>1, <2>2
  <2>6. run' = [run EXCEPT ![s] = [l EXCEPT !.hand = h, !.again = @ \cup {m}]]
    BY <1>3, <2>4, <2>5
  <2> QED BY ZenonT(40), <1>1, <1>2, <1>3, <1>4, <1>5, <2>4, <2>6 DEF Elsewhere, Run
<1>6. CASE ~back
  <2>1. run' = [run EXCEPT ![s] = [run[s] EXCEPT !.awaiting = @ \ {m}, !.posted = @ \ {m}, !.failures = n,
                                                   !.fallback = b]]
    BY <1>3, <1>6 DEF LateRun
  <2> QED BY ZenonT(40), <1>1, <1>2, <1>3, <1>4, <1>6, <2>1 DEF Elsewhere, Run
<1> QED BY <1>5, <1>6

LEMMA DroppedRun ==
    ASSUME Types, NEW s \in Sessions, NEW m \in run[s].posted,
           run' = [run EXCEPT ![s].hand = <<Item(m, TRUE)>> \o @, ![s].dropped = @ \ {m},
                              ![s].posted = @ \ {m}, ![s].awaiting = @ \ {m}]
    PROVE  /\ run' \in [Sessions -> Run] /\ Elsewhere(s)
           /\ run'[s].hand = <<Item(m, TRUE)>> \o run[s].hand
           /\ run'[s].posted = run[s].posted \ {m}
           /\ run'[s].dropped = run[s].dropped \ {m}
           /\ run'[s].on = run[s].on /\ run'[s].worker = run[s].worker
           /\ run'[s].retry = run[s].retry /\ run'[s].step = run[s].step
           /\ run'[s].result = run[s].result /\ run'[s].typing = run[s].typing
           /\ run'[s].again = run[s].again
<1>1. run \in [Sessions -> Run] /\ run[s] \in Run
  BY DEF Types
<1>2. m \in Messages /\ run[s].hand \in Seq(Items)
  BY <1>1 DEF Run
<1>3. <<Item(m, TRUE)>> \o run[s].hand \in Seq(Items)
  BY <1>2, OneItem, Joined
<1> QED BY ZenonT(40), <1>1, <1>2, <1>3 DEF Elsewhere, Run

LEMMA LosesRun ==
    ASSUME Types, NEW s \in Sessions, CliLoses(s)
    PROVE  /\ run' \in [Sessions -> Run] /\ Elsewhere(s)
           /\ run'[s].dropped = IF channel = "app-server" THEN run[s].dropped \cup {Head(cli[s]).id} ELSE run[s].dropped
           /\ run'[s].on = run[s].on /\ run'[s].hand = run[s].hand
           /\ run'[s].worker = run[s].worker /\ run'[s].retry = run[s].retry
           /\ run'[s].step = run[s].step /\ run'[s].result = run[s].result
           /\ run'[s].typing = run[s].typing /\ run'[s].posted = run[s].posted
           /\ run'[s].again = run[s].again
<1>1. run \in [Sessions -> Run] /\ run[s] \in Run
  BY DEF Types
<1>2. Head(cli[s]).id \in Messages
  <2>1. cli[s] \in Seq(Items) /\ cli[s] # <<>>
    BY DEF Types, CliLoses
  <2> QED BY <2>1, HeadAndTail DEF Items
<1> QED BY <1>1, <1>2 DEF CliLoses, Elsewhere, Run

LEMMA EndRun ==
    ASSUME Types, NEW s \in Sessions, End(s)
    PROVE  /\ run' \in [Sessions -> Run] /\ Elsewhere(s)
           /\ run'[s].on = "ending"
           /\ run'[s].hand = <<>>
           /\ run'[s].worker = run[s].worker /\ run'[s].retry = run[s].retry
           /\ run'[s].step = run[s].step /\ run'[s].result = run[s].result
           /\ run'[s].typing = run[s].typing /\ run'[s].posted = run[s].posted
           /\ run'[s].dropped = run[s].dropped /\ run'[s].again = run[s].again
<1>1. run \in [Sessions -> Run] /\ run[s] \in Run
  BY DEF Types
<1> QED BY <1>1, NoItems DEF End, Elsewhere, Run

(***************************************************************************)
(* What the operations on queues and receipts return.                      *)
(***************************************************************************)
LEMMA ReturnableItems ==
    ASSUME NEW q \in Seq(Items)
    PROVE  /\ Returnable(q) \in Seq(Items) /\ Range(Returnable(q)) \subseteq Range(q)
           /\ Ids(Returnable(q)) = {m \in Ids(q) : Status(m) = "taken"}
           /\ \A m : Lone(q, m) => Lone(Returnable(q), m)
<1> DEFINE S == {i \in DOMAIN q : Status(q[i].id) = "taken"}
<1>1. Returnable(q) = Subsequence(q, S) /\ S \in SUBSET (DOMAIN q)
  BY DEF Returnable
<1>2. {q[i].id : i \in S} = {m \in Ids(q) : Status(m) = "taken"} /\ {q[i] : i \in S} \subseteq Range(q)
  BY DEF Ids, Range
<1> HIDE DEF S
<1> QED BY <1>1, <1>2, SubsequenceItems

LEMMA DropItems ==
    ASSUME NEW q \in Seq(Items), NEW d
    PROVE  /\ Drop(q, d) \in Seq(Items) /\ Range(Drop(q, d)) \subseteq Range(q)
           /\ Ids(Drop(q, d)) = Ids(q) \ {d}
           /\ \A m : Lone(q, m) => Lone(Drop(q, d), m)
<1> DEFINE S == {i \in DOMAIN q : q[i].id # d}
<1>1. Drop(q, d) = Subsequence(q, S) /\ S \in SUBSET (DOMAIN q)
  BY DEF Drop
<1>2. {q[i].id : i \in S} = Ids(q) \ {d} /\ {q[i] : i \in S} \subseteq Range(q)
  BY DEF Ids, Range
<1> HIDE DEF S
<1> QED BY <1>1, <1>2, SubsequenceItems

LEMMA CarriedItems ==
    ASSUME NEW ids \in SUBSET Messages
    PROVE  /\ Carried(ids) \in Seq(Items) /\ Ids(Carried(ids)) = ids
           /\ \A x \in Range(Carried(ids)) : x.retry
           /\ \A m : Lone(Carried(ids), m)
<1> DEFINE S == {i \in DOMAIN MessageOrder : MessageOrder[i] \in ids}
           o == InOrder(ids)
           c == Carried(ids)
<1>1. MessageOrder \in Seq(Messages) /\ Messages = {MessageOrder[i] : i \in DOMAIN MessageOrder}
      /\ \A i, j \in DOMAIN MessageOrder : MessageOrder[i] = MessageOrder[j] => i = j
  BY InstructionsAssumption DEF Messages, Range, IsInjective
<1>2. S \in SUBSET (DOMAIN MessageOrder) /\ o = Subsequence(MessageOrder, S)
  BY DEF InOrder
<1>3. {MessageOrder[i] : i \in S} = ids
  BY <1>1
<1> HIDE DEF S
<1>4. /\ o \in Seq(Messages) /\ Range(o) = ids
      /\ \A i, j \in DOMAIN o : \E g, h \in S :
            o[i] = MessageOrder[g] /\ o[j] = MessageOrder[h] /\ (g = h => i = j)
  <2>1. /\ Subsequence(MessageOrder, S) \in Seq(Messages)
        /\ Range(Subsequence(MessageOrder, S)) = {MessageOrder[i] : i \in S}
        /\ \A i, j \in DOMAIN Subsequence(MessageOrder, S) : \E g, h \in S :
              /\ Subsequence(MessageOrder, S)[i] = MessageOrder[g]
              /\ Subsequence(MessageOrder, S)[j] = MessageOrder[h]
              /\ g = h => i = j
    BY <1>1, <1>2, SubsequenceOf
  <2>2. o = Subsequence(MessageOrder, S)
    BY <1>2
  <2> HIDE DEF o
  <2>3. o \in Seq(Messages) /\ Range(o) = ids
    BY <1>3, <2>1, <2>2
  <2>4. ASSUME NEW i \in DOMAIN o, NEW j \in DOMAIN o
        PROVE  \E g, h \in S : o[i] = MessageOrder[g] /\ o[j] = MessageOrder[h] /\ (g = h => i = j)
    BY <2>1, <2>2
  <2> QED BY <2>3, <2>4
<1>5. \A i, j \in DOMAIN o : o[i] = o[j] => i = j
  BY <1>1, <1>2, <1>4
<1>6. PICK n \in Nat : DOMAIN o = 1..n /\ \A i \in 1..n : o[i] \in Messages
  BY <1>4, LenProperties, ElementOfSeq
<1>7. c = [i \in 1..n |-> Item(o[i], TRUE)]
  BY <1>6 DEF Carried
<1> HIDE DEF o, c
<1>8. \A i \in 1..n : Item(o[i], TRUE) \in Items /\ Item(o[i], TRUE).id = o[i] /\ Item(o[i], TRUE).retry
  BY <1>6, ItemIsItem
<1>9. c \in Seq(Items)
  <2>1. PICK f : f = [i \in 1..n |-> Item(o[i], TRUE)]
    OBVIOUS
  <2>2. f \in [1..n -> Items] /\ n \in Nat
    BY <1>6, <1>8, <2>1
  <2>3. f \in Seq(Items)
    BY <2>2
  <2> QED BY <1>7, <2>1, <2>3
<1>10. Ids(c) = ids
  <2>1. DOMAIN c = 1..n /\ \A i \in 1..n : c[i].id = o[i]
    BY <1>7, <1>8
  <2>2. Ids(c) = {o[i] : i \in 1..n}
    BY <2>1 DEF Ids
  <2> QED BY <1>4, <1>6, <2>2 DEF Range
<1>11. \A x \in Range(c) : x.retry
  BY <1>7, <1>8 DEF Range
<1>12. \A m : Lone(c, m)
  <2>1. \A i \in DOMAIN c : i \in DOMAIN o /\ c[i].id = o[i]
    BY <1>6, <1>7, <1>8
  <2> QED BY <1>5, <2>1 DEF Lone
<1> QED BY <1>9, <1>10, <1>11, <1>12 DEF c

Receipts == [Messages -> [status : Statuses, session : Sessions \cup {None}]]

LEMMA AcknowledgedReceipts ==
    ASSUME Types, NEW s \in Sessions, NEW ids, receipts' = Acknowledged(receipts, s, ids)
    PROVE  /\ receipts' \in Receipts
           /\ \A m \in Messages :
                /\ receipts'[m].session = receipts[m].session
                /\ Status(m)' = IF m \in ids /\ receipts[m].session = s /\ Status(m) \in {"taken", "posted"}
                                THEN "delivered" ELSE Status(m)
<1>1. receipts \in Receipts
  BY DEF Types, Receipts
<1> QED BY <1>1 DEF Acknowledged, Receipts, Status, Statuses, Closed

LEMMA PostedReceipts ==
    ASSUME Types, NEW s \in Sessions, NEW ids, receipts' = Posted(receipts, s, ids)
    PROVE  /\ receipts' \in Receipts
           /\ \A m \in Messages :
                /\ receipts'[m].session = receipts[m].session
                /\ Status(m)' = IF m \in ids /\ receipts[m].session = s /\ Status(m) = "taken"
                                THEN "posted" ELSE Status(m)
<1>1. receipts \in Receipts
  BY DEF Types, Receipts
<1> QED BY <1>1 DEF Posted, Receipts, Status, Statuses, Closed

LEMMA RequeuedReceipts ==
    ASSUME Types, NEW back, receipts' = Requeued(back)
    PROVE  /\ receipts' \in Receipts
           /\ \A m \in Messages :
                /\ receipts'[m].session = receipts[m].session
                /\ Status(m)' = IF m \in Ids(back) THEN "queued" ELSE Status(m)
<1>1. receipts \in Receipts
  BY DEF Types, Receipts
<1> QED BY <1>1 DEF Requeued, Receipts, Status, Statuses, Closed

(***************************************************************************)
(* The inductive invariant of OnePlace.                                    *)
(***************************************************************************)
Hand(s) == Ids(run[s].hand)

\* A queue holds the messages whose receipts say so, each once.
Homes ==
    /\ \A s \in Sessions, m \in Messages : Lone(inbox[s], m)
    /\ \A s \in Sessions, m \in Messages :
          m \in Ids(inbox[s]) <=> Status(m) = "queued" /\ receipts[m].session = s
    /\ \A m \in Messages : Status(m) = "none" <=> receipts[m].session = None

\* Without a supervisor nothing is held.
Asleep(s) == session[s] # "running" => run[s] = Off /\ cli[s] = <<>>

\* What a supervisor holds it holds in one place.
Apart(s) ==
    /\ \A m \in Messages : Lone(run[s].hand, m)
    /\ run[s].worker # None => run[s].worker \notin Hand(s) \cup {run[s].typing}
    /\ run[s].typing # None => run[s].typing \notin Hand(s)
    /\ run[s].posted \cap (Hand(s) \cup {run[s].worker, run[s].typing}) = {}

\* What it holds was queued for its session, and is not queued now.
Flying(s) == \A m \in InFlight(s) : receipts[m].session = s /\ Status(m) # "queued"

Busy(s) ==
    /\ run[s].step # "idle" \/ run[s].result # "none" => run[s].worker # None
    /\ run[s].step = "idle" \/ run[s].result = "none"

\* Only a message steered into a running turn can be dropped.
Steered(s) == run[s].dropped # {} => channel = "app-server"

\* What was posted and is held again was sent twice, or is a dropped one.
Twice(s) ==
    \A m \in (Hand(s) \cup {run[s].worker, run[s].typing}) \ {None} :
        Status(m) = "posted" => m \in run[s].again \/ channel = "app-server"

\* What it has taken it knows of, if no menu covers a steered message.
Recalled(s) ==
    "menu" \notin Kinds["app-server"] => \A m \in Messages :
        run[s].on = "on" /\ receipts[m].session = s /\ Status(m) \in {"taken", "posted"}
            => m \in InFlight(s) \cup run[s].again

Sound(s) == Asleep(s) /\ Apart(s) /\ Flying(s) /\ Busy(s) /\ Steered(s) /\ Twice(s) /\ Recalled(s)

Base == Types /\ Homes /\ \A s \in Sessions : Sound(s)

\* A step of one session.
Alone(s) ==
    /\ Elsewhere(s) /\ channel' = channel
    /\ \A t \in Sessions \ {s} : cli'[t] = cli[t] /\ session'[t] = session[t]
    /\ \A m \in Messages : \/ receipts'[m] = receipts[m]
                           \/ receipts[m].session \in {s, None} /\ receipts'[m].session = s

LEMMA OthersSound ==
    ASSUME Base, NEW s \in Sessions, Alone(s), NEW t \in Sessions \ {s}
    PROVE  Sound(t)'
<1>1. Sound(t) /\ Homes /\ run \in [Sessions -> Run] /\ None \notin Messages /\ None \notin Sessions
  BY InstructionsAssumption DEF Base, Types
<1>2. run'[t] = run[t] /\ cli'[t] = cli[t] /\ session'[t] = session[t] /\ channel' = channel
  BY DEF Alone, Elsewhere
<1>3. InFlight(t) \subseteq Messages
  <2>1. run[t] \in Run
    BY <1>1
  <2>2. Ids(run[t].hand) \subseteq Messages
    BY <2>1, Holding DEF Run
  <2> QED BY <2>1, <2>2 DEF InFlight, Run
<1>4. \A m \in InFlight(t) : receipts'[m] = receipts[m]
  BY <1>1, <1>3 DEF Sound, Flying, Alone
<1>5. InFlight(t)' = InFlight(t) /\ Hand(t)' = Hand(t)
  BY <1>2 DEF InFlight, Hand
<1>6. Asleep(t)' /\ Apart(t)' /\ Busy(t)' /\ Steered(t)'
  BY <1>1, <1>2, <1>5 DEF Sound, Asleep, Apart, Busy, Steered
<1>7. Flying(t)'
  BY <1>1, <1>4, <1>5 DEF Sound, Flying, Status
<1>8. Twice(t)'
  <2>1. (Hand(t) \cup {run[t].worker, run[t].typing}) \ {None} \subseteq InFlight(t)
    BY DEF Hand, InFlight
  <2> QED BY <1>1, <1>2, <1>4, <1>5, <2>1 DEF Sound, Twice, Status
<1>9. Recalled(t)'
  <2>1. \A m \in Messages : receipts'[m].session = t => receipts'[m] = receipts[m]
    BY DEF Alone
  <2> QED BY <1>1, <1>2, <1>5, <2>1 DEF Sound, Recalled, Status
<1> QED BY <1>6, <1>7, <1>8, <1>9 DEF Sound

LEMMA SessionStep ==
    ASSUME Base, NEW s \in Sessions, Alone(s), Types', Homes', Sound(s)'
    PROVE  Base'
<1>1. \A t \in Sessions \ {s} : Sound(t)'
  BY OthersSound
<1> QED BY <1>1 DEF Base

\* What a supervisor holds are messages.
LEMMA Held ==
    ASSUME Types, NEW s \in Sessions
    PROVE  /\ run[s] \in Run /\ run[s].hand \in Seq(Items) /\ Hand(s) \subseteq Messages
           /\ InFlight(s) \subseteq Messages
           /\ inbox[s] \in Seq(Items) /\ cli[s] \in Seq(Items) /\ receipts \in Receipts
           /\ None \notin Messages /\ None \notin Sessions
<1>1. run[s] \in Run /\ inbox[s] \in Seq(Items) /\ cli[s] \in Seq(Items) /\ receipts \in Receipts
      /\ None \notin Messages /\ None \notin Sessions
  BY InstructionsAssumption DEF Types, Receipts
<1>2. run[s].hand \in Seq(Items) /\ run[s].worker \in Messages \cup {None}
      /\ run[s].typing \in Messages \cup {None} /\ run[s].posted \subseteq Messages
  BY <1>1 DEF Run
<1>3. Ids(run[s].hand) \subseteq Messages
  BY <1>2, Holding
<1> QED BY <1>1, <1>2, <1>3 DEF Hand, InFlight

\* Receipts of what has left the queue move on, and the queues stay.
Settled ==
    \A m \in Messages :
        /\ receipts'[m].session = receipts[m].session
        /\ \/ Status(m)' = Status(m)
           \/ Status(m) \in {"taken", "posted"} /\ Status(m)' \in {"posted", "delivered"}

LEMMA SettledHomes ==
    ASSUME Homes, Settled, inbox' = inbox
    PROVE  Homes'
<1>1. \A m \in Messages : /\ receipts'[m].session = receipts[m].session
                          /\ Status(m)' = "none" <=> Status(m) = "none"
                          /\ Status(m)' = "queued" <=> Status(m) = "queued"
  BY DEF Settled
<1> QED BY <1>1 DEF Homes

\* take_instructions
LEMMA TakeKeeps ==
    ASSUME Base, NEW s \in Sessions, Take(s)
    PROVE  Base'
<1>1. Types /\ Homes /\ Sound(s) /\ inbox \in [Sessions -> Seq(Items)]
  BY DEF Base, Types
<1>2. /\ run' \in [Sessions -> Run] /\ Elsewhere(s)
      /\ run'[s].hand = run[s].hand \o inbox[s]
      /\ run'[s].on = run[s].on /\ run'[s].worker = run[s].worker
      /\ run'[s].step = run[s].step /\ run'[s].result = run[s].result
      /\ run'[s].typing = run[s].typing /\ run'[s].posted = run[s].posted
      /\ run'[s].dropped = run[s].dropped /\ run'[s].again = run[s].again
  BY <1>1, TakeRun
<1>3. /\ run[s].hand \in Seq(Items) /\ inbox[s] \in Seq(Items) /\ InFlight(s) \subseteq Messages
      /\ receipts \in Receipts
  BY <1>1, Held
<1>4. /\ receipts' \in Receipts
      /\ \A m \in Messages :
           /\ receipts'[m].session = receipts[m].session
           /\ Status(m)' = IF m \in Ids(inbox[s]) THEN "taken" ELSE Status(m)
           /\ m \notin Ids(inbox[s]) => receipts'[m] = receipts[m]
  <2>1. receipts' = [m \in Messages |-> IF m \in Ids(inbox[s])
                       THEN [receipts[m] EXCEPT !.status = "taken"] ELSE receipts[m]]
    BY DEF Take
  <2> QED BY <1>3, <2>1 DEF Receipts, Statuses, Status
<1>5. Ids(inbox[s]) \subseteq Messages /\ \A m \in Ids(inbox[s]) : Status(m) = "queued" /\ receipts[m].session = s
  BY <1>1, <1>3, Holding DEF Homes
<1>6. Hand(s)' = Hand(s) \cup Ids(inbox[s])
  BY <1>2, <1>3, Joined DEF Hand
<1>7. InFlight(s)' = InFlight(s) \cup Ids(inbox[s])
  <2>1. None \notin Ids(inbox[s])
    BY <1>1, <1>5, Held
  <2> QED BY <1>2, <1>6, <2>1 DEF InFlight, Hand
<1>8. Types'
  <2>1. inbox' \in [Sessions -> Seq(Items)]
    BY <1>1, NoItems DEF Take
  <2> QED BY <1>1, <1>2, <1>4, <2>1 DEF Types, Take, Receipts
<1>9. Homes'
  <2>1. \A t \in Sessions : inbox'[t] = IF t = s THEN <<>> ELSE inbox[t]
    BY <1>1 DEF Take
  <2>2. \A t \in Sessions, m \in Messages : Lone(inbox'[t], m)
    BY <1>1, <2>1, NoItems DEF Homes
  <2>3. \A t \in Sessions, m \in Messages : m \in Ids(inbox'[t]) <=> Status(m)' = "queued" /\ receipts'[m].session = t
    BY <1>1, <1>4, <1>5, <2>1, NoItems DEF Homes
  <2>4. \A m \in Messages : Status(m)' = "none" <=> receipts'[m].session = None
    BY <1>1, <1>4, <1>5 DEF Homes
  <2> QED BY <2>2, <2>3, <2>4 DEF Homes
<1>10. Alone(s)
  BY <1>2, <1>4, <1>5 DEF Alone, Take
<1>11. Sound(s)'
  <2>1. Asleep(s)'
    <3>1. session[s] = "running"
      BY <1>1 DEF Sound, Asleep, Take, Off
    <3> QED BY <3>1 DEF Asleep, Take
  <2>2. Apart(s)'
    <3>1. \A m \in InFlight(s) : m \notin Ids(inbox[s])
      BY <1>1, <1>5 DEF Sound, Flying
    <3>2. \A m \in Messages : Lone(run'[s].hand, m)
      <4>1. \A m \in Messages : Lone(run[s].hand, m) /\ Lone(inbox[s], m)
        BY <1>1 DEF Homes, Sound, Apart
      <4>2. \A m \in Messages : ~(m \in Ids(run[s].hand) /\ m \in Ids(inbox[s]))
        BY <1>1, <3>1, Held DEF InFlight
      <4> QED BY <1>2, <1>3, <4>1, <4>2, Joined
    <3>3. None \notin Ids(inbox[s])
      BY <1>1, <1>5, Held
    <3>4. /\ run[s].worker \notin Ids(inbox[s]) /\ run[s].typing \notin Ids(inbox[s])
          /\ run[s].posted \cap Ids(inbox[s]) = {}
      BY <3>1, <3>3 DEF InFlight
    <3> QED BY <1>1, <1>2, <1>6, <3>2, <3>4 DEF Sound, Apart
  <2>3. Flying(s)'
    BY <1>1, <1>3, <1>4, <1>5, <1>7 DEF Sound, Flying
  <2>4. Busy(s)' /\ Steered(s)'
    BY <1>1, <1>2 DEF Sound, Busy, Steered, Take
  <2>5. Twice(s)'
    <3>1. \A m \in (Hand(s)' \cup {run'[s].worker, run'[s].typing}) \ {None} :
            m \in Messages /\ (m \in Ids(inbox[s]) \/ m \in (Hand(s) \cup {run[s].worker, run[s].typing}) \ {None})
      BY <1>2, <1>3, <1>5, <1>6 DEF InFlight, Hand
    <3>2. channel' = channel /\ Twice(s)
      BY <1>1 DEF Take, Sound
    <3> QED BY <1>2, <1>4, <3>1, <3>2 DEF Twice
  <2>6. Recalled(s)'
    BY <1>1, <1>2, <1>4, <1>7 DEF Sound, Recalled
  <2> QED BY <2>1, <2>2, <2>3, <2>4, <2>5, <2>6 DEF Sound
<1> QED BY <1>8, <1>9, <1>10, <1>11, SessionStep

\* A step of a supervisor or its program that leaves the queues alone.
Here(s) ==
    /\ run[s].on # "off" /\ run'[s].on = run[s].on
    /\ inbox' = inbox /\ session' = session /\ channel' = channel
    /\ \A t \in Sessions \ {s} : cli'[t] = cli[t]
    /\ \A m \in Messages :
         \/ receipts'[m] = receipts[m]
         \/ /\ receipts[m].session = s /\ receipts'[m].session = s
            /\ Status(m) \in {"taken", "posted"} /\ Status(m)' \in {"posted", "delivered"}

\* What leaves the supervisor is settled.
Leaves(s) ==
    /\ InFlight(s)' \subseteq InFlight(s)
    /\ \A m \in InFlight(s) \cup run[s].again :
          m \in InFlight(s)' \cup run'[s].again \/ Status(m)' \notin {"taken", "posted"}

LEMMA SupervisorStep ==
    ASSUME Base, NEW s \in Sessions, Elsewhere(s), Here(s), Types', Leaves(s),
           Apart(s)', Busy(s)', Steered(s)', Twice(s)'
    PROVE  Base'
<1>1. Types /\ Homes /\ Sound(s) /\ InFlight(s) \subseteq Messages
  BY Held DEF Base
<1>2. Settled
  BY DEF Settled, Here, Status
<1>3. Homes'
  BY <1>1, <1>2, SettledHomes DEF Here
<1>4. Alone(s)
  BY DEF Alone, Here
<1>5. session[s] = "running"
  BY <1>1 DEF Sound, Asleep, Here, Off
<1>6. Asleep(s)'
  BY <1>5 DEF Asleep, Here
<1>7. Flying(s)'
  BY <1>1, <1>2 DEF Sound, Flying, Leaves, Settled
<1>8. Recalled(s)'
  <2>1. run'[s].on = "on" => run[s].on = "on"
    BY DEF Here
  <2>2. \A m \in Messages : Status(m)' \in {"taken", "posted"} => Status(m) \in {"taken", "posted"}
    BY <1>2 DEF Settled
  <2> QED BY <1>1, <1>2, <2>1, <2>2 DEF Sound, Recalled, Leaves, Settled
<1> QED BY <1>3, <1>4, <1>6, <1>7, <1>8, SessionStep DEF Sound

\* A receipt stays as it is, or is settled by the supervisor of its session.
Settles(s) ==
    \A m \in Messages :
         \/ receipts'[m] = receipts[m]
         \/ /\ receipts[m].session = s /\ receipts'[m].session = s
            /\ Status(m) \in {"taken", "posted"} /\ Status(m)' \in {"posted", "delivered"}

LEMMA ReceiptsSettle ==
    ASSUME Types, NEW s \in Sessions, NEW ids,
           \/ receipts' = Acknowledged(receipts, s, ids)
           \/ receipts' = Posted(receipts, s, ids)
           \/ receipts' = receipts
    PROVE  Settles(s)
<1>1. receipts \in Receipts
  BY DEF Types, Receipts
<1>2. CASE receipts' = receipts
  BY <1>2 DEF Settles
<1>3. CASE receipts' = Acknowledged(receipts, s, ids)
  BY <1>1, <1>3 DEF Acknowledged, Settles, Receipts, Status
<1>4. CASE receipts' = Posted(receipts, s, ids)
  BY <1>1, <1>4 DEF Posted, Settles, Receipts, Status
<1> QED BY <1>2, <1>3, <1>4

\* The first message in hand and the others.
LEMMA TipAndRest ==
    ASSUME Base, NEW s \in Sessions, run[s].hand # <<>>
    PROVE  /\ Tip(s).id \in Messages /\ Tip(s) \in Range(run[s].hand)
           /\ Hand(s) = {Tip(s).id} \cup Ids(Tail(run[s].hand)) /\ Tip(s).id \notin Ids(Tail(run[s].hand))
           /\ \A m \in Messages : Lone(Tail(run[s].hand), m)
<1>1. run[s].hand \in Seq(Items) /\ \A m \in Messages : Lone(run[s].hand, m)
  BY Held DEF Base, Sound, Apart
<1>2. Tip(s).id \in Messages
  BY <1>1, HeadAndTail DEF Tip, Items
<1> QED BY <1>1, <1>2, HeadAndTail DEF Tip, Hand

LEMMA SubmitKeeps ==
    ASSUME Base, NEW s \in Sessions, Submit(s)
    PROVE  Base'
<1>1. Types /\ Sound(s) /\ InFlight(s) \subseteq Messages /\ Hand(s) \subseteq Messages /\ None \notin Messages
  BY Held DEF Base
<1>2. /\ run' \in [Sessions -> Run] /\ Elsewhere(s)
      /\ run'[s].hand = Tail(run[s].hand)
      /\ run'[s].worker = IF Current(Tip(s).id) THEN Tip(s).id ELSE None
      /\ run'[s].step = IF Current(Tip(s).id) THEN "check" ELSE "idle"
      /\ run'[s].on = run[s].on /\ run'[s].result = run[s].result
      /\ run'[s].typing = run[s].typing /\ run'[s].posted = run[s].posted
      /\ run'[s].dropped = run[s].dropped /\ run'[s].again = run[s].again
  BY <1>1, SubmitRun
<1>3. /\ run[s].on = "on" /\ run[s].hand # <<>> /\ run[s].worker = None /\ run[s].result = "none"
      /\ UNCHANGED <<receipts, inbox, session, cli, seen, read, pulled, channel, doubted, troubles>>
  BY DEF Submit, MayWrite
<1>4. PICK m \in Messages : m = Tip(s).id
  BY <1>3, TipAndRest
<1>5. /\ Hand(s) = {m} \cup Hand(s)' /\ m \notin Hand(s)' /\ \A x \in Messages : Lone(run'[s].hand, x)
  BY <1>2, <1>3, <1>4, TipAndRest DEF Hand
<1>6. InFlight(s) = ({m} \cup Hand(s)' \cup {run[s].typing} \cup run[s].posted) \ {None}
  BY <1>1, <1>3, <1>5 DEF InFlight, Hand
<1>7. InFlight(s)' = (Hand(s)' \cup {run'[s].worker, run[s].typing} \cup run[s].posted) \ {None}
  BY <1>2 DEF InFlight, Hand
<1>8. Types'
  BY <1>1, <1>2, <1>3 DEF Types
<1>9. Here(s)
  BY <1>2, <1>3 DEF Here
<1>10. Leaves(s)
  <2>1. ~Current(m) => Status(m)' \notin {"taken", "posted"}
    BY <1>3 DEF Current, Status
  <2>2. run'[s].worker = m \/ (run'[s].worker = None /\ ~Current(m))
    BY <1>2, <1>4
  <2>3. run'[s].again = run[s].again /\ None \notin Messages
    BY <1>1, <1>2
  <2> QED BY <1>6, <1>7, <2>1, <2>2, <2>3 DEF Leaves
<1>11. Apart(s)'
  <2>1. run'[s].worker \in {m, None} /\ m # run[s].typing /\ m \notin run[s].posted
    BY <1>1, <1>2, <1>3, <1>4, <1>5 DEF Sound, Apart
  <2>2. /\ run[s].typing # None => run[s].typing \notin Hand(s)
        /\ run[s].posted \cap (Hand(s) \cup {None, run[s].typing}) = {}
    BY <1>1, <1>3 DEF Sound, Apart
  <2>3. /\ \A x \in Messages : Lone(run'[s].hand, x)
        /\ run'[s].worker # None => run'[s].worker \notin Hand(s)' \cup {run'[s].typing}
    BY <1>2, <1>5, <2>1
  <2>4. run'[s].typing # None => run'[s].typing \notin Hand(s)'
    BY <1>2, <1>5, <2>2
  <2>5. run'[s].posted \cap (Hand(s)' \cup {run'[s].worker, run'[s].typing}) = {}
    BY <1>2, <1>5, <2>1, <2>2
  <2> QED BY <2>3, <2>4, <2>5 DEF Apart
<1>12. Busy(s)' /\ Steered(s)'
  BY <1>1, <1>2, <1>3, <1>4 DEF Sound, Busy, Steered
<1>13. Twice(s)'
  BY <1>1, <1>2, <1>3, <1>4, <1>5 DEF Sound, Twice, Status
<1> QED BY <1>2, <1>8, <1>9, <1>10, <1>11, <1>12, <1>13, SupervisorStep

\* A step that moves no message.
Unmoved(s) ==
    /\ run'[s].hand = run[s].hand /\ run'[s].worker = run[s].worker /\ run'[s].typing = run[s].typing
    /\ run'[s].posted = run[s].posted /\ run'[s].again = run[s].again /\ run'[s].on = run[s].on
    /\ UNCHANGED <<receipts, inbox, session, channel>> /\ run[s].on # "off"

LEMMA UnmovedKeeps ==
    ASSUME Base, NEW s \in Sessions, Elsewhere(s), Unmoved(s), Types', Busy(s)', Steered(s)',
           \A t \in Sessions \ {s} : cli'[t] = cli[t]
    PROVE  Base'
<1>1. Sound(s)
  BY DEF Base
<1>2. InFlight(s)' = InFlight(s) /\ Hand(s)' = Hand(s)
  BY DEF Unmoved, InFlight, Hand
<1>3. Here(s)
  BY DEF Unmoved, Here
<1>4. Leaves(s)
  <2>1. run'[s].again = run[s].again
    BY DEF Unmoved
  <2> QED BY <1>2, <2>1 DEF Leaves
<1>5. Apart(s)'
  BY <1>1, <1>2 DEF Sound, Apart, Unmoved
<1>6. Twice(s)'
  BY <1>1, <1>2 DEF Sound, Twice, Unmoved, Status
<1> QED BY <1>3, <1>4, <1>5, <1>6, SupervisorStep

LEMMA MenuGoneKeeps ==
    ASSUME Base, NEW s \in Sessions, MenuGone(s)
    PROVE  Base'
<1>1. Types /\ Sound(s)
  BY DEF Base
<1>2. /\ run' \in [Sessions -> Run] /\ Elsewhere(s) /\ run'[s].on = run[s].on /\ run'[s].hand = run[s].hand
      /\ run'[s].worker = run[s].worker /\ run'[s].step = run[s].step /\ run'[s].result = run[s].result
      /\ run'[s].typing = run[s].typing /\ run'[s].posted = run[s].posted
      /\ run'[s].dropped = run[s].dropped /\ run'[s].again = run[s].again
  BY <1>1, MenuGoneRun
<1>3. UNCHANGED <<receipts, inbox, session, cli, seen, read, pulled, channel, doubted, troubles>> /\ run[s].on = "on"
  BY DEF MenuGone
<1>4. Types' /\ Unmoved(s) /\ Busy(s)' /\ Steered(s)'
  BY <1>1, <1>2, <1>3 DEF Types, Unmoved, Sound, Busy, Steered
<1> QED BY <1>2, <1>3, <1>4, UnmovedKeeps

LEMMA CliReadsKeeps ==
    ASSUME Base, NEW s \in Sessions, CliReads(s)
    PROVE  Base'
<1>1. Types /\ Sound(s) /\ cli[s] \in Seq(Items) /\ cli[s] # <<>>
  BY Held DEF Base, CliReads
<1>2. UNCHANGED <<receipts, inbox, session, run, pulled, channel, doubted, troubles>> /\ run[s].on # "off"
  BY DEF CliReads
<1>3. Tail(cli[s]) \in Seq(Items) /\ Head(cli[s]).id \in Messages
  BY <1>1, HeadAndTail DEF Items
<1>4. Types'
  <2>1. cli' \in [Sessions -> Seq(Items)]
    BY <1>1, <1>3 DEF Types, CliReads
  <2>2. read' \in [Messages -> Nat]
    BY <1>1, <1>3 DEF Types, CliReads
  <2>3. seen' \in SUBSET Messages
    BY <1>1, <1>3 DEF Types, CliReads
  <2> QED BY <1>1, <1>2, <2>1, <2>2, <2>3 DEF Types
<1>5. Elsewhere(s) /\ Unmoved(s) /\ Busy(s)' /\ Steered(s)' /\ \A t \in Sessions \ {s} : cli'[t] = cli[t]
  <2>1. \A t \in Sessions \ {s} : cli'[t] = cli[t]
    BY <1>1 DEF Types, CliReads
  <2> QED BY <1>1, <1>2, <2>1 DEF Elsewhere, Unmoved, Sound, Busy, Steered
<1> QED BY <1>4, <1>5, UnmovedKeeps

LEMMA CliLosesKeeps ==
    ASSUME Base, NEW s \in Sessions, CliLoses(s)
    PROVE  Base'
<1>1. Types /\ Sound(s) /\ cli[s] \in Seq(Items) /\ cli[s] # <<>>
  BY Held DEF Base, CliLoses
<1>2. /\ run' \in [Sessions -> Run] /\ Elsewhere(s) /\ run'[s].on = run[s].on /\ run'[s].hand = run[s].hand
      /\ run'[s].worker = run[s].worker /\ run'[s].step = run[s].step /\ run'[s].result = run[s].result
      /\ run'[s].typing = run[s].typing /\ run'[s].posted = run[s].posted
      /\ run'[s].dropped = IF channel = "app-server" THEN run[s].dropped \cup {Head(cli[s]).id} ELSE run[s].dropped
      /\ run'[s].again = run[s].again
  BY <1>1, LosesRun
<1>3. /\ UNCHANGED <<receipts, inbox, session, seen, read, pulled, channel, doubted>> /\ run[s].on # "off"
      /\ cli' = [cli EXCEPT ![s] = Tail(@)] /\ troubles < MaxTroubles /\ troubles' = troubles + 1
  BY DEF CliLoses, Trouble
<1>4. Tail(cli[s]) \in Seq(Items)
  BY <1>1, HeadAndTail
<1>5. Types'
  <2>1. cli' \in [Sessions -> Seq(Items)]
    BY <1>1, <1>3, <1>4 DEF Types
  <2>2. troubles' \in 0..MaxTroubles
    BY <1>1, <1>3, InstructionsAssumption DEF Types
  <2> QED BY <1>1, <1>2, <1>3, <2>1, <2>2 DEF Types
<1>6. Unmoved(s) /\ Busy(s)' /\ Steered(s)' /\ \A t \in Sessions \ {s} : cli'[t] = cli[t]
  <2>1. \A t \in Sessions \ {s} : cli'[t] = cli[t]
    BY <1>1, <1>3 DEF Types
  <2>2. Steered(s)'
    BY <1>1, <1>2, <1>3 DEF Sound, Steered
  <2> QED BY <1>1, <1>2, <1>3, <2>1, <2>2 DEF Unmoved, Sound, Busy
<1> QED BY <1>2, <1>5, <1>6, UnmovedKeeps

LEMMA WorkerSendKeeps ==
    ASSUME Base, NEW s \in Sessions, WorkerSend(s)
    PROVE  Base'
<1>1. Types /\ Sound(s) /\ cli[s] \in Seq(Items) /\ run[s] \in Run
  BY Held DEF Base
<1>2. /\ run[s].on # "off" /\ run[s].step = "check"
      /\ UNCHANGED <<receipts, inbox, session, seen, read, pulled, channel>>
  BY DEF WorkerSend
<1>3. run[s].worker \in Messages
  BY <1>1, <1>2 DEF Sound, Busy, Run
<1>4. /\ run' \in [Sessions -> Run] /\ Elsewhere(s)
      /\ run'[s].on = run[s].on /\ run'[s].hand = run[s].hand
      /\ run'[s].worker = run[s].worker /\ run'[s].typing = run[s].typing
      /\ run'[s].posted = run[s].posted
      /\ run'[s].dropped = run[s].dropped /\ run'[s].again = run[s].again
      /\ run'[s].step = "idle" \/ run'[s].result = "none"
  <2>1. Answer(s, "delivered") \/ Answer(s, "not_ready") \/ Answer(s, "unconfirmed")
        \/ run' = [run EXCEPT ![s].step = "wait"]
    BY DEF WorkerSend
  <2>2. run[s].result = "none"
    BY <1>1, <1>2 DEF Sound, Busy
  <2> QED BY <1>1, <2>1, <2>2, AnswerRun, SentRun
<1>5. cli' = cli \/ cli' = [cli EXCEPT ![s] = Append(@, Item(run[s].worker, TRUE))]
  BY DEF WorkerSend
<1>6. doubted' \in SUBSET Messages /\ troubles' \in 0..MaxTroubles
  <2>1. doubted \in SUBSET Messages /\ troubles \in 0..MaxTroubles /\ MaxTroubles \in Nat
    BY <1>1, InstructionsAssumption DEF Types
  <2>2. doubted' = doubted \/ doubted' = doubted \cup {run[s].worker}
    BY DEF WorkerSend
  <2>3. troubles' = troubles \/ (troubles < MaxTroubles /\ troubles' = troubles + 1)
    BY DEF WorkerSend, Trouble
  <2> QED BY <1>3, <2>1, <2>2, <2>3
<1>7. Append(cli[s], Item(run[s].worker, TRUE)) \in Seq(Items)
  BY <1>1, <1>3, ItemIsItem, Appended
<1>8. cli' \in [Sessions -> Seq(Items)] /\ \A t \in Sessions \ {s} : cli'[t] = cli[t]
  BY <1>1, <1>5, <1>7 DEF Types
<1>9. Types'
  BY <1>1, <1>2, <1>4, <1>6, <1>8 DEF Types
<1>10. Unmoved(s) /\ Busy(s)' /\ Steered(s)'
  BY <1>1, <1>2, <1>3, <1>4, InstructionsAssumption DEF Unmoved, Sound, Busy, Steered
<1> QED BY <1>4, <1>8, <1>9, <1>10, UnmovedKeeps

LEMMA WorkerWaitKeeps ==
    ASSUME Base, NEW s \in Sessions, WorkerWait(s)
    PROVE  Base'
<1>1. Types /\ Sound(s) /\ run[s] \in Run
  BY Held DEF Base
<1>2. /\ run[s].on # "off" /\ run[s].step = "wait"
      /\ UNCHANGED <<receipts, inbox, session, cli, seen, read, pulled, channel, doubted, troubles>>
  BY DEF WorkerWait
<1>3. run[s].worker \in Messages
  BY <1>1, <1>2 DEF Sound, Busy, Run
<1>4. /\ run' \in [Sessions -> Run] /\ Elsewhere(s)
      /\ run'[s].on = run[s].on /\ run'[s].hand = run[s].hand
      /\ run'[s].worker = run[s].worker /\ run'[s].typing = run[s].typing
      /\ run'[s].posted = run[s].posted /\ run'[s].again = run[s].again
      /\ run'[s].dropped \subseteq run[s].dropped /\ run'[s].step = "idle"
  <2>1. CASE Answer(s, "delivered")
    BY <1>1, <2>1, AnswerRun
  <2>2. CASE run' = [run EXCEPT ![s].step = "idle", ![s].result = "dropped",
                                ![s].dropped = @ \ {run[s].worker}]
    <3>1. run'[s].dropped = run[s].dropped \ {run[s].worker}
      BY <1>1, <2>2, WaitDroppedRun
    <3> QED BY <1>1, <2>2, <3>1, WaitDroppedRun
  <2>3. CASE run' = [run EXCEPT ![s].step = "idle", ![s].result = "posted",
                                ![s].awaiting = @ \cup {run[s].worker}]
    BY <1>1, <1>3, <2>3, WaitPostedRun
  <2> QED BY <2>1, <2>2, <2>3 DEF WorkerWait
<1>5. Types'
  BY <1>1, <1>2, <1>4 DEF Types
<1>6. Unmoved(s) /\ Busy(s)' /\ Steered(s)'
  BY <1>1, <1>2, <1>3, <1>4, InstructionsAssumption DEF Unmoved, Sound, Busy, Steered
<1> QED BY <1>2, <1>4, <1>5, <1>6, UnmovedKeeps

\* What the supervisor holds is acknowledged or was not in flight.
LEMMA AcknowledgedIsSettled ==
    ASSUME Base, NEW s \in Sessions, NEW ids, NEW m \in InFlight(s), m \in ids,
           receipts' = Acknowledged(receipts, s, ids)
    PROVE  Status(m)' \notin {"taken", "posted"}
<1>1. Types /\ receipts[m].session = s /\ m \in Messages
  BY Held DEF Base, Sound, Flying
<1> QED BY <1>1, AcknowledgedReceipts

LEMMA TypeWriteKeeps ==
    ASSUME Base, NEW s \in Sessions, TypeWrite(s)
    PROVE  Base'
<1>1. Types /\ Sound(s) /\ InFlight(s) \subseteq Messages /\ Hand(s) \subseteq Messages /\ None \notin Messages
      /\ cli[s] \in Seq(Items)
  BY Held DEF Base
<1>2. /\ run' \in [Sessions -> Run] /\ Elsewhere(s)
      /\ run'[s].hand = Tail(run[s].hand)
      /\ run'[s].typing = IF Skips(s) THEN run[s].typing ELSE Tip(s).id
      /\ run'[s].on = run[s].on /\ run'[s].worker = run[s].worker
      /\ run'[s].step = run[s].step /\ run'[s].result = run[s].result
      /\ run'[s].posted = run[s].posted
      /\ run'[s].dropped = run[s].dropped /\ run'[s].again = run[s].again
  BY <1>1, TypeWriteRun
<1>3. /\ run[s].on = "on" /\ run[s].hand # <<>> /\ run[s].typing = None
      /\ UNCHANGED <<inbox, session, seen, read, pulled, channel, doubted, troubles>>
  BY DEF TypeWrite, MayWrite
<1>4. PICK m \in Messages : m = Tip(s).id
  BY <1>3, TipAndRest
<1>5. /\ Hand(s) = {m} \cup Hand(s)' /\ m \notin Hand(s)' /\ \A x \in Messages : Lone(run'[s].hand, x)
  BY <1>2, <1>3, <1>4, TipAndRest DEF Hand
<1>6. InFlight(s) = ({m} \cup Hand(s)' \cup {run[s].worker} \cup run[s].posted) \ {None}
  BY <1>1, <1>3, <1>5 DEF InFlight, Hand
<1>7. InFlight(s)' = (Hand(s)' \cup {run[s].worker, run'[s].typing} \cup run[s].posted) \ {None}
  BY <1>2 DEF InFlight, Hand
<1>8. run'[s].typing = (IF Skips(s) THEN None ELSE m) /\ m # None
  BY <1>1, <1>2, <1>3, <1>4
<1>9. /\ Skips(s) => cli' = cli
      /\ ~Skips(s) => cli' = [cli EXCEPT ![s] = Append(@, Item(m, channel = "hook"))]
      /\ receipts' = receipts \/ (receipts' = Acknowledged(receipts, s, {m}))
      /\ Skips(s) => receipts' = Acknowledged(receipts, s, {m}) \/ (receipts' = receipts /\ ~Current(m))
  <2>1. CASE Skips(s)
    <3>1. \/ receipts' = Acknowledged(receipts, s, {m}) /\ cli' = cli
          \/ receipts' = receipts /\ ~Current(m) /\ cli' = cli
      BY <1>4, <2>1 DEF TypeWrite, Skips
    <3> QED BY <2>1, <3>1
  <2>2. CASE ~Skips(s)
    <3>1. receipts' = receipts /\ cli' = [cli EXCEPT ![s] = Append(@, Item(m, channel = "hook"))]
      BY <1>4, <2>2 DEF TypeWrite, Skips
    <3> QED BY <2>2, <3>1
  <2> QED BY <2>1, <2>2
<1>10. cli' \in [Sessions -> Seq(Items)] /\ \A t \in Sessions \ {s} : cli'[t] = cli[t]
  <2>1. PICK b \in BOOLEAN : b = (channel = "hook")
    OBVIOUS
  <2>2. Append(cli[s], Item(m, b)) \in Seq(Items)
    BY <1>1, ItemIsItem, Appended
  <2> QED BY ZenonT(40), <1>1, <1>9, <2>1, <2>2 DEF Types
<1>11. Settles(s) /\ receipts' \in Receipts
  <2>1. receipts' \in Receipts
    BY <1>1, <1>9, AcknowledgedReceipts, Held
  <2> QED BY <1>1, <1>9, <2>1, ReceiptsSettle
<1>12. Types'
  BY <1>1, <1>2, <1>3, <1>10, <1>11 DEF Types, Receipts
<1>13. Here(s)
  BY <1>2, <1>3, <1>10, <1>11 DEF Here, Settles
<1>14. Leaves(s)
  <2>1. Skips(s) => Status(m)' \notin {"taken", "posted"}
    <3>1. m \in InFlight(s)
      BY <1>1, <1>6
    <3>2. CASE receipts' = Acknowledged(receipts, s, {m})
      BY <3>1, <3>2, AcknowledgedIsSettled
    <3>3. CASE receipts' = receipts /\ ~Current(m)
      BY <3>3 DEF Current, Status
    <3> QED BY <1>9, <3>2, <3>3
  <2>2. run'[s].again = run[s].again
    BY <1>2
  <2> QED BY <1>6, <1>7, <1>8, <2>1, <2>2 DEF Leaves
<1>15. Apart(s)'
  <2>1. /\ run[s].worker # None => run[s].worker \notin Hand(s) \cup {None}
        /\ run[s].posted \cap (Hand(s) \cup {run[s].worker, None}) = {}
    BY <1>1, <1>3 DEF Sound, Apart
  <2>2. run'[s].typing \in {m, None}
    BY <1>8
  <2>3. \A x \in Messages : Lone(run'[s].hand, x)
    BY <1>5
  <2>4. run'[s].worker # None => run'[s].worker \notin Hand(s)' \cup {run'[s].typing}
    BY <1>2, <1>5, <2>1, <2>2
  <2>5. run'[s].typing # None => run'[s].typing \notin Hand(s)'
    BY <1>5, <2>2
  <2>6. run'[s].posted \cap (Hand(s)' \cup {run'[s].worker, run'[s].typing}) = {}
    BY <1>2, <1>5, <2>1, <2>2
  <2> QED BY <2>3, <2>4, <2>5, <2>6 DEF Apart
<1>16. Busy(s)' /\ Steered(s)'
  BY <1>1, <1>2, <1>3 DEF Sound, Busy, Steered
<1>17. Twice(s)'
  <2>1. (Hand(s)' \cup {run'[s].worker, run'[s].typing}) \ {None}
           \subseteq (Hand(s) \cup {run[s].worker, run[s].typing}) \ {None}
    BY <1>2, <1>5, <1>8
  <2>2. \A x \in Messages : Status(x)' = "posted" => Status(x) = "posted"
    <3>1. CASE receipts' = receipts
      BY <3>1 DEF Status
    <3>2. CASE receipts' = Acknowledged(receipts, s, {m})
      BY <1>1, <3>2, AcknowledgedReceipts
    <3> QED BY <1>9, <3>1, <3>2
  <2>3. \A x \in (Hand(s) \cup {run[s].worker, run[s].typing}) \ {None} : x \in Messages
    BY <1>1 DEF InFlight, Hand
  <2>4. Twice(s) /\ channel' = channel /\ run'[s].again = run[s].again
    BY <1>1, <1>2, <1>3 DEF Sound
  <2> QED BY <2>1, <2>2, <2>3, <2>4 DEF Twice
<1> QED BY <1>2, <1>12, <1>13, <1>14, <1>15, <1>16, <1>17, SupervisorStep

LEMMA TypeRecordKeeps ==
    ASSUME Base, NEW s \in Sessions, TypeRecord(s)
    PROVE  Base'
<1>1. Types /\ Sound(s) /\ InFlight(s) \subseteq Messages /\ None \notin Messages
  BY Held DEF Base
<1>2. /\ run' \in [Sessions -> Run] /\ Elsewhere(s)
      /\ run'[s].typing = None
      /\ run'[s].posted = IF channel = "hook" THEN run[s].posted \cup {run[s].typing} ELSE run[s].posted
      /\ run'[s].on = run[s].on /\ run'[s].hand = run[s].hand
      /\ run'[s].worker = run[s].worker
      /\ run'[s].step = run[s].step /\ run'[s].result = run[s].result
      /\ run'[s].dropped = run[s].dropped /\ run'[s].again = run[s].again
  BY <1>1, TypeRecordRun
<1>3. /\ run[s].on = "on" /\ run[s].typing # None
      /\ UNCHANGED <<inbox, session, cli, seen, read, pulled, channel, doubted, troubles>>
  BY DEF TypeRecord
<1>4. PICK m \in Messages : m = run[s].typing
  BY <1>1, <1>3 DEF InFlight
<1>5. /\ channel = "hook" => receipts' = Posted(receipts, s, {m})
      /\ channel # "hook" => receipts' = Acknowledged(receipts, s, {m})
  BY <1>4 DEF TypeRecord
<1>6. Settles(s) /\ receipts' \in Receipts
  BY <1>1, <1>5, AcknowledgedReceipts, PostedReceipts, ReceiptsSettle
<1>7. Types'
  BY <1>1, <1>2, <1>3, <1>6 DEF Types, Receipts
<1>8. Here(s)
  BY <1>2, <1>3, <1>6 DEF Here, Settles
<1>9. Hand(s)' = Hand(s)
  BY <1>2 DEF Hand
<1>10. Leaves(s)
  <2>1. InFlight(s) = (Hand(s) \cup {run[s].worker, m} \cup run[s].posted) \ {None}
    BY <1>4 DEF InFlight, Hand
  <2>2. InFlight(s)' = (Hand(s) \cup {run[s].worker, None} \cup run'[s].posted) \ {None}
    BY <1>2, <1>9 DEF InFlight, Hand
  <2>3. channel # "hook" => Status(m)' \notin {"taken", "posted"}
    BY <1>1, <1>5, <2>1, AcknowledgedIsSettled
  <2>4. run'[s].again = run[s].again /\ m # None
        /\ run'[s].posted = IF channel = "hook" THEN run[s].posted \cup {m} ELSE run[s].posted
    BY <1>1, <1>2, <1>4
  <2>5. InFlight(s)' \subseteq InFlight(s)
    BY <2>1, <2>2, <2>4
  <2>6. \A x \in InFlight(s) : x \in InFlight(s)' \/ (x = m /\ channel # "hook")
    BY <2>1, <2>2, <2>4
  <2> QED BY <2>3, <2>4, <2>5, <2>6 DEF Leaves
<1>11. Apart(s)'
  <2>1. /\ run[s].worker # None => run[s].worker \notin Hand(s) \cup {m}
        /\ m \notin Hand(s) /\ m # None
        /\ run[s].posted \cap (Hand(s) \cup {run[s].worker, m}) = {}
        /\ \A x \in Messages : Lone(run'[s].hand, x)
    BY <1>1, <1>2, <1>3, <1>4 DEF Sound, Apart
  <2>2. run'[s].posted = run[s].posted \cup {m} \/ run'[s].posted = run[s].posted
    BY <1>2, <1>4
  <2>3. None \notin run'[s].posted
    BY <1>2, <1>1 DEF Run
  <2>4. run'[s].posted \cap (Hand(s) \cup {run[s].worker, None}) = {}
    BY <2>1, <2>2, <2>3
  <2> QED BY <1>1, <1>2, <1>9, <2>1, <2>4 DEF Apart
<1>12. Busy(s)' /\ Steered(s)'
  BY <1>1, <1>2, <1>3 DEF Sound, Busy, Steered
<1>13. Twice(s)'
  <2>1. ASSUME NEW x \in (Hand(s) \cup {run[s].worker}) \ {None}, Status(x)' = "posted"
        PROVE  x \in run[s].again \/ channel = "app-server"
    <3>1. x \in Messages /\ x # m
      BY <1>1, <1>4 DEF Sound, Apart, InFlight, Hand
    <3>2. Status(x) = "posted"
      BY <1>1, <1>5, <2>1, <3>1, AcknowledgedReceipts, PostedReceipts
    <3> QED BY <1>1, <2>1, <3>2 DEF Sound, Twice
  <2>2. channel' = channel /\ run'[s].again = run[s].again /\ run'[s].worker = run[s].worker /\ run'[s].typing = None
    BY <1>2, <1>3
  <2> QED BY <1>9, <2>1, <2>2 DEF Twice
<1> QED BY <1>2, <1>7, <1>8, <1>10, <1>11, <1>12, <1>13, SupervisorStep

\* A message comes back to the front of the hand.
LEMMA BackInHand ==
    ASSUME Base, NEW s \in Sessions, NEW m \in Messages, m \notin Hand(s), NEW b \in BOOLEAN,
           run'[s].hand = <<Item(m, b)>> \o run[s].hand
    PROVE  Hand(s)' = Hand(s) \cup {m} /\ \A x \in Messages : Lone(run'[s].hand, x)
<1>1. run[s].hand \in Seq(Items) /\ \A x \in Messages : Lone(run[s].hand, x)
  BY Held DEF Base, Sound, Apart
<1>2. PICK q : q = <<Item(m, b)>>
  OBVIOUS
<1>3. q \in Seq(Items) /\ Ids(q) = {m} /\ \A x : Lone(q, x)
  BY <1>2, OneItem
<1>4. \A x \in Messages : ~(x \in Ids(q) /\ x \in Ids(run[s].hand))
  BY <1>3 DEF Hand
<1>5. Ids(q \o run[s].hand) = {m} \cup Hand(s)
  BY <1>1, <1>3, Joined DEF Hand
<1>6. \A x \in Messages : Lone(q \o run[s].hand, x)
  BY <1>1, <1>3, <1>4, Joined
<1> QED BY <1>2, <1>5, <1>6 DEF Hand

LEMMA DeliveredKeeps ==
    ASSUME Base, NEW s \in Sessions, TakeOutcome(s), run[s].result = "delivered"
    PROVE  Base'
<1>1. Types /\ Sound(s) /\ InFlight(s) \subseteq Messages /\ None \notin Messages
  BY Held DEF Base
<1>2. /\ run' \in [Sessions -> Run] /\ Elsewhere(s)
      /\ run'[s].worker = None /\ run'[s].result = "none"
      /\ run'[s].on = run[s].on /\ run'[s].hand = run[s].hand
      /\ run'[s].step = run[s].step /\ run'[s].typing = run[s].typing
      /\ run'[s].posted = run[s].posted
      /\ run'[s].dropped = run[s].dropped /\ run'[s].again = run[s].again
  BY <1>1, DeliveredRun
<1>3. /\ run[s].on = "on"
      /\ receipts' = Acknowledged(receipts, s, {run[s].worker})
      /\ UNCHANGED <<inbox, session, cli, seen, read, pulled, channel, doubted, troubles>>
  BY DEF TakeOutcome
<1>4. PICK m \in Messages : m = run[s].worker
  BY <1>1 DEF InFlight, Sound, Busy
<1>5. receipts' = Acknowledged(receipts, s, {m})
  BY <1>3, <1>4
<1>6. Settles(s) /\ receipts' \in Receipts
  BY <1>1, <1>5, AcknowledgedReceipts, ReceiptsSettle
<1>7. Types'
  BY <1>1, <1>2, <1>3, <1>6 DEF Types, Receipts
<1>8. Here(s)
  BY <1>2, <1>3, <1>6 DEF Here, Settles
<1>9. Hand(s)' = Hand(s)
  BY <1>2 DEF Hand
<1>10. Leaves(s)
  <2>1. InFlight(s) = (Hand(s) \cup {m, run[s].typing} \cup run[s].posted) \ {None}
    BY <1>4 DEF InFlight, Hand
  <2>2. InFlight(s)' = (Hand(s) \cup {None, run[s].typing} \cup run[s].posted) \ {None}
    BY <1>2, <1>9 DEF InFlight, Hand
  <2>3. Status(m)' \notin {"taken", "posted"}
    BY <1>1, <1>5, <2>1, AcknowledgedIsSettled
  <2>4. run'[s].again = run[s].again
    BY <1>2
  <2> QED BY <2>1, <2>2, <2>3, <2>4 DEF Leaves
<1>11. Apart(s)'
  <2>1. /\ run[s].typing # None => run[s].typing \notin Hand(s)
        /\ run[s].posted \cap (Hand(s) \cup {run[s].typing}) = {}
        /\ \A x \in Messages : Lone(run'[s].hand, x)
    BY <1>1, <1>2 DEF Sound, Apart
  <2>2. None \notin run[s].posted
    <3>1. run[s] \in Run
      BY <1>1, Held
    <3> QED BY <1>1, <3>1 DEF Run
  <2>3. run'[s].posted \cap (Hand(s)' \cup {run'[s].worker, run'[s].typing}) = {}
    BY <1>2, <1>9, <2>1, <2>2
  <2> QED BY <1>2, <1>9, <2>1, <2>3 DEF Apart
<1>12. Busy(s)' /\ Steered(s)'
  BY <1>1, <1>2, <1>3 DEF Sound, Busy, Steered
<1>13. Twice(s)'
  <2>1. \A x \in Messages : Status(x)' = "posted" => Status(x) = "posted"
    BY <1>1, <1>5, AcknowledgedReceipts
  <2>2. (Hand(s)' \cup {run'[s].worker, run'[s].typing}) \ {None}
           \subseteq (Hand(s) \cup {run[s].worker, run[s].typing}) \ {None}
    BY <1>2, <1>9
  <2>3. \A x \in (Hand(s) \cup {run[s].worker, run[s].typing}) \ {None} : x \in Messages
    BY <1>1 DEF InFlight, Hand
  <2>4. Twice(s) /\ channel' = channel /\ run'[s].again = run[s].again
    BY <1>1, <1>2, <1>3 DEF Sound
  <2> QED BY <2>1, <2>2, <2>3, <2>4 DEF Twice
<1> QED BY <1>2, <1>7, <1>8, <1>10, <1>11, <1>12, <1>13, SupervisorStep

LEMMA AcceptedKeeps ==
    ASSUME Base, NEW s \in Sessions, TakeOutcome(s), run[s].result = "posted"
    PROVE  Base'
<1>1. Types /\ Sound(s) /\ InFlight(s) \subseteq Messages /\ None \notin Messages
  BY Held DEF Base
<1>2. PICK m \in Messages : m = run[s].worker
  BY <1>1 DEF InFlight, Sound, Busy
<1>3. /\ run' \in [Sessions -> Run] /\ Elsewhere(s)
      /\ run'[s].worker = None /\ run'[s].result = "none"
      /\ run'[s].posted = run[s].posted \cup {m}
      /\ run'[s].on = run[s].on /\ run'[s].hand = run[s].hand
      /\ run'[s].step = run[s].step /\ run'[s].typing = run[s].typing
      /\ run'[s].dropped = run[s].dropped /\ run'[s].again = run[s].again
  BY <1>1, <1>2, AcceptedRun
<1>4. /\ run[s].on = "on"
      /\ receipts' = Posted(receipts, s, {run[s].worker})
      /\ UNCHANGED <<inbox, session, cli, seen, read, pulled, channel, doubted, troubles>>
  BY DEF TakeOutcome
<1>5. receipts' = Posted(receipts, s, {m})
  BY <1>2, <1>4
<1>6. Settles(s) /\ receipts' \in Receipts
  BY <1>1, <1>5, PostedReceipts, ReceiptsSettle
<1>7. Types'
  BY <1>1, <1>3, <1>4, <1>6 DEF Types, Receipts
<1>8. Here(s)
  BY <1>3, <1>4, <1>6 DEF Here, Settles
<1>9. Hand(s)' = Hand(s)
  BY <1>3 DEF Hand
<1>10. Leaves(s)
  <2>1. InFlight(s) = (Hand(s) \cup {m, run[s].typing} \cup run[s].posted) \ {None}
    BY <1>2 DEF InFlight, Hand
  <2>2. InFlight(s)' = (Hand(s) \cup {None, run[s].typing} \cup run[s].posted \cup {m}) \ {None}
    BY <1>3, <1>9 DEF InFlight, Hand
  <2>3. InFlight(s)' = InFlight(s)
    BY <2>1, <2>2
  <2>4. run'[s].again = run[s].again
    BY <1>3
  <2> QED BY <2>3, <2>4 DEF Leaves
<1>11. m \notin Hand(s) \cup {run[s].typing}
  BY <1>1, <1>2 DEF Sound, Apart
<1>12. Apart(s)'
  <2>1. /\ run[s].typing # None => run[s].typing \notin Hand(s)
        /\ run[s].posted \cap (Hand(s) \cup {run[s].typing}) = {}
        /\ \A x \in Messages : Lone(run'[s].hand, x)
    BY <1>1, <1>3 DEF Sound, Apart
  <2>2. None \notin run'[s].posted
    <3>1. run'[s] \in Run
      BY <1>3
    <3> QED BY <1>1, <3>1 DEF Run
  <2>3. run'[s].posted \cap (Hand(s)' \cup {run'[s].worker, run'[s].typing}) = {}
    BY <1>3, <1>9, <1>11, <2>1, <2>2
  <2> QED BY <1>3, <1>9, <2>1, <2>3 DEF Apart
<1>13. Busy(s)' /\ Steered(s)'
  BY <1>1, <1>3, <1>4 DEF Sound, Busy, Steered
<1>14. Twice(s)'
  <2>1. ASSUME NEW x \in (Hand(s) \cup {run[s].typing}) \ {None}, Status(x)' = "posted"
        PROVE  x \in run[s].again \/ channel = "app-server"
    <3>1. x \in Messages /\ x # m
      BY <1>1, <1>11 DEF InFlight, Hand
    <3>2. Status(x) = "posted"
      BY <1>1, <1>5, <2>1, <3>1, PostedReceipts
    <3> QED BY <1>1, <2>1, <3>2 DEF Sound, Twice
  <2>2. channel' = channel /\ run'[s].again = run[s].again /\ run'[s].worker = None /\ run'[s].typing = run[s].typing
    BY <1>3, <1>4
  <2> QED BY <1>9, <2>1, <2>2 DEF Twice
<1> QED BY <1>3, <1>7, <1>8, <1>10, <1>12, <1>13, <1>14, SupervisorStep

LEMMA ReturnedKeeps ==
    ASSUME Base, NEW s \in Sessions, TakeOutcome(s), run[s].result \in {"dropped", "not_ready", "unconfirmed"}
    PROVE  Base'
<1>1. Types /\ Sound(s) /\ InFlight(s) \subseteq Messages /\ None \notin Messages
  BY Held DEF Base
<1>2. PICK m \in Messages : m = run[s].worker
  BY <1>1 DEF InFlight, Sound, Busy
<1>3. PICK b \in BOOLEAN : b = (run[s].result # "not_ready")
  OBVIOUS
<1>4. /\ run' \in [Sessions -> Run] /\ Elsewhere(s)
      /\ run'[s].worker = None /\ run'[s].result = "none"
      /\ run'[s].hand = <<Item(m, b)>> \o run[s].hand
      /\ run'[s].on = run[s].on /\ run'[s].step = run[s].step
      /\ run'[s].typing = run[s].typing /\ run'[s].posted = run[s].posted
      /\ run'[s].dropped = run[s].dropped /\ run'[s].again = run[s].again
  BY <1>1, <1>2, <1>3, ReturnedRun
<1>5. /\ run[s].on = "on"
      /\ UNCHANGED <<receipts, inbox, session, cli, seen, read, pulled, channel, doubted, troubles>>
  BY DEF TakeOutcome
<1>6. m \notin Hand(s) \cup {run[s].typing}
  BY <1>1, <1>2 DEF Sound, Apart
<1>7. Hand(s)' = Hand(s) \cup {m} /\ \A x \in Messages : Lone(run'[s].hand, x)
  BY <1>4, <1>6, BackInHand
<1>8. Types'
  BY <1>1, <1>4, <1>5 DEF Types
<1>9. Here(s)
  BY <1>4, <1>5 DEF Here
<1>10. Leaves(s)
  <2>1. InFlight(s) = (Hand(s) \cup {m, run[s].typing} \cup run[s].posted) \ {None}
    BY <1>2 DEF InFlight, Hand
  <2>2. InFlight(s)' = (Hand(s) \cup {m} \cup {None, run[s].typing} \cup run[s].posted) \ {None}
    BY <1>4, <1>7 DEF InFlight, Hand
  <2>3. InFlight(s)' = InFlight(s)
    BY <2>1, <2>2
  <2>4. run'[s].again = run[s].again
    BY <1>4
  <2> QED BY <2>3, <2>4 DEF Leaves
<1>11. Apart(s)'
  <2>1. /\ run[s].typing # None => run[s].typing \notin Hand(s)
        /\ run[s].posted \cap (Hand(s) \cup {m, run[s].typing}) = {}
    BY <1>1, <1>2 DEF Sound, Apart
  <2>2. None \notin run[s].posted
    <3>1. run[s] \in Run
      BY <1>1, Held
    <3> QED BY <1>1, <3>1 DEF Run
  <2>3. run'[s].posted \cap (Hand(s)' \cup {run'[s].worker, run'[s].typing}) = {}
    BY <1>4, <1>7, <2>1, <2>2
  <2>4. run'[s].typing # None => run'[s].typing \notin Hand(s)'
    BY <1>4, <1>6, <1>7, <2>1
  <2> QED BY <1>4, <1>7, <2>3, <2>4 DEF Apart
<1>12. Busy(s)' /\ Steered(s)'
  BY <1>1, <1>4, <1>5 DEF Sound, Busy, Steered
<1>13. Twice(s)'
  <2>1. (Hand(s)' \cup {run'[s].worker, run'[s].typing}) \ {None}
           \subseteq (Hand(s) \cup {run[s].worker, run[s].typing}) \ {None}
    BY <1>2, <1>4, <1>7
  <2>2. Twice(s) /\ channel' = channel /\ run'[s].again = run[s].again /\ receipts' = receipts
    BY <1>1, <1>4, <1>5 DEF Sound
  <2> QED BY <2>1, <2>2 DEF Twice, Status
<1> QED BY <1>4, <1>8, <1>9, <1>10, <1>11, <1>12, <1>13, SupervisorStep

\* _stage3_tick
LEMMA TakeOutcomeKeeps ==
    ASSUME Base, NEW s \in Sessions, TakeOutcome(s)
    PROVE  Base'
<1>1. run[s] \in Run /\ run[s].result # "none"
  BY Held DEF Base, TakeOutcome
<1>2. run[s].result \in {"delivered", "posted", "dropped", "not_ready", "unconfirmed"}
  BY <1>1 DEF Run
<1> QED BY <1>2, DeliveredKeeps, AcceptedKeeps, ReturnedKeeps

\* take_receipts
LEMMA ReceiptSeenKeeps ==
    ASSUME Base, NEW s \in Sessions, ReceiptSeen(s)
    PROVE  Base'
<1>1. Types /\ Sound(s) /\ InFlight(s) \subseteq Messages /\ None \notin Messages
  BY Held DEF Base
<1>2. PICK came : came = run[s].awaiting \cap seen
  OBVIOUS
<1>3. /\ run' \in [Sessions -> Run] /\ Elsewhere(s)
      /\ run'[s].posted = run[s].posted \ came
      /\ run'[s].on = run[s].on /\ run'[s].hand = run[s].hand
      /\ run'[s].worker = run[s].worker
      /\ run'[s].step = run[s].step /\ run'[s].result = run[s].result
      /\ run'[s].typing = run[s].typing /\ run'[s].dropped = run[s].dropped
      /\ run'[s].again = run[s].again
  BY <1>1, <1>2, ReceiptSeenRun
<1>4. /\ run[s].on = "on"
      /\ receipts' = Acknowledged(receipts, s, came)
      /\ UNCHANGED <<inbox, session, cli, seen, read, pulled, channel, doubted, troubles>>
  BY <1>2 DEF ReceiptSeen
<1>5. Settles(s) /\ receipts' \in Receipts
  BY <1>1, <1>4, AcknowledgedReceipts, ReceiptsSettle
<1>6. Types'
  BY <1>1, <1>3, <1>4, <1>5 DEF Types, Receipts
<1>7. Here(s)
  BY <1>3, <1>4, <1>5 DEF Here, Settles
<1>8. Hand(s)' = Hand(s)
  BY <1>3 DEF Hand
<1>9. Leaves(s)
  <2>1. InFlight(s) = (Hand(s) \cup {run[s].worker, run[s].typing} \cup run[s].posted) \ {None}
    BY DEF InFlight, Hand
  <2>2. InFlight(s)' = (Hand(s) \cup {run[s].worker, run[s].typing} \cup (run[s].posted \ came)) \ {None}
    BY <1>3, <1>8 DEF InFlight, Hand
  <2>3. \A m \in InFlight(s) : m \in came => Status(m)' \notin {"taken", "posted"}
    BY <1>4, AcknowledgedIsSettled
  <2>4. run'[s].again = run[s].again
    BY <1>3
  <2>5. InFlight(s)' \subseteq InFlight(s) /\ \A m \in InFlight(s) : m \in InFlight(s)' \/ m \in came
    BY <2>1, <2>2
  <2> QED BY <2>3, <2>4, <2>5 DEF Leaves
<1>10. Apart(s)' /\ Busy(s)' /\ Steered(s)'
  <2>1. Apart(s)'
    BY <1>1, <1>3, <1>8 DEF Sound, Apart
  <2>2. Busy(s)' /\ Steered(s)'
    BY <1>1, <1>3, <1>4 DEF Sound, Busy, Steered
  <2> QED BY <2>1, <2>2
<1>11. Twice(s)'
  <2>1. \A x \in Messages : Status(x)' = "posted" => Status(x) = "posted"
    BY <1>1, <1>4, AcknowledgedReceipts
  <2>2. (Hand(s)' \cup {run'[s].worker, run'[s].typing}) = (Hand(s) \cup {run[s].worker, run[s].typing})
    BY <1>3, <1>8
  <2>3. \A x \in (Hand(s) \cup {run[s].worker, run[s].typing}) \ {None} : x \in Messages
    BY <1>1 DEF InFlight, Hand
  <2>4. Twice(s) /\ channel' = channel /\ run'[s].again = run[s].again
    BY <1>1, <1>3, <1>4 DEF Sound
  <2> QED BY <2>1, <2>2, <2>3, <2>4 DEF Twice
<1> QED BY <1>3, <1>6, <1>7, <1>9, <1>10, <1>11, SupervisorStep

\* A receipt that is overdue.
LEMMA OverdueIsLate ==
    ASSUME NEW s \in Sessions, ReceiptOverdue(s)
    PROVE  \E m \in run[s].posted, back \in BOOLEAN :
             /\ back = (channel = "hook" /\ m \notin run[s].again)
             /\ LateRun(s, m, back)
             /\ receipts' = IF channel = "hook" THEN receipts ELSE Acknowledged(receipts, s, {m})
             /\ doubted' = IF back /\ m \in Given(s) THEN doubted \cup {m} ELSE doubted
             /\ m \notin seen
             /\ troubles' = troubles \/ (troubles < MaxTroubles /\ troubles' = troubles + 1)
<1>1. PICK m \in (run[s].awaiting \cap run[s].posted) \ seen :
       /\ run' = [run EXCEPT ![s] =
             IF channel = "hook" /\ m \notin run[s].again
             THEN [[run[s] EXCEPT !.awaiting = @ \ {m}, !.posted = @ \ {m},
                                  !.failures = @ + 1, !.fallback = @ \/ Fell(run[s].failures + 1)]
                     EXCEPT !.hand = <<Item(m, TRUE)>> \o @, !.again = @ \cup {m}]
             ELSE [run[s] EXCEPT !.awaiting = @ \ {m}, !.posted = @ \ {m},
                                 !.failures = @ + 1, !.fallback = @ \/ Fell(run[s].failures + 1)]]
       /\ receipts' = IF channel = "hook" THEN receipts ELSE Acknowledged(receipts, s, {m})
       /\ doubted' = IF (channel = "hook" /\ m \notin run[s].again) /\ m \in Given(s)
                     THEN doubted \cup {m} ELSE doubted
       /\ troubles' = troubles \/ (troubles < MaxTroubles /\ troubles' = troubles + 1)
  BY Zenon DEF ReceiptOverdue, Trouble
<1>2. PICK back \in BOOLEAN : back = (channel = "hook" /\ m \notin run[s].again)
  OBVIOUS
<1>3. LateRun(s, m, back)
  BY <1>1, <1>2 DEF LateRun
<1> QED BY <1>1, <1>2, <1>3

LEMMA ReceiptOverdueKeeps ==
    ASSUME Base, NEW s \in Sessions, ReceiptOverdue(s)
    PROVE  Base'
<1>1. Types /\ Sound(s) /\ InFlight(s) \subseteq Messages /\ Hand(s) \subseteq Messages
      /\ None \notin Messages /\ run[s] \in Run
  BY Held DEF Base
<1>2. PICK m \in run[s].posted, back \in BOOLEAN :
         /\ back = (channel = "hook" /\ m \notin run[s].again)
         /\ LateRun(s, m, back)
         /\ receipts' = IF channel = "hook" THEN receipts ELSE Acknowledged(receipts, s, {m})
         /\ doubted' = doubted \/ doubted' = doubted \cup {m}
         /\ troubles' = troubles \/ (troubles < MaxTroubles /\ troubles' = troubles + 1)
  BY OverdueIsLate
<1>3. /\ run[s].on = "on" /\ channel # "app-server"
      /\ UNCHANGED <<inbox, session, cli, seen, read, pulled, channel>>
  BY DEF ReceiptOverdue
<1>4. /\ run' \in [Sessions -> Run] /\ Elsewhere(s)
      /\ run'[s].hand = IF back THEN <<Item(m, TRUE)>> \o run[s].hand ELSE run[s].hand
      /\ run'[s].posted = run[s].posted \ {m}
      /\ run'[s].again = IF back THEN run[s].again \cup {m} ELSE run[s].again
      /\ run'[s].on = run[s].on /\ run'[s].worker = run[s].worker
      /\ run'[s].step = run[s].step
      /\ run'[s].result = run[s].result /\ run'[s].typing = run[s].typing
      /\ run'[s].dropped = run[s].dropped
  BY <1>1, <1>2, OverdueRun
<1>5. m \in Messages /\ m \in InFlight(s) /\ m \notin Hand(s) \cup {run[s].worker, run[s].typing}
  BY <1>1 DEF Run, InFlight, Sound, Apart
<1>6. /\ Hand(s)' = IF back THEN Hand(s) \cup {m} ELSE Hand(s)
      /\ \A x \in Messages : Lone(run'[s].hand, x)
  <2>1. CASE back
    BY <1>4, <1>5, <2>1, BackInHand
  <2>2. CASE ~back
    BY <1>1, <1>4, <2>2 DEF Sound, Apart, Hand
  <2> QED BY <2>1, <2>2
<1>7. receipts' = receipts \/ receipts' = Acknowledged(receipts, s, {m})
  BY <1>2
<1>8. Settles(s) /\ receipts' \in Receipts
  BY <1>1, <1>7, AcknowledgedReceipts, ReceiptsSettle, Held
<1>9. Types'
  <2>1. doubted' \in SUBSET Messages
    BY <1>1, <1>2, <1>5 DEF Types
  <2>2. troubles' \in 0..MaxTroubles
    BY <1>1, <1>2, InstructionsAssumption DEF Types
  <2> QED BY <1>1, <1>3, <1>4, <1>8, <2>1, <2>2 DEF Types, Receipts
<1>10. Here(s)
  BY <1>3, <1>4, <1>8 DEF Here, Settles
<1>11. Leaves(s)
  <2>1. InFlight(s) = (Hand(s) \cup {run[s].worker, run[s].typing} \cup run[s].posted) \ {None}
    BY DEF InFlight, Hand
  <2>2. InFlight(s)' = (Hand(s)' \cup {run[s].worker, run[s].typing} \cup (run[s].posted \ {m})) \ {None}
    BY <1>4 DEF InFlight, Hand
  <2>3. /\ InFlight(s)' \subseteq InFlight(s)
        /\ \A x \in InFlight(s) : x \in InFlight(s)' \/ x = m
        /\ back => m \in InFlight(s)'
    BY <1>1, <1>5, <1>6, <2>1, <2>2
  <2>4. ~back => m \in run[s].again \/ Status(m)' \notin {"taken", "posted"}
    BY <1>2, <1>5, AcknowledgedIsSettled
  <2>5. run[s].again \subseteq run'[s].again
    BY <1>4
  <2> QED BY <2>3, <2>4, <2>5 DEF Leaves
<1>12. Apart(s)'
  <2>1. /\ run[s].worker # None => run[s].worker \notin Hand(s) \cup {run[s].typing}
        /\ run[s].typing # None => run[s].typing \notin Hand(s)
        /\ run[s].posted \cap (Hand(s) \cup {run[s].worker, run[s].typing}) = {}
    BY <1>1 DEF Sound, Apart
  <2>2. run'[s].posted \cap (Hand(s)' \cup {run'[s].worker, run'[s].typing}) = {}
    BY <1>4, <1>6, <2>1
  <2> QED BY <1>4, <1>5, <1>6, <2>1, <2>2 DEF Apart
<1>13. Busy(s)' /\ Steered(s)'
  BY <1>1, <1>3, <1>4 DEF Sound, Busy, Steered
<1>14. Twice(s)'
  <2>1. \A x \in Messages : Status(x)' = "posted" => Status(x) = "posted"
    <3>1. CASE receipts' = receipts
      BY <3>1 DEF Status
    <3>2. CASE receipts' = Acknowledged(receipts, s, {m})
      BY <1>1, <3>2, AcknowledgedReceipts
    <3> QED BY <1>7, <3>1, <3>2
  <2>2. \A x \in (Hand(s)' \cup {run'[s].worker, run'[s].typing}) \ {None} :
           \/ x \in (Hand(s) \cup {run[s].worker, run[s].typing}) \ {None}
           \/ x = m /\ back
    BY <1>4, <1>6
  <2>3. \A x \in (Hand(s) \cup {run[s].worker, run[s].typing}) \ {None} : x \in Messages
    BY <1>1 DEF InFlight, Hand
  <2>4. Twice(s) /\ channel' = channel /\ run[s].again \subseteq run'[s].again /\ (back => m \in run'[s].again)
    BY <1>1, <1>3, <1>4 DEF Sound
  <2> QED BY <2>1, <2>2, <2>3, <2>4 DEF Twice
<1> QED BY <1>4, <1>9, <1>10, <1>11, <1>12, <1>13, <1>14, SupervisorStep

\* take_dropped
LEMMA TakeDroppedKeeps ==
    ASSUME Base, NEW s \in Sessions, TakeDropped(s)
    PROVE  Base'
<1>1. Types /\ Sound(s) /\ InFlight(s) \subseteq Messages /\ None \notin Messages /\ run[s] \in Run
  BY Held DEF Base
<1>2. PICK m \in run[s].dropped \cap run[s].posted :
         run' = [run EXCEPT ![s].hand = <<Item(m, TRUE)>> \o @, ![s].dropped = @ \ {m},
                            ![s].posted = @ \ {m}, ![s].awaiting = @ \ {m}]
  BY DEF TakeDropped
<1>3. /\ run[s].on = "on"
      /\ UNCHANGED <<receipts, inbox, session, cli, seen, read, pulled, channel, doubted, troubles>>
  BY DEF TakeDropped
<1>4. /\ run' \in [Sessions -> Run] /\ Elsewhere(s)
      /\ run'[s].hand = <<Item(m, TRUE)>> \o run[s].hand
      /\ run'[s].posted = run[s].posted \ {m}
      /\ run'[s].dropped = run[s].dropped \ {m}
      /\ run'[s].on = run[s].on /\ run'[s].worker = run[s].worker
      /\ run'[s].step = run[s].step
      /\ run'[s].result = run[s].result /\ run'[s].typing = run[s].typing
      /\ run'[s].again = run[s].again
  BY ZenonT(40), <1>1, <1>2, DroppedRun
<1>5. m \in Messages /\ m \in InFlight(s) /\ m \notin Hand(s) \cup {run[s].worker, run[s].typing}
      /\ channel = "app-server"
  BY <1>1, <1>2 DEF Run, InFlight, Sound, Apart, Steered
<1>6. Hand(s)' = Hand(s) \cup {m} /\ \A x \in Messages : Lone(run'[s].hand, x)
  BY <1>4, <1>5, BackInHand
<1>7. Types' /\ Here(s)
  BY <1>1, <1>3, <1>4 DEF Types, Here
<1>8. Leaves(s)
  <2>1. InFlight(s) = (Hand(s) \cup {run[s].worker, run[s].typing} \cup run[s].posted) \ {None}
    BY DEF InFlight, Hand
  <2>2. InFlight(s)' = (Hand(s) \cup {m} \cup {run[s].worker, run[s].typing} \cup (run[s].posted \ {m})) \ {None}
    BY <1>4, <1>6 DEF InFlight, Hand
  <2>3. InFlight(s)' = InFlight(s) /\ run'[s].again = run[s].again
    BY <1>4, <1>5, <2>1, <2>2
  <2> QED BY <2>3 DEF Leaves
<1>9. Apart(s)'
  <2>1. /\ run[s].worker # None => run[s].worker \notin Hand(s) \cup {run[s].typing}
        /\ run[s].typing # None => run[s].typing \notin Hand(s)
        /\ run[s].posted \cap (Hand(s) \cup {run[s].worker, run[s].typing}) = {}
    BY <1>1 DEF Sound, Apart
  <2>2. run'[s].posted \cap (Hand(s)' \cup {run'[s].worker, run'[s].typing}) = {}
    BY <1>4, <1>6, <2>1
  <2> QED BY <1>4, <1>5, <1>6, <2>1, <2>2 DEF Apart
<1>10. Busy(s)' /\ Steered(s)' /\ Twice(s)'
  BY <1>1, <1>3, <1>4, <1>5 DEF Sound, Busy, Steered, Twice
<1> QED BY <1>4, <1>6, <1>7, <1>8, <1>9, <1>10, SupervisorStep

\* enqueue_instruction
LEMMA EnqueueKeeps ==
    ASSUME Base, NEW s \in Sessions, NEW m \in Messages, Enqueue(m, s)
    PROVE  Base'
<1>1. Types /\ Homes /\ Sound(s) /\ InFlight(s) \subseteq Messages /\ inbox[s] \in Seq(Items)
      /\ receipts \in Receipts /\ None \notin Sessions
  BY Held DEF Base
<1>2. /\ Status(m) = "none" /\ receipts' = [receipts EXCEPT ![m] = [status |-> "queued", session |-> s]]
      /\ inbox' = [inbox EXCEPT ![s] = Append(@, Item(m, FALSE))]
      /\ UNCHANGED <<session, run, cli, seen, read, pulled, channel, doubted, troubles>>
  BY DEF Enqueue
<1>3. PICK x : x = Item(m, FALSE)
  OBVIOUS
<1>4. x \in Items /\ x.id = m
  BY <1>3, ItemIsItem
<1>5. \A t \in Sessions : m \notin Ids(inbox[t])
  BY <1>1, <1>2 DEF Homes
<1>6. /\ Append(inbox[s], x) \in Seq(Items) /\ Ids(Append(inbox[s], x)) = Ids(inbox[s]) \cup {m}
      /\ \A y \in Messages : Lone(Append(inbox[s], x), y)
  <2>1. \A y \in Messages : Lone(inbox[s], y)
    BY <1>1 DEF Homes
  <2> QED BY <1>1, <1>4, <1>5, <2>1, Appended
<1>7. \A t \in Sessions : inbox'[t] = IF t = s THEN Append(inbox[s], x) ELSE inbox[t]
  BY <1>1, <1>2, <1>3 DEF Types
<1>8. receipts' \in Receipts /\ receipts'[m].status = "queued" /\ receipts'[m].session = s
      /\ \A y \in Messages \ {m} : receipts'[y] = receipts[y]
  BY <1>1, <1>2 DEF Receipts, Statuses
<1>9. Types'
  <2>1. inbox' \in [Sessions -> Seq(Items)]
    BY <1>1, <1>2, <1>3, <1>6 DEF Types
  <2> QED BY <1>1, <1>2, <1>8, <2>1 DEF Types, Receipts
<1>10. Homes'
  <2>1. \A t \in Sessions, y \in Messages : Lone(inbox'[t], y)
    BY <1>1, <1>6, <1>7 DEF Homes
  <2>2. \A t \in Sessions, y \in Messages : y \in Ids(inbox'[t]) <=> Status(y)' = "queued" /\ receipts'[y].session = t
    <3>1. \A t \in Sessions, y \in Messages : y \in Ids(inbox[t]) <=> Status(y) = "queued" /\ receipts[y].session = t
      BY <1>1 DEF Homes
    <3>2. \A t \in Sessions : Ids(inbox'[t]) = IF t = s THEN Ids(inbox[s]) \cup {m} ELSE Ids(inbox[t])
      BY <1>6, <1>7
    <3> QED BY <1>5, <1>8, <3>1, <3>2 DEF Status
  <2>3. \A y \in Messages : Status(y)' = "none" <=> receipts'[y].session = None
    BY <1>1, <1>8 DEF Homes, Status
  <2> QED BY <2>1, <2>2, <2>3 DEF Homes
<1>11. Alone(s)
  BY <1>1, <1>2, <1>8 DEF Alone, Elsewhere, Homes
<1>12. Sound(s)'
  <2>1. \A y \in InFlight(s) : receipts'[y] = receipts[y]
    <3>1. receipts[m].session = None
      BY <1>1, <1>2 DEF Homes
    <3> QED BY <1>1, <1>8, <3>1 DEF Sound, Flying
  <2>2. InFlight(s)' = InFlight(s) /\ Hand(s)' = Hand(s)
    BY <1>2 DEF InFlight, Hand
  <2>3. Asleep(s)' /\ Apart(s)' /\ Busy(s)' /\ Steered(s)'
    BY <1>1, <1>2, <2>2 DEF Sound, Asleep, Apart, Busy, Steered
  <2>4. Flying(s)'
    BY <1>1, <2>1, <2>2 DEF Sound, Flying, Status
  <2>5. Twice(s)'
    <3>1. (Hand(s) \cup {run[s].worker, run[s].typing}) \ {None} \subseteq InFlight(s)
      BY DEF Hand, InFlight
    <3> QED BY <1>1, <1>2, <2>1, <2>2, <3>1 DEF Sound, Twice, Status
  <2>6. Recalled(s)'
    BY <1>1, <1>2, <1>8, <2>2 DEF Sound, Recalled, Status
  <2> QED BY <2>3, <2>4, <2>5, <2>6 DEF Sound
<1> QED BY <1>9, <1>10, <1>11, <1>12, SessionStep

\* A message that is taken back leaves the queue it stands in.
LEMMA TakenBackKeeps ==
    ASSUME Base, NEW m \in Messages, receipts' \in Receipts, UNCHANGED <<session, run, cli, channel>>,
           \A x \in Messages \ {m} : receipts'[x] = receipts[x],
           receipts'[m].session = receipts[m].session,
           \/ receipts'[m] = receipts[m]
           \/ Status(m) \in {"queued", "taken"} /\ Status(m)' \in {"withdrawn", "discarded"},
           Status(m)' # "queued",
           inbox' = [inbox EXCEPT ![receipts[m].session] = Drop(@, m)]
    PROVE  inbox' \in [Sessions -> Seq(Items)] /\ Homes' /\ \A t \in Sessions : Sound(t)'
<1>1. Types /\ Homes /\ inbox \in [Sessions -> Seq(Items)]
  BY DEF Base, Types
<1>2. \A t \in Sessions : inbox'[t] = IF t = receipts[m].session THEN Drop(inbox[t], m) ELSE inbox[t]
  BY <1>1
<1>3. \A t \in Sessions : /\ Drop(inbox[t], m) \in Seq(Items) /\ Ids(Drop(inbox[t], m)) = Ids(inbox[t]) \ {m}
                          /\ \A x \in Messages : Lone(inbox[t], x) => Lone(Drop(inbox[t], m), x)
  <2>1. \A t \in Sessions : inbox[t] \in Seq(Items)
    BY <1>1
  <2> QED BY <2>1, DropItems
<1>4. inbox' \in [Sessions -> Seq(Items)]
  BY <1>1, <1>2, <1>3
<1>5. Homes'
  <2>1. \A t \in Sessions, x \in Messages : Lone(inbox'[t], x)
    BY <1>1, <1>2, <1>3 DEF Homes
  <2>2. \A t \in Sessions, x \in Messages : x \in Ids(inbox'[t]) <=> Status(x)' = "queued" /\ receipts'[x].session = t
    <3>1. \A t \in Sessions, x \in Messages : x \in Ids(inbox[t]) <=> Status(x) = "queued" /\ receipts[x].session = t
      BY <1>1 DEF Homes
    <3>2. \A t \in Sessions : Ids(inbox'[t]) = Ids(inbox[t]) \ {m}
      BY <1>2, <1>3, <3>1
    <3> QED BY <3>1, <3>2 DEF Status
  <2>3. \A x \in Messages : Status(x)' = "none" <=> receipts'[x].session = None
    BY <1>1 DEF Homes, Status
  <2> QED BY <2>1, <2>2, <2>3 DEF Homes
<1>6. ASSUME NEW t \in Sessions PROVE Sound(t)'
  <2>1. Sound(t) /\ InFlight(t) \subseteq Messages
    BY <1>1, Held DEF Base
  <2>2. InFlight(t)' = InFlight(t) /\ Hand(t)' = Hand(t)
    BY DEF InFlight, Hand
  <2>3. Asleep(t)' /\ Apart(t)' /\ Busy(t)' /\ Steered(t)'
    BY <2>1, <2>2 DEF Sound, Asleep, Apart, Busy, Steered
  <2>4. \A x \in Messages : /\ receipts'[x].session = receipts[x].session
                            /\ Status(x)' = "queued" => Status(x) = "queued"
                            /\ Status(x)' \in {"taken", "posted"} => Status(x)' = Status(x)
    BY DEF Status
  <2>5. Flying(t)'
    BY <2>1, <2>2, <2>4 DEF Sound, Flying
  <2>6. Twice(t)'
    <3>1. (Hand(t) \cup {run[t].worker, run[t].typing}) \ {None} \subseteq Messages
      BY <2>1 DEF InFlight, Hand
    <3> QED BY <2>1, <2>2, <2>4, <3>1 DEF Sound, Twice
  <2>7. Recalled(t)'
    BY <2>1, <2>2, <2>4 DEF Sound, Recalled
  <2> QED BY <2>3, <2>5, <2>6, <2>7 DEF Sound
<1> QED BY <1>4, <1>5, <1>6

\* discard_instruction, of whatever the wake is now.
LEMMA DiscardedKeeps ==
    ASSUME Base, NEW m \in Messages, Discarded(m), UNCHANGED <<session, run, cli, channel>>
    PROVE  /\ receipts' \in Receipts /\ inbox' \in [Sessions -> Seq(Items)]
           /\ Homes' /\ \A t \in Sessions : Sound(t)'
<1>1. Types /\ receipts \in Receipts
  BY DEF Base, Types, Receipts
<1>2. receipts' \in Receipts
  BY <1>1 DEF Discarded, Receipts, Statuses, Closed
<1>3. \A x \in Messages \ {m} : receipts'[x] = receipts[x]
  BY <1>1 DEF Discarded, Receipts
<1>4. /\ receipts'[m].session = receipts[m].session
      /\ \/ receipts'[m] = receipts[m]
         \/ Status(m) \in {"queued", "taken"} /\ Status(m)' \in {"withdrawn", "discarded"}
      /\ Status(m)' # "queued"
  BY <1>1 DEF Discarded, Receipts, Status
<1>5. inbox' = [inbox EXCEPT ![receipts[m].session] = Drop(@, m)]
  BY DEF Discarded
<1> QED BY <1>2, <1>3, <1>4, <1>5, TakenBackKeeps

LEMMA DiscardKeeps ==
    ASSUME Base, NEW m \in Messages, Discard(m)
    PROVE  Base'
<1>1. Types /\ UNCHANGED <<session, run, cli, seen, read, channel, doubted, troubles>> /\ Discarded(m)
      /\ pulled' = pulled \ {m}
  BY DEF Base, Discard
<1>2. /\ receipts' \in Receipts /\ inbox' \in [Sessions -> Seq(Items)]
      /\ Homes' /\ \A t \in Sessions : Sound(t)'
  BY <1>1, DiscardedKeeps
<1>3. Types'
  BY <1>1, <1>2 DEF Types, Receipts
<1> QED BY <1>2, <1>3 DEF Base

LEMMA InvalidateKeeps ==
    ASSUME Base, NEW m \in Messages, Invalidate(m)
    PROVE  Base'
<1>1. Types /\ UNCHANGED <<session, run, cli, seen, read, pulled, channel, doubted>> /\ Discarded(m)
      /\ troubles < MaxTroubles /\ troubles' = troubles + 1
  BY DEF Base, Invalidate, Trouble
<1>2. /\ receipts' \in Receipts /\ inbox' \in [Sessions -> Seq(Items)]
      /\ Homes' /\ \A t \in Sessions : Sound(t)'
  BY <1>1, DiscardedKeeps
<1>3. Types'
  <2>1. troubles' \in 0..MaxTroubles
    BY <1>1, InstructionsAssumption DEF Types
  <2> QED BY <1>1, <1>2, <2>1 DEF Types, Receipts
<1> QED BY <1>2, <1>3 DEF Base

LEMMA WithdrawKeeps ==
    ASSUME Base, NEW m \in Messages, Withdraw(m)
    PROVE  Base'
<1>1. /\ Types /\ receipts \in Receipts /\ inbox \in [Sessions -> Seq(Items)]
      /\ UNCHANGED <<session, run, cli, seen, read, channel, doubted>>
      /\ troubles < MaxTroubles /\ troubles' = troubles + 1 /\ m \in Wakes
  BY DEF Base, Withdraw, Trouble, Types, Receipts
<1>2. troubles' \in 0..MaxTroubles
  BY <1>1, InstructionsAssumption DEF Types
<1>3. CASE Status(m) = "queued"
  <2>1. /\ receipts' = [receipts EXCEPT ![m].status = "withdrawn"] /\ pulled' = pulled
        /\ inbox' = [inbox EXCEPT ![receipts[m].session] = Drop(@, m)]
    BY <1>3 DEF Withdraw
  <2>2. /\ receipts' \in Receipts /\ receipts'[m].session = receipts[m].session
        /\ Status(m)' = "withdrawn" /\ \A x \in Messages \ {m} : receipts'[x] = receipts[x]
    BY <1>1, <2>1 DEF Receipts, Status, Statuses, Closed
  <2>3. inbox' \in [Sessions -> Seq(Items)] /\ Homes' /\ \A t \in Sessions : Sound(t)'
    BY <1>1, <1>3, <2>1, <2>2, TakenBackKeeps
  <2>4. Types'
    BY <1>1, <1>2, <2>1, <2>2, <2>3 DEF Types, Receipts
  <2> QED BY <2>3, <2>4 DEF Base
<1>4. CASE Status(m) # "queued"
  <2>1. UNCHANGED <<receipts, inbox>> /\ pulled' \in SUBSET Wakes
    BY <1>1, <1>4 DEF Withdraw, Types
  <2>2. Types' /\ Homes'
    BY <1>1, <1>2, <2>1 DEF Types, Base, Homes, Status
  <2>3. ASSUME NEW t \in Sessions PROVE Sound(t)'
    BY <1>1, <2>1 DEF Base, Sound, Asleep, Apart, Flying, Busy, Steered, Twice, Recalled, InFlight, Hand, Status
  <2> QED BY <2>2, <2>3 DEF Base
<1> QED BY <1>3, <1>4

\* return_instructions.  A posted message in hand is not put back: the hand may
\* be given up when the run ends, or when no message can be steered.
LEMMA ReturnKeeps ==
    ASSUME Base, NEW s \in Sessions, run[s].on = "on",
           receipts' = Requeued(Returnable(run[s].hand)),
           inbox' = [inbox EXCEPT ![s] = Returnable(run[s].hand) \o @],
           run' \in [Sessions -> Run], Elsewhere(s), run'[s].hand = <<>>,
           run'[s].worker = run[s].worker, run'[s].step = run[s].step, run'[s].result = run[s].result,
           run'[s].typing = run[s].typing, run'[s].posted = run[s].posted,
           run'[s].dropped = run[s].dropped, run'[s].again = run[s].again,
           run'[s].on = "on" => channel # "app-server" \/ "menu" \in Kinds["app-server"],
           UNCHANGED <<session, seen, read, pulled, channel, doubted>>,
           cli' \in [Sessions -> Seq(Items)], \A t \in Sessions \ {s} : cli'[t] = cli[t],
           troubles' \in 0..MaxTroubles
    PROVE  Base'
<1>1. Types /\ Homes /\ Sound(s) /\ InFlight(s) \subseteq Messages /\ run[s].hand \in Seq(Items)
      /\ inbox[s] \in Seq(Items) /\ inbox \in [Sessions -> Seq(Items)] /\ run[s] \in Run
      /\ None \notin Messages /\ Hand(s) \subseteq Messages
  BY Held DEF Base, Types
<1>2. PICK back : back = Returnable(run[s].hand)
  OBVIOUS
<1>3. /\ back \in Seq(Items) /\ Ids(back) = {m \in Hand(s) : Status(m) = "taken"}
      /\ \A m \in Messages : Lone(back, m)
  <2>1. \A m \in Messages : Lone(run[s].hand, m)
    BY <1>1 DEF Sound, Apart
  <2> QED BY <1>1, <1>2, <2>1, ReturnableItems DEF Hand
<1>4. /\ receipts' \in Receipts
      /\ \A m \in Messages :
           /\ receipts'[m].session = receipts[m].session
           /\ Status(m)' = IF m \in Ids(back) THEN "queued" ELSE Status(m)
  BY <1>1, <1>2, RequeuedReceipts
<1>5. \A m \in Messages : m \notin Ids(back) => receipts'[m] = receipts[m]
  BY <1>2 DEF Requeued
<1>6. \A m \in Ids(back) : m \in Messages /\ m \in InFlight(s) /\ receipts[m].session = s /\ Status(m) = "taken"
  <2>1. \A m \in Hand(s) : m \in Messages /\ m \in InFlight(s)
    BY <1>1 DEF InFlight, Hand
  <2> QED BY <1>1, <1>3, <2>1 DEF Sound, Flying
<1>7. /\ back \o inbox[s] \in Seq(Items) /\ Ids(back \o inbox[s]) = Ids(back) \cup Ids(inbox[s])
      /\ \A m \in Messages : Lone(back \o inbox[s], m)
  <2>1. \A m \in Messages : Lone(inbox[s], m) /\ ~(m \in Ids(back) /\ m \in Ids(inbox[s]))
    BY <1>1, <1>6 DEF Homes
  <2> QED BY <1>1, <1>3, <2>1, Joined
<1>8. \A t \in Sessions : inbox'[t] = IF t = s THEN back \o inbox[s] ELSE inbox[t]
  BY <1>1, <1>2
<1>9. Types'
  <2>1. inbox' \in [Sessions -> Seq(Items)]
    BY <1>1, <1>2, <1>7
  <2> QED BY <1>1, <1>4, <2>1 DEF Types, Receipts
<1>10. Homes'
  <2>1. \A t \in Sessions, m \in Messages : Lone(inbox'[t], m)
    BY <1>1, <1>7, <1>8 DEF Homes
  <2>2. \A t \in Sessions, m \in Messages : m \in Ids(inbox'[t]) <=> Status(m)' = "queued" /\ receipts'[m].session = t
    <3>1. \A t \in Sessions, m \in Messages : m \in Ids(inbox[t]) <=> Status(m) = "queued" /\ receipts[m].session = t
      BY <1>1 DEF Homes
    <3>2. \A t \in Sessions : Ids(inbox'[t]) = IF t = s THEN Ids(back) \cup Ids(inbox[s]) ELSE Ids(inbox[t])
      <4>1. Ids(inbox'[s]) = Ids(back) \cup Ids(inbox[s])
        BY <1>7, <1>8, Zenon
      <4>2. \A t \in Sessions \ {s} : Ids(inbox'[t]) = Ids(inbox[t])
        BY <1>8
      <4> QED BY <4>1, <4>2
    <3>3. ASSUME NEW t \in Sessions, NEW m \in Messages
          PROVE  m \in Ids(inbox'[t]) <=> Status(m)' = "queued" /\ receipts'[m].session = t
      <4>1. CASE m \in Ids(back)
        <5>1. Status(m)' = "queued" /\ receipts'[m].session = s /\ Status(m) = "taken"
          BY <1>4, <1>6, <4>1
        <5> QED BY <3>1, <3>2, <4>1, <5>1
      <4>2. CASE m \notin Ids(back)
        <5>1. Status(m)' = Status(m) /\ receipts'[m].session = receipts[m].session
          BY <1>4, <4>2
        <5> QED BY <3>1, <3>2, <4>2, <5>1
      <4> QED BY <4>1, <4>2
    <3> QED BY <3>3
  <2>3. ASSUME NEW m \in Messages PROVE Status(m)' = "none" <=> receipts'[m].session = None
    <3>1. Status(m) = "none" <=> receipts[m].session = None
      BY <1>1 DEF Homes
    <3>2. /\ receipts'[m].session = receipts[m].session
          /\ Status(m)' = Status(m) \/ (Status(m) = "taken" /\ Status(m)' = "queued")
      BY <1>4, <1>6
    <3> QED BY <3>1, <3>2
  <2> QED BY <2>1, <2>2, <2>3 DEF Homes
<1>11. Alone(s)
  BY <1>4, <1>5, <1>6 DEF Alone
<1>12. Hand(s)' = {}
  BY NoItems DEF Hand
<1>13. InFlight(s)' = ({run[s].worker, run[s].typing} \cup run[s].posted) \ {None}
  BY <1>12 DEF InFlight, Hand
<1>14. InFlight(s)' \cap Hand(s) = {}
  BY <1>1, <1>13 DEF Sound, Apart
<1>15. Sound(s)'
  <2>1. Asleep(s)'
    <3>1. session[s] = "running"
      BY <1>1 DEF Sound, Asleep, Off
    <3> QED BY <3>1 DEF Asleep
  <2>2. Apart(s)'
    <3>1. \A m \in Messages : Lone(run'[s].hand, m)
      BY NoItems
    <3>2. /\ run[s].worker # None => run[s].worker # run[s].typing
          /\ run[s].posted \cap {run[s].worker, run[s].typing} = {}
      BY <1>1 DEF Sound, Apart
    <3> QED BY <1>12, <3>1, <3>2 DEF Apart
  <2>3. Flying(s)'
    <3>1. \A m \in InFlight(s)' : m \in Messages /\ m \in InFlight(s) /\ m \notin Ids(back)
      BY <1>1, <1>3, <1>13, <1>14 DEF InFlight
    <3> QED BY <1>1, <1>4, <3>1 DEF Sound, Flying
  <2>4. Busy(s)' /\ Steered(s)'
    BY <1>1 DEF Sound, Busy, Steered
  <2>5. Twice(s)'
    <3>1. \A m \in {run[s].worker, run[s].typing} \ {None} : m \in Messages
      BY <1>1 DEF InFlight
    <3>2. \A m \in Messages : Status(m)' = "posted" => Status(m) = "posted"
      BY <1>4
    <3> QED BY <1>1, <1>12, <3>1, <3>2 DEF Sound, Twice
  <2>6. Recalled(s)'
    <3>1. ASSUME NEW m \in Messages, "menu" \notin Kinds["app-server"], run'[s].on = "on", receipts'[m].session = s, Status(m)' \in {"taken", "posted"}
          PROVE  m \in InFlight(s)' \cup run'[s].again
      <4>1. Status(m)' = Status(m) /\ m \notin Ids(back) /\ receipts[m].session = s
        BY <1>4, <3>1
      <4>2. m \in InFlight(s) \cup run[s].again
        BY <1>1, <3>1, <4>1 DEF Sound, Recalled
      <4>3. m \in Hand(s) => Status(m) = "posted"
        BY <1>3, <3>1, <4>1
      <4>4. m \in Hand(s) /\ m # None => m \in run[s].again
        BY <1>1, <3>1, <4>3 DEF Sound, Twice
      <4>5. m \in Hand(s) \/ m \in InFlight(s)' \/ m \in run[s].again
        BY <1>13, <4>2 DEF InFlight, Hand
      <4> QED BY <1>1, <4>4, <4>5
    <3> QED BY <3>1 DEF Recalled
  <2> QED BY <2>1, <2>2, <2>3, <2>4, <2>5, <2>6 DEF Sound
<1> QED BY <1>9, <1>10, <1>11, <1>15, SessionStep

LEMMA MenuShowsKeeps ==
    ASSUME Base, NEW s \in Sessions, MenuShows(s)
    PROVE  Base'
<1>1. Types
  BY DEF Base
<1>2. /\ run[s].on = "on" /\ troubles < MaxTroubles /\ troubles' = troubles + 1
      /\ receipts' = Requeued(Returnable(run[s].hand))
      /\ inbox' = [inbox EXCEPT ![s] = Returnable(run[s].hand) \o @]
      /\ UNCHANGED <<session, cli, seen, read, pulled, channel, doubted>>
      /\ channel # "app-server" \/ "menu" \in Kinds["app-server"]
  BY DEF MenuShows, Trouble
<1>3. troubles' \in 0..MaxTroubles /\ cli' \in [Sessions -> Seq(Items)] /\ \A t \in Sessions \ {s} : cli'[t] = cli[t]
  BY <1>1, <1>2, InstructionsAssumption DEF Types
<1> QED BY <1>1, <1>2, <1>3, MenuRun, ReturnKeeps

LEMMA EndKeeps ==
    ASSUME Base, NEW s \in Sessions, End(s)
    PROVE  Base'
<1>1. Types
  BY DEF Base
<1>2. /\ run[s].on = "on" /\ troubles < MaxTroubles /\ troubles' = troubles + 1
      /\ receipts' = Requeued(Returnable(run[s].hand))
      /\ inbox' = [inbox EXCEPT ![s] = Returnable(run[s].hand) \o @]
      /\ cli' = [cli EXCEPT ![s] = <<>>]
      /\ UNCHANGED <<session, seen, read, pulled, channel, doubted>>
  BY DEF End, Trouble
<1>3. troubles' \in 0..MaxTroubles
  BY <1>1, <1>2, InstructionsAssumption DEF Types
<1>4. cli' \in [Sessions -> Seq(Items)] /\ \A t \in Sessions \ {s} : cli'[t] = cli[t]
  BY <1>1, <1>2, NoItems DEF Types
<1> QED BY <1>1, <1>2, <1>3, <1>4, EndRun, ReturnKeeps

\* Nothing is held by a supervisor that has just started, or has stopped.
LEMMA EmptyRun ==
    ASSUME NEW on \in {"on", "off"}
    PROVE  /\ [Off EXCEPT !.on = on] \in Run /\ [Off EXCEPT !.on = on].hand = <<>>
           /\ [Off EXCEPT !.on = on].worker = None /\ [Off EXCEPT !.on = on].step = "idle"
           /\ [Off EXCEPT !.on = on].result = "none" /\ [Off EXCEPT !.on = on].typing = None
           /\ [Off EXCEPT !.on = on].posted = {} /\ [Off EXCEPT !.on = on].dropped = {}
           /\ [Off EXCEPT !.on = on].on = on /\ [Off EXCEPT !.on = "off"] = Off
           /\ [Off EXCEPT !.on = on].again = {}
<1>1. [Off EXCEPT !.on = on] \in Run
  BY NoItems DEF Off, Run
<1>2. [Off EXCEPT !.on = "off"] = Off
  <2>1. PICK o : o = Off
    OBVIOUS
  <2>2. o \in Run /\ o.on = "off"
    BY <2>1, OffRun DEF Off
  <2>3. [o EXCEPT !.on = "off"] = [o EXCEPT !.on = o.on]
    BY <2>2
  <2>4. [o EXCEPT !.on = o.on] = o
    BY <2>2 DEF Run
  <2> QED BY <2>1, <2>3, <2>4
<1>3. /\ [Off EXCEPT !.on = on].hand = <<>>
      /\ [Off EXCEPT !.on = on].worker = None /\ [Off EXCEPT !.on = on].step = "idle"
      /\ [Off EXCEPT !.on = on].result = "none" /\ [Off EXCEPT !.on = on].typing = None
      /\ [Off EXCEPT !.on = on].posted = {} /\ [Off EXCEPT !.on = on].dropped = {}
      /\ [Off EXCEPT !.on = on].on = on /\ [Off EXCEPT !.on = on].again = {}
  BY DEF Off
<1> QED BY <1>1, <1>2, <1>3

LEMMA EmptySound ==
    ASSUME NEW s \in Sessions, NEW on \in {"on", "off"}, run'[s] = [Off EXCEPT !.on = on],
           on = "off" \/ session'[s] = "running", on = "on" \/ cli'[s] = <<>>,
           on = "on" => \A m \in Messages : receipts'[m].session = s => Status(m)' \notin {"taken", "posted"}
    PROVE  Sound(s)'
<1>1. /\ run'[s].hand = <<>> /\ run'[s].worker = None /\ run'[s].step = "idle" /\ run'[s].result = "none"
      /\ run'[s].typing = None /\ run'[s].posted = {} /\ run'[s].dropped = {} /\ run'[s].on = on
      /\ run'[s].again = {}
  BY EmptyRun
<1>2. Hand(s)' = {} /\ InFlight(s)' = {}
  BY <1>1, NoItems DEF Hand, InFlight
<1>3. Asleep(s)'
  BY EmptyRun DEF Asleep
<1>4. Apart(s)' /\ Flying(s)' /\ Busy(s)' /\ Steered(s)' /\ Twice(s)'
  BY <1>1, <1>2, NoItems DEF Apart, Flying, Busy, Steered, Twice
<1>5. Recalled(s)'
  BY <1>1 DEF Recalled
<1> QED BY <1>3, <1>4, <1>5 DEF Sound

\* The end of a run, in order or not.
LEMMA StopKeeps ==
    ASSUME Base, NEW s \in Sessions, run' = [run EXCEPT ![s] = Off],
           session' = [session EXCEPT ![s] = "ended"], cli' = [cli EXCEPT ![s] = <<>>],
           UNCHANGED <<inbox, seen, read, pulled, channel>>,
           receipts' = receipts \/ \E ids : receipts' = Posted(receipts, s, ids),
           doubted' \in SUBSET Messages, troubles' \in 0..MaxTroubles
    PROVE  Base'
<1>1. Types /\ Homes
  BY DEF Base
<1>2. receipts' \in Receipts /\ Settles(s)
  BY <1>1, PostedReceipts, ReceiptsSettle, Held
<1>3. /\ \A t \in Sessions \ {s} : run'[t] = run[t] /\ cli'[t] = cli[t] /\ session'[t] = session[t]
      /\ run'[s] = Off /\ cli'[s] = <<>> /\ session'[s] = "ended"
  BY <1>1 DEF Types
<1>4. Types'
  <2>1. run' \in [Sessions -> Run]
    BY <1>1, OffRun DEF Types
  <2>2. cli' \in [Sessions -> Seq(Items)]
    BY <1>1, NoItems DEF Types
  <2> QED BY <1>1, <1>2, <2>1, <2>2 DEF Types, Receipts
<1>5. Homes'
  <2>1. Settled
    BY <1>2 DEF Settled, Settles, Status
  <2> QED BY <1>1, <2>1, SettledHomes
<1>6. Alone(s)
  BY <1>2, <1>3 DEF Alone, Elsewhere, Settles
<1>7. Sound(s)'
  BY <1>3, EmptyRun, EmptySound
<1> QED BY <1>4, <1>5, <1>6, <1>7, SessionStep

LEMMA EndRecordKeeps ==
    ASSUME Base, NEW s \in Sessions, EndRecord(s)
    PROVE  Base'
<1>1. Types
  BY DEF Base
<1>2. /\ run' = [run EXCEPT ![s] = Off] /\ session' = [session EXCEPT ![s] = "ended"]
      /\ cli' = [cli EXCEPT ![s] = <<>>] /\ UNCHANGED <<inbox, seen, read, pulled, channel, doubted, troubles>>
      /\ receipts' = receipts \/ receipts' = Posted(receipts, s, {run[s].worker})
  BY DEF EndRecord
<1>3. doubted' \in SUBSET Messages /\ troubles' \in 0..MaxTroubles
  BY <1>1, <1>2 DEF Types
<1> QED BY <1>2, <1>3, StopKeeps

LEMMA KillKeeps ==
    ASSUME Base, NEW s \in Sessions, Kill(s)
    PROVE  Base'
<1>1. Types /\ run[s] \in Run
  BY Held DEF Base
<1>2. /\ run' = [run EXCEPT ![s] = Off] /\ session' = [session EXCEPT ![s] = "ended"]
      /\ cli' = [cli EXCEPT ![s] = <<>>] /\ UNCHANGED <<receipts, inbox, seen, read, pulled, channel>>
      /\ troubles < MaxTroubles /\ troubles' = troubles + 1
      /\ doubted' = doubted \/ doubted' = doubted \cup ({run[s].typing} \ {None})
  BY DEF Kill, Trouble
<1>3. doubted' \in SUBSET Messages
  <2>1. run[s].typing \in Messages \cup {None}
    BY <1>1 DEF Run
  <2>2. {run[s].typing} \ {None} \subseteq Messages
    BY <2>1
  <2>3. doubted \in SUBSET Messages
    BY <1>1 DEF Types
  <2> QED BY <1>2, <2>2, <2>3
<1>4. troubles' \in 0..MaxTroubles
  <2>1. troubles \in 0..MaxTroubles /\ MaxTroubles \in Nat
    BY <1>1, InstructionsAssumption DEF Types
  <2> QED BY <1>2, <2>1
<1> QED BY <1>2, <1>3, <1>4, StopKeeps

\* prepare_resume_sessions
LEMMA RelaunchKeeps ==
    ASSUME Base, NEW s \in Sessions, Relaunch(s)
    PROVE  Base'
<1>1. Types /\ Homes /\ Sound(s)
  BY DEF Base
<1>2. /\ session[s] = "ended" /\ session' = [session EXCEPT ![s] = "launching"]
      /\ UNCHANGED <<receipts, inbox, run, cli, seen, read, pulled, channel, doubted, troubles>>
  BY DEF Relaunch
<1>3. session' \in [Sessions -> {"none", "launching", "running", "ended"}]
      /\ \A t \in Sessions \ {s} : session'[t] = session[t]
  BY <1>1, <1>2 DEF Types
<1>4. Types' /\ Homes' /\ Alone(s)
  BY <1>1, <1>2, <1>3 DEF Types, Homes, Alone, Elsewhere, Status
<1>5. run'[s] = [Off EXCEPT !.on = "off"] /\ cli'[s] = <<>>
  BY <1>1, <1>2, EmptyRun DEF Sound, Asleep
<1>6. Sound(s)'
  BY <1>5, EmptySound
<1> QED BY <1>4, <1>6, SessionStep

\* reclaim_stranded
LEMMA StartRunKeeps ==
    ASSUME Base, NEW s \in Sessions, StartRun(s)
    PROVE  Base'
<1>1. Types /\ Homes /\ Sound(s) /\ inbox[s] \in Seq(Items) /\ inbox \in [Sessions -> Seq(Items)]
      /\ receipts \in Receipts
  BY Held DEF Base, Types
<1>2. PICK lost : lost = Stranded(s)
  OBVIOUS
<1>3. /\ session[s] = "launching" /\ session' = [session EXCEPT ![s] = "running"]
      /\ run' = [run EXCEPT ![s] = [Off EXCEPT !.on = "on"]]
      /\ receipts' = [m \in Messages |-> IF m \in lost
                         THEN [receipts[m] EXCEPT !.status = "queued"] ELSE receipts[m]]
      /\ inbox' = [inbox EXCEPT ![s] = Carried(lost) \o @]
      /\ UNCHANGED <<cli, seen, read, pulled, channel, doubted, troubles>>
  BY <1>2 DEF StartRun
<1>4. /\ lost \in SUBSET Messages
      /\ \A m \in Messages : m \in lost <=>
            receipts[m].session = s /\ Status(m) \in {"taken", "posted"} /\ m \notin Ids(inbox[s])
  BY <1>2 DEF Stranded
<1>5. PICK c : c = Carried(lost)
  OBVIOUS
<1>6. c \in Seq(Items) /\ Ids(c) = lost /\ \A m \in Messages : Lone(c, m)
  BY <1>4, <1>5, CarriedItems
<1>7. /\ c \o inbox[s] \in Seq(Items) /\ Ids(c \o inbox[s]) = lost \cup Ids(inbox[s])
      /\ \A m \in Messages : Lone(c \o inbox[s], m)
  <2>1. \A m \in Messages : Lone(inbox[s], m) /\ ~(m \in Ids(c) /\ m \in Ids(inbox[s]))
    BY <1>1, <1>4, <1>6 DEF Homes
  <2> QED BY <1>1, <1>6, <2>1, Joined
<1>8. \A t \in Sessions : inbox'[t] = IF t = s THEN c \o inbox[s] ELSE inbox[t]
  BY <1>1, <1>3, <1>5
<1>9. /\ receipts' \in Receipts
      /\ \A m \in Messages :
           /\ receipts'[m].session = receipts[m].session
           /\ Status(m)' = IF m \in lost THEN "queued" ELSE Status(m)
           /\ m \notin lost => receipts'[m] = receipts[m]
  BY <1>1, <1>3 DEF Receipts, Status, Statuses
<1>10. /\ \A t \in Sessions \ {s} : run'[t] = run[t] /\ session'[t] = session[t]
       /\ run'[s] = [Off EXCEPT !.on = "on"] /\ session'[s] = "running"
       /\ run' \in [Sessions -> Run] /\ session' \in [Sessions -> {"none", "launching", "running", "ended"}]
  BY <1>1, <1>3, OffRun DEF Types
<1>11. Types'
  <2>1. inbox' \in [Sessions -> Seq(Items)]
    BY <1>1, <1>3, <1>5, <1>7
  <2> QED BY <1>1, <1>3, <1>9, <1>10, <2>1 DEF Types, Receipts
<1>12. \A t \in Sessions, m \in Messages : m \in Ids(inbox[t]) <=> Status(m) = "queued" /\ receipts[m].session = t
  BY <1>1 DEF Homes
<1>13. Homes'
  <2>1. \A t \in Sessions, m \in Messages : Lone(inbox'[t], m)
    BY <1>1, <1>7, <1>8 DEF Homes
  <2>2. ASSUME NEW t \in Sessions, NEW m \in Messages
        PROVE  m \in Ids(inbox'[t]) <=> Status(m)' = "queued" /\ receipts'[m].session = t
    <3>1. Ids(inbox'[s]) = lost \cup Ids(inbox[s])
      BY <1>7, <1>8, Zenon
    <3>2. t # s => Ids(inbox'[t]) = Ids(inbox[t])
      BY <1>8
    <3>3. CASE m \in lost
      BY <1>4, <1>9, <1>12, <3>1, <3>2, <3>3
    <3>4. CASE m \notin lost
      BY <1>9, <1>12, <3>1, <3>2, <3>4
    <3> QED BY <3>3, <3>4
  <2>3. ASSUME NEW m \in Messages PROVE Status(m)' = "none" <=> receipts'[m].session = None
    BY <1>1, <1>4, <1>9 DEF Homes
  <2> QED BY <2>1, <2>2, <2>3 DEF Homes
<1>14. Alone(s)
  BY <1>3, <1>4, <1>9, <1>10 DEF Alone, Elsewhere
<1>15. Sound(s)'
  <2>1. ASSUME NEW m \in Messages, receipts'[m].session = s PROVE Status(m)' \notin {"taken", "posted"}
    BY <1>4, <1>9, <1>12, <2>1
  <2> QED BY <1>10, <2>1, EmptySound
<1> QED BY <1>11, <1>13, <1>14, <1>15, SessionStep

\* _inherit_cli_memory
LEMMA ContinueKeeps ==
    ASSUME Base, NEW i \in 1..(Len(Chain) - 1), Continue(i)
    PROVE  Base'
<1>1. Types /\ Homes /\ inbox \in [Sessions -> Seq(Items)] /\ receipts \in Receipts
      /\ None \notin Sessions /\ None \notin Messages
  BY InstructionsAssumption DEF Base, Types, Receipts
<1>2. PICK old \in Sessions, new \in Sessions : old = Chain[i] /\ new = Chain[i + 1] /\ old # new
  <2>1. Chain \in Seq(Sessions) /\ Len(Chain) \in Nat /\ DOMAIN Chain = 1..Len(Chain)
    BY InstructionsAssumption, LenProperties
  <2>2. i \in DOMAIN Chain /\ i + 1 \in DOMAIN Chain /\ i # i + 1
    BY <2>1
  <2> QED BY <2>1, <2>2, InstructionsAssumption, ElementOfSeq DEF IsInjective
<1>3. PICK open : open = {m \in Messages : receipts[m].session = old /\ Status(m) \in {"queued", "taken", "posted"}}
  OBVIOUS
<1>4. /\ session[old] = "ended" /\ session[new] = "none"
      /\ session' = [session EXCEPT ![new] = "launching"]
      /\ receipts' = [m \in Messages |-> IF m \in open THEN [status |-> "queued", session |-> new]
                                          ELSE receipts[m]]
      /\ inbox' = [inbox EXCEPT ![old] = <<>>, ![new] = Carried(open) \o @]
      /\ UNCHANGED <<run, cli, seen, read, pulled, channel, doubted, troubles>>
  BY <1>2, <1>3 DEF Continue
<1>5. PICK c : c = Carried(open)
  OBVIOUS
<1>6. c \in Seq(Items) /\ Ids(c) = open /\ \A m \in Messages : Lone(c, m)
  BY <1>3, <1>5, CarriedItems
<1>7. \A t \in Sessions, m \in Messages : m \in Ids(inbox[t]) <=> Status(m) = "queued" /\ receipts[m].session = t
  BY <1>1 DEF Homes
<1>8. /\ c \o inbox[new] \in Seq(Items) /\ Ids(c \o inbox[new]) = open \cup Ids(inbox[new])
      /\ \A m \in Messages : Lone(c \o inbox[new], m)
  <2>1. \A m \in Messages : Lone(inbox[new], m) /\ ~(m \in Ids(c) /\ m \in Ids(inbox[new]))
    BY <1>1, <1>2, <1>3, <1>6, <1>7 DEF Homes
  <2> QED BY <1>1, <1>6, <2>1, Joined
<1>9. inbox' \in [Sessions -> Seq(Items)] /\ inbox'[old] = <<>> /\ inbox'[new] = c \o inbox[new]
      /\ \A t \in Sessions : t # old /\ t # new => inbox'[t] = inbox[t]
  BY <1>1, <1>2, <1>4, <1>5, <1>8, NoItems
<1>10. /\ receipts' \in Receipts
       /\ \A m \in Messages : m \in open => Status(m)' = "queued" /\ receipts'[m].session = new
       /\ \A m \in Messages : m \notin open => receipts'[m] = receipts[m]
  BY <1>1, <1>4 DEF Receipts, Status, Statuses
<1>11. session' \in [Sessions -> {"none", "launching", "running", "ended"}] /\ session'[new] = "launching"
       /\ \A t \in Sessions \ {new} : session'[t] = session[t]
  BY <1>1, <1>4 DEF Types
<1>12. Types'
  BY <1>1, <1>4, <1>9, <1>10, <1>11 DEF Types, Receipts
<1>13. Homes'
  <2>1. \A t \in Sessions, m \in Messages : Lone(inbox'[t], m)
    <3>1. \A m \in Messages : Lone(inbox'[old], m) /\ Lone(inbox'[new], m)
      BY <1>8, <1>9, NoItems
    <3> QED BY <1>1, <1>9, <3>1 DEF Homes
  <2>2. ASSUME NEW t \in Sessions, NEW m \in Messages
        PROVE  m \in Ids(inbox'[t]) <=> Status(m)' = "queued" /\ receipts'[m].session = t
    <3>1. Ids(inbox'[old]) = {} /\ Ids(inbox'[new]) = open \cup Ids(inbox[new])
      BY <1>8, <1>9, NoItems
    <3>2. t # old /\ t # new => Ids(inbox'[t]) = Ids(inbox[t])
      BY <1>9
    <3>3. CASE m \in open
      BY <1>2, <1>3, <1>7, <1>10, <3>1, <3>2, <3>3
    <3>4. CASE m \notin open
      <4>1. Status(m)' = Status(m) /\ receipts'[m].session = receipts[m].session
        BY <1>10, <3>4 DEF Status
      <4>2. ~(receipts[m].session = old /\ Status(m) = "queued")
        BY <1>3, <3>4
      <4> QED BY <1>2, <1>7, <3>1, <3>2, <3>4, <4>1, <4>2
    <3> QED BY <3>3, <3>4
  <2>3. ASSUME NEW m \in Messages PROVE Status(m)' = "none" <=> receipts'[m].session = None
    BY <1>1, <1>3, <1>10 DEF Homes, Status
  <2> QED BY <2>1, <2>2, <2>3 DEF Homes
<1>14. ASSUME NEW t \in Sessions PROVE Sound(t)'
  <2>1. Sound(t) /\ InFlight(t) \subseteq Messages
    BY <1>1, Held DEF Base
  <2>2. CASE t \in {old, new}
    <3>1. run[t] = Off /\ cli[t] = <<>>
      BY <1>4, <2>1, <2>2 DEF Sound, Asleep
    <3>2. run'[t] = [Off EXCEPT !.on = "off"] /\ cli'[t] = <<>>
      BY <1>4, <3>1, EmptyRun
    <3> QED BY <3>2, EmptySound
  <2>3. CASE t \notin {old, new}
    <3>1. InFlight(t)' = InFlight(t) /\ Hand(t)' = Hand(t)
      BY <1>4 DEF InFlight, Hand
    <3>2. \A m \in InFlight(t) : receipts'[m] = receipts[m]
      BY <1>3, <1>10, <2>1, <2>3 DEF Sound, Flying
    <3>3. Asleep(t)' /\ Apart(t)' /\ Busy(t)' /\ Steered(t)'
      BY <1>4, <1>11, <2>1, <2>3, <3>1 DEF Sound, Asleep, Apart, Busy, Steered
    <3>4. Flying(t)'
      BY <2>1, <3>1, <3>2 DEF Sound, Flying, Status
    <3>5. Twice(t)'
      <4>1. (Hand(t) \cup {run[t].worker, run[t].typing}) \ {None} \subseteq InFlight(t)
        BY DEF Hand, InFlight
      <4> QED BY <1>4, <2>1, <3>1, <3>2, <4>1 DEF Sound, Twice, Status
    <3>6. Recalled(t)'
      <4>1. \A m \in Messages : receipts'[m].session = t => receipts'[m] = receipts[m]
        BY <1>10, <2>3
      <4> QED BY <1>4, <2>1, <3>1, <4>1 DEF Sound, Recalled, Status
    <3> QED BY <3>3, <3>4, <3>5, <3>6 DEF Sound
  <2> QED BY <2>2, <2>3
<1> QED BY <1>12, <1>13, <1>14 DEF Base

LEMMA InitBase == Init => Base
<1> SUFFICES ASSUME Init PROVE Base
  OBVIOUS
<1>1. None \notin Sessions /\ None \notin Messages /\ Chain[1] \in Sessions /\ MaxTroubles \in Nat
  <2>1. Chain \in Seq(Sessions) /\ Chain # <<>>
    BY InstructionsAssumption
  <2> QED BY <2>1, InstructionsAssumption
<1>2. /\ receipts = [m \in Messages |-> [status |-> "none", session |-> None]]
      /\ inbox = [s \in Sessions |-> <<>>] /\ cli = [s \in Sessions |-> <<>>]
      /\ session = [s \in Sessions |-> IF s = Chain[1] THEN "running" ELSE "none"]
      /\ run = [s \in Sessions |-> IF s = Chain[1] THEN [Off EXCEPT !.on = "on"] ELSE Off]
      /\ seen = {} /\ read = [m \in Messages |-> 0] /\ pulled = {}
      /\ channel \in Channels /\ doubted = {} /\ troubles = 0
  BY DEF Init
<1>3. Types
  <2>1. receipts \in [Messages -> [status : Statuses, session : Sessions \cup {None}]]
    BY <1>2 DEF Statuses
  <2>2. inbox \in [Sessions -> Seq(Items)] /\ cli \in [Sessions -> Seq(Items)]
    BY <1>2, NoItems
  <2>3. run \in [Sessions -> Run]
    BY <1>2, OffRun
  <2> QED BY <1>1, <1>2, <2>1, <2>2, <2>3 DEF Types
<1>4. Homes
  BY <1>1, <1>2, NoItems DEF Homes, Status
<1>5. ASSUME NEW s \in Sessions PROVE Sound(s)
  <2>1. PICK on \in {"on", "off"} : on = IF s = Chain[1] THEN "on" ELSE "off"
    OBVIOUS
  <2>2. run[s] = [Off EXCEPT !.on = on]
    BY <1>2, <2>1, EmptyRun
  <2>3. /\ run[s].hand = <<>> /\ run[s].worker = None /\ run[s].step = "idle" /\ run[s].result = "none"
        /\ run[s].typing = None /\ run[s].posted = {} /\ run[s].dropped = {} /\ run[s].again = {}
    BY <2>2, EmptyRun
  <2>4. Hand(s) = {} /\ InFlight(s) = {}
    BY <2>3, NoItems DEF Hand, InFlight
  <2>5. Asleep(s)
    BY <1>2 DEF Asleep
  <2>6. Apart(s) /\ Flying(s) /\ Busy(s) /\ Steered(s) /\ Twice(s)
    BY <2>3, <2>4, NoItems DEF Apart, Flying, Busy, Steered, Twice
  <2>7. Recalled(s)
    BY <1>1, <1>2 DEF Recalled, Status
  <2> QED BY <2>5, <2>6, <2>7 DEF Sound
<1> QED BY <1>3, <1>4, <1>5 DEF Base

LEMMA BaseKept ==
    ASSUME Base, [Next]_vars
    PROVE  Base'
<1>1. CASE UNCHANGED vars
  BY <1>1 DEF Base, vars, Types, Homes, Sound, Asleep, Apart, Flying, Busy, Steered, Twice, Recalled,
              InFlight, Hand, Status
<1>2. ASSUME NEW s \in Sessions, Working(s) PROVE Base'
  BY <1>2, TakeKeeps, SubmitKeeps, TypeWriteKeeps, TypeRecordKeeps, WorkerSendKeeps, WorkerWaitKeeps,
     TakeOutcomeKeeps, ReceiptSeenKeeps, TakeDroppedKeeps, EndRecordKeeps DEF Working
<1>3. ASSUME NEW s \in Sessions,
             \/ CliReads(s) \/ ReceiptOverdue(s) \/ CliLoses(s) \/ MenuShows(s) \/ MenuGone(s)
             \/ End(s) \/ Kill(s) \/ Relaunch(s) \/ StartRun(s)
      PROVE  Base'
  BY <1>3, CliReadsKeeps, ReceiptOverdueKeeps, CliLosesKeeps, MenuShowsKeeps, MenuGoneKeeps, EndKeeps,
     KillKeeps, RelaunchKeeps, StartRunKeeps
<1>4. ASSUME NEW s \in Sessions, NEW m \in Messages, Enqueue(m, s) PROVE Base'
  BY <1>4, EnqueueKeeps
<1>5. ASSUME NEW m \in Messages, Withdraw(m) \/ Discard(m) \/ Invalidate(m) PROVE Base'
  BY <1>5, WithdrawKeeps, DiscardKeeps, InvalidateKeeps
<1>6. ASSUME NEW i \in 1..(Len(Chain) - 1), Continue(i) PROVE Base'
  BY <1>6, ContinueKeeps
<1> QED BY <1>1, <1>2, <1>3, <1>4, <1>5, <1>6, Zenon DEF Next

\* Base is an invariant, whatever the bounds and the disturbances.
THEOREM BaseAlways == Spec => []Base
<1>1. Init => Base
  BY InitBase
<1>2. Base /\ [Next]_vars => Base'
  BY BaseKept
<1> QED BY <1>1, <1>2, PTL DEF Spec

LEMMA BasePlaces ==
    ASSUME Base, NEW m \in Messages
    PROVE  Queued(m)
<1>1. Types /\ Homes /\ None \notin Sessions
  BY InstructionsAssumption DEF Base
<1>2. CASE Status(m) = "queued"
  <2>1. PICK home \in Sessions : home = receipts[m].session
    BY <1>1, <1>2 DEF Types, Homes
  <2>2. m \in Ids(inbox[home]) /\ Lone(inbox[home], m) /\ \A s \in Sessions \ {home} : m \notin Ids(inbox[s])
    BY <1>1, <1>2, <2>1 DEF Homes
  <2>3. PICK i \in DOMAIN inbox[home] : inbox[home][i].id = m
    BY <2>2 DEF Ids
  <2>4. {j \in DOMAIN inbox[home] : inbox[home][j].id = m} = {i}
    BY <2>2, <2>3 DEF Lone
  <2>5. \A s \in Sessions \ {home} : {j \in DOMAIN inbox[s] : inbox[s][j].id = m} = {}
    BY <2>2 DEF Ids
  <2>6. Places(m) = {<<home, i>>}
    <3>1. \A p \in Places(m) : p = <<home, i>>
      <4> SUFFICES ASSUME NEW s \in Sessions, NEW p \in {s} \X {j \in DOMAIN inbox[s] : inbox[s][j].id = m}
                   PROVE  p = <<home, i>>
        BY DEF Places
      <4>1. CASE s = home
        BY <2>4, <4>1
      <4>2. CASE s # home
        BY <2>5, <4>2
      <4> QED BY <4>1, <4>2
    <3>2. <<home, i>> \in {home} \X {j \in DOMAIN inbox[home] : inbox[home][j].id = m}
      BY <2>4
    <3>3. <<home, i>> \in Places(m)
      BY <3>2 DEF Places
    <3> QED BY <3>1, <3>3
  <2>7. Cardinality(Places(m)) = 1
    BY <2>6, FS_Singleton
  <2>8. \A s \in Sessions : m \notin InFlight(s)
    BY <1>2 DEF Base, Sound, Flying
  <2> QED BY <1>2, <2>1, <2>2, <2>7, <2>8 DEF Queued
<1>3. CASE Status(m) # "queued"
  <2>1. \A s \in Sessions : m \notin Ids(inbox[s])
    BY <1>1, <1>3 DEF Homes
  <2>2. \A s \in Sessions : {j \in DOMAIN inbox[s] : inbox[s][j].id = m} = {}
    BY <2>1 DEF Ids
  <2>3. \A s \in Sessions : {s} \X {j \in DOMAIN inbox[s] : inbox[s][j].id = m} = {}
    BY <2>2
  <2>4. Places(m) = {}
    BY <2>3 DEF Places
  <2> QED BY <1>3, <2>4 DEF Queued
<1> QED BY <1>2, <1>3

LEMMA TypesAreOK == Types => TypeOK
<1> SUFFICES ASSUME Types PROVE TypeOK
  OBVIOUS
<1>1. \A s \in Sessions : /\ run[s] \in Run /\ Ids(run[s].hand) \subseteq Messages
                          /\ Ids(inbox[s]) \subseteq Messages /\ Ids(cli[s]) \subseteq Messages
  <2> SUFFICES ASSUME NEW s \in Sessions
               PROVE  /\ run[s] \in Run /\ Ids(run[s].hand) \subseteq Messages
                      /\ Ids(inbox[s]) \subseteq Messages /\ Ids(cli[s]) \subseteq Messages
    OBVIOUS
  <2>1. run[s] \in Run /\ run[s].hand \in Seq(Items) /\ inbox[s] \in Seq(Items) /\ cli[s] \in Seq(Items)
    BY Held
  <2> QED BY <2>1, Holding
<1>2. \A s \in Sessions : /\ session[s] \in {"none", "launching", "running", "ended"}
                          /\ Ids(inbox[s]) \cup Given(s) \cup Ids(run[s].hand) \subseteq Messages
                          /\ run[s].worker \in Messages \cup {None}
                          /\ run[s].failures \in Nat
  BY <1>1 DEF Types, Run, Given
<1>3. \A m \in Messages : /\ Status(m) \in {"none", "queued", "taken", "posted"} \cup Closed
                          /\ receipts[m].session \in Sessions \cup {None}
                          /\ read[m] \in Nat
  BY DEF Types, Status, Statuses
<1> QED BY <1>2, <1>3 DEF Types, TypeOK

\* A queue holds what its receipts say is queued, each message once, and nobody
\* has in hand what is queued: whatever the disturbances
\* (control.py take_instructions, return_instructions, withdraw_instruction,
\* reclaim_stranded, _inherit_cli_memory).
QueuedOnce == \A m \in Messages : Queued(m)
THEOREM QueuesAgreeWithReceipts == Spec => [](TypeOK /\ QueuedOnce)
<1>1. Base => TypeOK /\ QueuedOnce
  BY TypesAreOK, BasePlaces DEF Base, QueuedOnce
<1> QED BY <1>1, BaseAlways, PTL

\* A message is in one place, and what a live supervisor has taken it still knows
\* of, for every conversation, number of messages, of failures and of
\* disturbances, as long as no menu is drawn over Codex's own screen, where a
\* message that was steered into a turn and dropped may be in hand
\* (control.py return_instructions, interactive_supervisor.py _stage3_tick).
THEOREM EveryMessageInOnePlace ==
    ASSUME "menu" \notin Kinds["app-server"]
    PROVE  Spec => []OnePlace
<1>1. Base => OnePlace
  <2> SUFFICES ASSUME Base PROVE OnePlace
    OBVIOUS
  <2>1. TypeOK
    BY TypesAreOK DEF Base
  <2>2. ASSUME NEW m \in Messages PROVE Queued(m) /\ Remembered(m)
    <3>1. Queued(m)
      BY BasePlaces
    <3>2. Remembered(m)
      BY DEF Base, Sound, Recalled, Remembered
    <3> QED BY <3>1, <3>2
  <2> QED BY <2>1, <2>2 DEF OnePlace
<1> QED BY <1>1, BaseAlways, PTL

(***************************************************************************)
(* What is handed over.                                                    *)
(***************************************************************************)
HandsOver(s) ==
    \A m \in Given(s)' \cup {run'[s].worker, run'[s].typing} :
        \/ m \in Given(s) \cup {run[s].worker, run[s].typing, None}
        \/ Current(m)

\* A supervisor hands over what is current.
LEMMA SubmitHandsOver ==
    ASSUME Types, NEW s \in Sessions, Submit(s)
    PROVE  Elsewhere(s) /\ cli' = cli /\ HandsOver(s)
<1>1. Elsewhere(s) /\ run'[s].worker = (IF Current(Tip(s).id) THEN Tip(s).id ELSE None)
      /\ run'[s].typing = run[s].typing
  BY SubmitRun
<1>2. cli' = cli
  BY DEF Submit
<1> QED BY <1>1, <1>2 DEF HandsOver, Given

LEMMA TypeWriteHandsOver ==
    ASSUME Types, NEW s \in Sessions, TypeWrite(s)
    PROVE  Elsewhere(s) /\ (\A t \in Sessions \ {s} : cli'[t] = cli[t]) /\ HandsOver(s)
<1>1. Elsewhere(s) /\ run'[s].worker = run[s].worker
      /\ run'[s].typing = IF Skips(s) THEN run[s].typing ELSE Tip(s).id
  BY TypeWriteRun
<1>2. cli \in [Sessions -> Seq(Items)] /\ cli[s] \in Seq(Items) /\ run[s].hand \in Seq(Items) /\ run[s].hand # <<>>
  BY Held DEF Types, TypeWrite, MayWrite
<1>3. Tip(s).id \in Messages
  BY <1>2, HeadAndTail DEF Tip, Items
<1>4. CASE Skips(s)
  <2>1. cli' = cli
    BY <1>4 DEF TypeWrite, Skips
  <2> QED BY <1>1, <1>4, <2>1 DEF HandsOver, Given
<1>5. CASE ~Skips(s)
  <2>1. cli' = [cli EXCEPT ![s] = Append(@, Item(Tip(s).id, channel = "hook"))] /\ Current(Tip(s).id)
    BY <1>5 DEF TypeWrite, Skips
  <2>2. PICK b \in BOOLEAN : b = (channel = "hook")
    OBVIOUS
  <2>3. PICK x \in Items : x = Item(Tip(s).id, b) /\ x.id = Tip(s).id
    BY <1>3, ItemIsItem
  <2>4. cli'[s] = Append(cli[s], x) /\ \A t \in Sessions \ {s} : cli'[t] = cli[t]
    BY <1>2, <2>1, <2>2, <2>3
  <2>5. Given(s)' = Given(s) \cup {Tip(s).id}
    BY <1>2, <2>3, <2>4, Appended DEF Given
  <2> QED BY <1>1, <1>5, <2>1, <2>4, <2>5 DEF HandsOver
<1> QED BY <1>4, <1>5

LEMMA WorkerSendHandsOver ==
    ASSUME Types, NEW s \in Sessions, WorkerSend(s), run[s].worker \in Messages
    PROVE  Elsewhere(s) /\ (\A t \in Sessions \ {s} : cli'[t] = cli[t]) /\ HandsOver(s)
<1>1. Elsewhere(s) /\ run'[s].worker = run[s].worker /\ run'[s].typing = run[s].typing
  <2>1. Answer(s, "delivered") \/ Answer(s, "not_ready") \/ Answer(s, "unconfirmed")
        \/ run' = [run EXCEPT ![s].step = "wait"]
    BY DEF WorkerSend
  <2> QED BY <2>1, AnswerRun, SentRun
<1>2. cli \in [Sessions -> Seq(Items)] /\ cli[s] \in Seq(Items)
  BY DEF Types
<1>3. PICK x \in Items : x = Item(run[s].worker, TRUE) /\ x.id = run[s].worker
  BY ItemIsItem
<1>4. cli' = cli \/ cli' = [cli EXCEPT ![s] = Append(@, x)]
  BY <1>3 DEF WorkerSend
<1>5. \A t \in Sessions \ {s} : cli'[t] = cli[t]
  BY <1>2, <1>4
<1>6. Given(s)' \subseteq Given(s) \cup {run[s].worker}
  <2>1. cli'[s] = cli[s] \/ cli'[s] = Append(cli[s], x)
    BY <1>2, <1>4
  <2>2. Ids(Append(cli[s], x)) = Ids(cli[s]) \cup {x.id}
    BY <1>2, Appended
  <2> QED BY <1>3, <2>1, <2>2 DEF Given
<1> QED BY <1>1, <1>5, <1>6 DEF HandsOver

LEMMA ProgramHandsOver ==
    ASSUME Types, NEW s \in Sessions, CliReads(s) \/ CliLoses(s)
    PROVE  Elsewhere(s) /\ (\A t \in Sessions \ {s} : cli'[t] = cli[t]) /\ HandsOver(s)
<1>1. Elsewhere(s) /\ run'[s].worker = run[s].worker /\ run'[s].typing = run[s].typing
  <2>1. CASE CliReads(s)
    BY <2>1 DEF CliReads, Elsewhere
  <2>2. CASE CliLoses(s)
    BY <2>2, LosesRun
  <2> QED BY <2>1, <2>2
<1>2. cli \in [Sessions -> Seq(Items)] /\ cli[s] \in Seq(Items) /\ cli[s] # <<>>
      /\ cli' = [cli EXCEPT ![s] = Tail(@)]
  BY DEF Types, CliReads, CliLoses
<1>3. cli'[s] = Tail(cli[s]) /\ \A t \in Sessions \ {s} : cli'[t] = cli[t]
  BY <1>2
<1>4. Given(s)' \subseteq Given(s)
  BY <1>2, <1>3, HeadAndTail DEF Given
<1> QED BY <1>1, <1>3, <1>4 DEF HandsOver

\* The other steps of one session hand nothing over.
LEMMA NothingHandedOver ==
    ASSUME Base, NEW s \in Sessions,
           \/ Take(s) \/ TypeRecord(s) \/ WorkerWait(s) \/ TakeOutcome(s) \/ ReceiptSeen(s)
           \/ TakeDropped(s) \/ EndRecord(s) \/ ReceiptOverdue(s) \/ MenuShows(s) \/ MenuGone(s)
           \/ End(s) \/ Kill(s) \/ StartRun(s)
    PROVE  Elsewhere(s) /\ (\A t \in Sessions \ {s} : cli'[t] = cli[t]) /\ HandsOver(s)
<1>1. Types /\ run[s] \in Run /\ cli \in [Sessions -> Seq(Items)] /\ run \in [Sessions -> Run]
  BY Held DEF Base, Types
<1>2. /\ Elsewhere(s)
      /\ run'[s].worker \in {run[s].worker, None} /\ run'[s].typing \in {run[s].typing, None}
  <2>1. CASE Take(s)
    BY <1>1, <2>1, TakeRun
  <2>2. CASE TypeRecord(s)
    BY <1>1, <2>2, TypeRecordRun
  <2>3. CASE WorkerWait(s)
    <3>1. run[s].worker \in Messages
      BY <1>1, <2>3 DEF Base, Sound, Busy, Run, WorkerWait
    <3>2. \/ Answer(s, "delivered")
          \/ run' = [run EXCEPT ![s].step = "idle", ![s].result = "dropped", ![s].dropped = @ \ {run[s].worker}]
          \/ run' = [run EXCEPT ![s].step = "idle", ![s].result = "posted", ![s].awaiting = @ \cup {run[s].worker}]
      BY <2>3 DEF WorkerWait
    <3> QED BY <1>1, <3>1, <3>2, AnswerRun, WaitDroppedRun, WaitPostedRun
  <2>4. CASE TakeOutcome(s)
    <3>1. run[s].worker \in Messages
      BY <1>1, <2>4 DEF Base, Sound, Busy, Run, TakeOutcome
    <3>2. run[s].result \in {"delivered", "posted", "dropped", "not_ready", "unconfirmed"}
      BY <1>1, <2>4 DEF Run, TakeOutcome
    <3> QED BY <1>1, <2>4, <3>1, <3>2, DeliveredRun, AcceptedRun, ReturnedRun
  <2>5. CASE ReceiptSeen(s)
    BY <1>1, <2>5, ReceiptSeenRun
  <2>6. CASE TakeDropped(s)
    BY <1>1, <2>6, DroppedRun DEF TakeDropped
  <2>7. CASE ReceiptOverdue(s)
    <3>1. PICK m \in run[s].posted, back \in BOOLEAN : LateRun(s, m, back)
      BY <2>7, OverdueIsLate
    <3>2. Types /\ m \in run[s].posted /\ back \in BOOLEAN /\ LateRun(s, m, back)
      BY <1>1, <3>1
    <3>3. Elsewhere(s) /\ run'[s].worker = run[s].worker /\ run'[s].typing = run[s].typing
      BY <3>2, OverdueRun, Zenon
    <3> QED BY <3>3
  <2>8. CASE MenuShows(s) \/ MenuGone(s) \/ End(s)
    BY <1>1, <2>8, MenuRun, MenuGoneRun, EndRun
  <2>9. CASE EndRecord(s) \/ Kill(s) \/ StartRun(s)
    <3>1. PICK on \in {"on", "off"} : run' = [run EXCEPT ![s] = [Off EXCEPT !.on = on]]
      BY <2>9, EmptyRun DEF EndRecord, Kill, StartRun
    <3>2. run'[s] = [Off EXCEPT !.on = on] /\ Elsewhere(s)
      BY <1>1, <3>1 DEF Elsewhere
    <3> QED BY <3>2, EmptyRun
  <2> QED BY <2>1, <2>2, <2>3, <2>4, <2>5, <2>6, <2>7, <2>8, <2>9
<1>3. cli' = cli \/ cli' = [cli EXCEPT ![s] = <<>>]
  BY Zenon DEF Take, TypeRecord, WorkerWait, TakeOutcome, ReceiptSeen, TakeDropped, EndRecord, ReceiptOverdue,
         MenuShows, MenuGone, End, Kill, StartRun
<1>4. (\A t \in Sessions \ {s} : cli'[t] = cli[t]) /\ (cli'[s] = cli[s] \/ cli'[s] = <<>>)
  BY <1>1, <1>3
<1>5. Given(s)' \subseteq Given(s)
  BY <1>4, NoItems DEF Given
<1> QED BY <1>2, <1>4, <1>5 DEF HandsOver

LEMMA WhatIsHandedOver ==
    ASSUME Base, [Next]_vars, NEW t \in Sessions
    PROVE  HandsOver(t)
<1>1. Types /\ \A s \in Sessions : run[s].step # "idle" => run[s].worker \in Messages
  BY Held DEF Base, Sound, Busy, Run
<1>2. CASE cli' = cli /\ run' = run
  BY <1>2 DEF HandsOver, Given
<1>3. ASSUME NEW s \in Sessions, Elsewhere(s), \A u \in Sessions \ {s} : cli'[u] = cli[u], HandsOver(s)
      PROVE  HandsOver(t)
  BY <1>3 DEF HandsOver, Given, Elsewhere
<1>4. ASSUME NEW s \in Sessions, Working(s) PROVE HandsOver(t)
  <2>1. CASE Submit(s)
    BY <1>1, <1>3, <2>1, SubmitHandsOver
  <2>2. CASE TypeWrite(s)
    BY <1>1, <1>3, <2>2, TypeWriteHandsOver
  <2>3. CASE WorkerSend(s)
    <3>1. run[s].worker \in Messages
      BY <1>1, <2>3 DEF WorkerSend
    <3> QED BY <1>1, <1>3, <2>3, <3>1, WorkerSendHandsOver
  <2>4. CASE ~Submit(s) /\ ~TypeWrite(s) /\ ~WorkerSend(s)
    BY <1>3, <1>4, <2>4, NothingHandedOver DEF Working
  <2> QED BY <2>1, <2>2, <2>3, <2>4
<1>5. ASSUME NEW s \in Sessions, CliReads(s) \/ CliLoses(s) PROVE HandsOver(t)
  BY <1>1, <1>3, <1>5, ProgramHandsOver
<1>6. ASSUME NEW s \in Sessions,
             ReceiptOverdue(s) \/ MenuShows(s) \/ MenuGone(s) \/ End(s) \/ Kill(s) \/ StartRun(s)
      PROVE  HandsOver(t)
  BY <1>3, <1>6, NothingHandedOver
<1>7. ASSUME \/ UNCHANGED vars
             \/ \E s \in Sessions : Relaunch(s) \/ \E m \in Messages : Enqueue(m, s)
             \/ \E m \in Messages : Withdraw(m) \/ Discard(m) \/ Invalidate(m)
             \/ \E i \in 1..(Len(Chain) - 1) : Continue(i)
      PROVE  HandsOver(t)
  BY <1>2, <1>7 DEF vars, Relaunch, Enqueue, Withdraw, Discard, Invalidate, Continue
<1> QED BY <1>4, <1>5, <1>6, <1>7, Zenon DEF Next

\* A wake that was taken back before it was handed over stays out of the program,
\* in every step of the system, whatever the channel (control.py
\* withdraw_instruction, interactive_supervisor.py _assignment_still_current).
THEOREM TakenBackWakesStayOut == Spec => TakenBackStaysOut
<1>1. Base /\ [Next]_vars =>
        [\A m \in Wakes : Status(m) \in {"withdrawn", "discarded"} /\ ~Handed(m) => ~Handed(m)']_vars
  <2> SUFFICES ASSUME Base, [Next]_vars, NEW m \in Wakes, Status(m) \in {"withdrawn", "discarded"}, ~Handed(m)
               PROVE  ~Handed(m)'
    OBVIOUS
  <2>1. ~Current(m) /\ m # None
    BY InstructionsAssumption DEF Current
  <2>2. ASSUME NEW t \in Sessions
        PROVE  m \notin Given(t)' \cup {run'[t].worker, run'[t].typing}
    BY <2>1, WhatIsHandedOver DEF HandsOver, Handed
  <2> QED BY <2>2 DEF Handed
<1> QED BY <1>1, BaseAlways, PTL DEF Spec, TakenBackStaysOut

(***************************************************************************)
(* The inductive invariant of ReadOnce, about the messages that are not in *)
(* doubt.                                                                  *)
(***************************************************************************)
Known == Messages \ doubted

\* What may still be sent to the program.
Sendable(s) ==
    Ids(inbox[s]) \cup Hand(s)
    \cup {m \in {run[s].worker} : run[s].step = "check" \/ run[s].result \in {"not_ready", "dropped"}}

\* ... and is not marked as a retry.
Fresh(s) ==
    {x.id : x \in {y \in Range(inbox[s]) \cup Range(run[s].hand) : ~y.retry}}
    \cup {m \in {run[s].worker} : (run[s].step = "check" /\ ~run[s].retry) \/ run[s].result = "not_ready"}

Open(m) == Status(m) \in {"none", "queued", "taken", "posted"}
Live(m) == Open(m) \/ \E s \in Sessions : m \in InFlight(s)
Free(m) == \A s \in Sessions : run[s].typing = m => channel = "hook"

Owned == \A s \in Sessions : \A m \in Given(s) : receipts[m].session = s

\* What the program holds was not read, and will not be sent.
InProgram ==
    \A s \in Sessions : \A m \in Known \cap Given(s) :
        /\ read[m] = 0 /\ m \notin seen /\ Lone(cli[s], m)
        /\ \A t \in Sessions : m \notin Sendable(t)

\* The transcript shows whether a live message was read.
Traced ==
    \A m \in Known : Live(m) /\ Free(m) =>
        /\ m \in seen \/ read[m] = 0
        /\ \A s \in Sessions : \A x \in Range(cli[s]) : x.id = m => x.retry

Unseen ==
    /\ \A m \in Messages : Status(m) = "none" => m \notin seen
    /\ \A s \in Sessions : \A m \in Known \cap Fresh(s) : m \notin seen

Typed == channel = "typed" => seen = {}

\* A steered message whose receipt or end is still to come.
Awaited(s, m) ==
    m \in run[s].posted \/ (run[s].worker = m /\ (run[s].step = "wait" \/ run[s].result = "posted"))

Lost(s) == \A m \in Known \cap run[s].dropped : m \notin seen /\ m \notin Given(s) /\ Awaited(s, m)
Sent(s) == channel = "app-server" => \A x \in Range(cli[s]) : x.retry /\ x.id \in Known => Awaited(s, x.id)
Unsure(s) == run[s].result = "unconfirmed" => run[s].worker \in doubted
Bare(s) == channel = "typed" => run[s].step = "idle" /\ \A x \in Range(cli[s]) : ~x.retry
Quiet(s) == run[s].on = "ending" => run[s].typing = None
Tracked(s) == Lost(s) /\ Sent(s) /\ Unsure(s) /\ Bare(s) /\ Quiet(s)

Reading ==
    /\ ReadOnce /\ Owned /\ InProgram /\ Traced /\ Unseen /\ Typed
    /\ \A s \in Sessions : Tracked(s)

LEMMA WhoMaySend ==
    ASSUME Base, NEW s \in Sessions
    PROVE  /\ Fresh(s) \subseteq Sendable(s)
           /\ \A m \in Sendable(s) : m \in Messages /\ receipts[m].session = s /\ (m \in InFlight(s) \/ m \in Ids(inbox[s]))
           /\ \A m \in Given(s) : m \in Messages
<1>1. Types /\ Homes /\ Sound(s) /\ run[s] \in Run /\ run[s].hand \in Seq(Items) /\ inbox[s] \in Seq(Items)
      /\ cli[s] \in Seq(Items) /\ InFlight(s) \subseteq Messages
  BY Held DEF Base
<1>2. Fresh(s) \subseteq Sendable(s)
  <2>1. \A x \in Range(inbox[s]) \cup Range(run[s].hand) : x.id \in Ids(inbox[s]) \cup Hand(s)
    BY <1>1, Holding DEF Hand
  <2> QED BY <2>1 DEF Fresh, Sendable
<1>3. Ids(inbox[s]) \subseteq Messages /\ Given(s) \subseteq Messages /\ Hand(s) \subseteq Messages
  BY <1>1, Holding DEF Given, Hand
<1>4. ASSUME NEW m \in Sendable(s)
      PROVE  m \in Messages /\ receipts[m].session = s /\ (m \in InFlight(s) \/ m \in Ids(inbox[s]))
  <2>1. m \in Ids(inbox[s]) \/ m \in InFlight(s)
    <3>1. run[s].step = "check" \/ run[s].result \in {"not_ready", "dropped"} => run[s].worker # None
      BY <1>1 DEF Sound, Busy
    <3>2. None \notin Messages
      BY InstructionsAssumption
    <3> QED BY <1>3, <3>1, <3>2 DEF Sendable, InFlight, Hand
  <2> QED BY <1>1, <1>3, <2>1 DEF Homes, Sound, Flying
<1> QED BY <1>2, <1>3, <1>4

LEMMA Ranges ==
    ASSUME NEW p \in Seq(Items), NEW q \in Seq(Items), Range(p) \subseteq Range(q)
    PROVE  Ids(p) \subseteq Ids(q)
<1>1. Ids(p) = {x.id : x \in Range(p)} /\ Ids(q) = {x.id : x \in Range(q)}
  BY DEF Ids, Range
<1> QED BY <1>1

\* A step in which nothing is sent and nothing is read.
LEMMA CalmKeeps ==
    ASSUME Base, Reading, Types', UNCHANGED <<seen, read, channel>>, doubted \subseteq doubted',
           \A s \in Sessions : Range(cli'[s]) \subseteq Range(cli[s]) /\ \A m \in Messages : Lone(cli[s], m) => Lone(cli'[s], m),
           \A s \in Sessions : \A m \in Given(s) : receipts'[m].session = receipts[m].session,
           \A s \in Sessions : \A m \in Sendable(s)' \ doubted' :
              (\E t \in Sessions : m \in Sendable(t)) \/ \A u \in Sessions : m \notin Given(u)',
           \A m \in Messages \ doubted' : Live(m)' /\ Free(m)' => Live(m) /\ Free(m),
           \A s \in Sessions : \A m \in Fresh(s)' \ doubted' : (\E t \in Sessions : m \in Fresh(t)) \/ m \notin seen,
           \A m \in Messages : Status(m)' = "none" => Status(m) = "none",
           \A s \in Sessions : Tracked(s)'
    PROVE  Reading'
<1>1. Known' \subseteq Known
  BY DEF Known
<1>2. \A s \in Sessions : Given(s)' \subseteq Given(s) /\ Given(s)' \subseteq Messages
  <2> SUFFICES ASSUME NEW s \in Sessions PROVE Given(s)' \subseteq Given(s) /\ Given(s)' \subseteq Messages
    OBVIOUS
  <2>1. cli[s] \in Seq(Items) /\ cli'[s] \in Seq(Items)
    BY DEF Base, Types
  <2>2. Ids(cli'[s]) \subseteq Ids(cli[s]) /\ Ids(cli'[s]) \subseteq Messages
    BY <2>1, Ranges, Holding
  <2> QED BY <2>2 DEF Given
<1>3. ReadOnce'
  BY <1>1 DEF Reading, ReadOnce, Known
<1>4. Owned'
  BY <1>2 DEF Reading, Owned
<1>5. InProgram'
  <2> SUFFICES ASSUME NEW s \in Sessions, NEW m \in Known' \cap Given(s)'
               PROVE  /\ read'[m] = 0 /\ m \notin seen' /\ Lone(cli'[s], m)
                      /\ \A t \in Sessions : m \notin Sendable(t)'
    BY DEF InProgram
  <2>1. m \in Known /\ m \in Given(s) /\ m \in Messages /\ m \notin doubted'
    BY <1>1, <1>2 DEF Known
  <2>2. /\ read[m] = 0 /\ m \notin seen /\ Lone(cli[s], m)
        /\ \A t \in Sessions : m \notin Sendable(t)
    BY <2>1 DEF Reading, InProgram
  <2>3. \A t \in Sessions : m \notin Sendable(t)'
    BY <2>1, <2>2
  <2> QED BY <2>1, <2>2, <2>3
<1>6. Traced'
  <2> SUFFICES ASSUME NEW m \in Known', Live(m)' /\ Free(m)'
               PROVE  /\ m \in seen' \/ read'[m] = 0
                      /\ \A s \in Sessions : \A x \in Range(cli'[s]) : x.id = m => x.retry
    BY DEF Traced
  <2>1. m \in Known /\ Live(m) /\ Free(m)
    BY <1>1 DEF Known
  <2> QED BY <2>1 DEF Reading, Traced
<1>7. Unseen'
  <2>1. \A m \in Messages : Status(m)' = "none" => m \notin seen'
    BY DEF Reading, Unseen
  <2>2. \A s \in Sessions : \A m \in Known' \cap Fresh(s)' : m \notin seen'
    BY <1>1 DEF Reading, Unseen, Known
  <2> QED BY <2>1, <2>2 DEF Unseen
<1>8. Typed'
  BY DEF Reading, Typed
<1> QED BY <1>3, <1>4, <1>5, <1>6, <1>7, <1>8 DEF Reading

\* A receipt is never opened again.
Opened == \A m \in Messages : /\ Open(m)' => Open(m)
                              /\ Status(m)' = "none" => Status(m) = "none"

\* What the steps of other sessions leave as it is.
LEMMA OthersTracked ==
    ASSUME Reading, NEW t \in Sessions, UNCHANGED <<seen, channel>>, doubted \subseteq doubted',
           run'[t] = run[t], cli'[t] = cli[t]
    PROVE  Tracked(t)'
<1>1. Tracked(t) /\ Known' \subseteq Known /\ Given(t)' = Given(t)
  BY DEF Reading, Known, Given
<1>2. \A m : Awaited(t, m)' <=> Awaited(t, m)
  BY DEF Awaited
<1>3. Lost(t)'
  BY <1>1, <1>2 DEF Tracked, Lost
<1>4. Sent(t)'
  BY <1>1, <1>2 DEF Tracked, Sent
<1>5. Unsure(t)' /\ Bare(t)' /\ Quiet(t)'
  BY <1>1 DEF Tracked, Unsure, Bare, Quiet
<1> QED BY <1>3, <1>4, <1>5 DEF Tracked

AtHome == \A s \in Sessions : \A m \in Sendable(s) : receipts[m].session = s
LEMMA SendersAreHome == Base => AtHome
BY WhoMaySend DEF AtHome

LEMMA CalmStep ==
    ASSUME Base, Base', Reading, NEW s \in Sessions, Alone(s), UNCHANGED <<seen, read>>, doubted \subseteq doubted',
           Opened, \A t \in Sessions \ {s} : inbox'[t] = inbox[t],
           Range(cli'[s]) \subseteq Range(cli[s]), \A m \in Messages : Lone(cli[s], m) => Lone(cli'[s], m),
           \A m \in Sendable(s)' \ doubted' : m \in Sendable(s) \/ m \notin Given(s)',
           \A m \in Fresh(s)' \ doubted' : m \in Fresh(s) \/ m \notin seen,
           \A m \in InFlight(s)' : m \in InFlight(s) \/ Open(m),
           \A m \in Messages \ doubted' :
              run[s].typing = m /\ run'[s].typing # m => channel = "hook" \/ ~Live(m)',
           Tracked(s)'
    PROVE  Reading'
<1>1. channel' = channel /\ \A t \in Sessions \ {s} : run'[t] = run[t] /\ cli'[t] = cli[t]
  BY DEF Alone, Elsewhere
<1>2. \A t \in Sessions : Tracked(t)'
  BY <1>1, OthersTracked
<1>3. \A t \in Sessions : Range(cli'[t]) \subseteq Range(cli[t]) /\ \A m \in Messages : Lone(cli[t], m) => Lone(cli'[t], m)
  BY <1>1
<1>4. \A t \in Sessions : \A m \in Given(t) : receipts'[m].session = receipts[m].session
  <2> SUFFICES ASSUME NEW t \in Sessions, NEW m \in Given(t) PROVE receipts'[m].session = receipts[m].session
    OBVIOUS
  <2>1. m \in Messages /\ receipts[m].session = t
    BY WhoMaySend DEF Reading, Owned
  <2> QED BY <2>1, InstructionsAssumption DEF Alone
<1>5. \A t \in Sessions \ {s} : Sendable(t)' = Sendable(t) /\ Fresh(t)' = Fresh(t) /\ InFlight(t)' = InFlight(t)
  BY <1>1 DEF Sendable, Fresh, Hand, InFlight
<1>6. \A t \in Sessions : \A m \in Given(t)' : m \in Given(t)
  <2> SUFFICES ASSUME NEW t \in Sessions PROVE Given(t)' \subseteq Given(t)
    OBVIOUS
  <2>1. cli[t] \in Seq(Items) /\ cli'[t] \in Seq(Items)
    BY DEF Base, Types
  <2> QED BY <1>3, <2>1, Ranges DEF Given
<1>7. \A t \in Sessions : \A m \in Sendable(t)' \ doubted' :
         (\E u \in Sessions : m \in Sendable(u)) \/ \A u \in Sessions : m \notin Given(u)'
  <2> SUFFICES ASSUME NEW t \in Sessions, NEW m \in Sendable(t)' \ doubted', NEW u \in Sessions, m \in Given(u)'
               PROVE  \E v \in Sessions : m \in Sendable(v)
    OBVIOUS
  <2>1. m \in Given(u) /\ receipts[m].session = u /\ receipts'[m].session = u
    BY <1>4, <1>6 DEF Reading, Owned
  <2>2. receipts'[m].session = t
    <3>1. AtHome'
      BY SendersAreHome, PTL
    <3> QED BY <3>1 DEF AtHome
  <2>3. CASE t = s
    BY <2>1, <2>2, <2>3
  <2>4. CASE t # s
    BY <1>5, <2>4
  <2> QED BY <2>3, <2>4
<1>8. ASSUME NEW m \in Messages \ doubted', Live(m)', Free(m)' PROVE Live(m) /\ Free(m)
  <2>1. Live(m)
    <3>1. CASE Open(m)'
      BY <3>1 DEF Live, Opened
    <3>2. ASSUME NEW t \in Sessions, m \in InFlight(t)' PROVE Live(m)
      <4>1. CASE t = s
        BY <3>2, <4>1 DEF Live
      <4>2. CASE t # s
        BY <1>5, <3>2, <4>2 DEF Live
      <4> QED BY <4>1, <4>2
    <3> QED BY <1>8, <3>1, <3>2 DEF Live
  <2>2. Free(m)
    <3> SUFFICES ASSUME NEW t \in Sessions, run[t].typing = m, channel # "hook" PROVE FALSE
      BY DEF Free
    <3>1. t = s
      BY <1>1, <1>8 DEF Free
    <3>2. run'[s].typing # m
      BY <1>1, <1>8 DEF Free
    <3> QED BY <1>8, <3>1, <3>2, InstructionsAssumption
  <2> QED BY <2>1, <2>2
<1>9. \A t \in Sessions : \A m \in Fresh(t)' \ doubted' : (\E u \in Sessions : m \in Fresh(u)) \/ m \notin seen
  BY <1>5
<1>10. UNCHANGED <<seen, read, channel>> /\ Types'
  BY <1>1 DEF Base
<1>11. \A m \in Messages : Status(m)' = "none" => Status(m) = "none"
  BY DEF Opened
<1> QED BY <1>2, <1>3, <1>4, <1>7, <1>8, <1>9, <1>10, <1>11, CalmKeeps

\* What a session that hands nothing over still knows of its steered messages.
LEMMA TrackedStays ==
    ASSUME NEW s \in Sessions, Tracked(s), Steered(s), Types, Types',
           UNCHANGED <<seen, channel>>, doubted \subseteq doubted', Range(cli'[s]) \subseteq Range(cli[s]),
           run'[s].dropped \subseteq run[s].dropped,
           \A m \in Known : channel = "app-server" /\ m \notin seen /\ Awaited(s, m)
              => Awaited(s, m)' \/ (m \notin run'[s].dropped /\ m \notin Given(s)),
           Unsure(s)', channel = "typed" => run'[s].step = "idle", Quiet(s)',
           channel = "app-server" => InProgram
    PROVE  Tracked(s)'
<1>1. cli[s] \in Seq(Items) /\ cli'[s] \in Seq(Items) /\ Known' \subseteq Known /\ Known' \subseteq Messages
  BY DEF Types, Known
<1>2. Given(s)' \subseteq Given(s)
  BY <1>1, Ranges DEF Given
<1>3. ASSUME NEW m \in Known', m \in run'[s].dropped
      PROVE  m \notin seen' /\ m \notin Given(s)' /\ Awaited(s, m)'
  <2>1. channel = "app-server" /\ m \in run[s].dropped /\ m \in Known
    BY <1>1, <1>3 DEF Steered
  <2>2. m \notin seen /\ m \notin Given(s) /\ Awaited(s, m)
    BY <2>1 DEF Tracked, Lost
  <2> QED BY <1>2, <1>3, <2>1, <2>2
<1>4. Lost(s)'
  BY <1>3 DEF Lost
<1>5. ASSUME channel' = "app-server", NEW x \in Range(cli'[s])
      PROVE  x.retry /\ x.id \in Known' => Awaited(s, x.id)'
  <2> SUFFICES ASSUME x.retry, NEW m \in Known', m = x.id PROVE Awaited(s, m)'
    OBVIOUS
  <2>1. x \in Range(cli[s]) /\ m \in Known /\ m \in Given(s)
    BY <1>1, Holding DEF Given
  <2>2. Awaited(s, m) /\ m \notin seen
    BY <1>5, <2>1 DEF Tracked, Sent, InProgram
  <2> QED BY <1>5, <2>1, <2>2
<1>6. Sent(s)'
  BY <1>5 DEF Sent
<1>7. Bare(s)'
  BY DEF Tracked, Bare
<1> QED BY <1>4, <1>6, <1>7 DEF Tracked

\* A calm step of a supervisor or its program that leaves the queues alone.
LEMMA CalmHere ==
    ASSUME Base, Base', Reading, NEW s \in Sessions, Elsewhere(s), Here(s), UNCHANGED <<seen, read>>,
           doubted \subseteq doubted',
           Range(cli'[s]) \subseteq Range(cli[s]), \A m \in Messages : Lone(cli[s], m) => Lone(cli'[s], m),
           \A m \in Sendable(s)' \ doubted' : m \in Sendable(s) \/ m \notin Given(s)',
           \A m \in Fresh(s)' \ doubted' : m \in Fresh(s) \/ m \notin seen,
           InFlight(s)' \subseteq InFlight(s),
           \A m \in Messages \ doubted' :
              run[s].typing = m /\ run'[s].typing # m => channel = "hook" \/ ~Live(m)',
           Tracked(s)'
    PROVE  Reading'
<1>1. Alone(s)
  BY DEF Alone, Here
<1>2. Opened
  BY DEF Opened, Open, Here, Status
<1>3. inbox' = inbox
  BY DEF Here
<1> QED BY <1>1, <1>2, <1>3, CalmStep

\* take_instructions
LEMMA TakeReads ==
    ASSUME Base, Base', Reading, NEW s \in Sessions, Take(s)
    PROVE  Reading'
<1>1. Types /\ Types' /\ Homes /\ Sound(s) /\ Tracked(s) /\ InProgram
  BY DEF Base, Reading
<1>2. /\ Elsewhere(s) /\ run'[s].hand = run[s].hand \o inbox[s]
      /\ run'[s].on = run[s].on /\ run'[s].worker = run[s].worker
      /\ run'[s].retry = run[s].retry /\ run'[s].step = run[s].step
      /\ run'[s].result = run[s].result /\ run'[s].typing = run[s].typing
      /\ run'[s].posted = run[s].posted /\ run'[s].dropped = run[s].dropped
  BY <1>1, TakeRun
<1>3. /\ UNCHANGED <<session, cli, seen, read, channel, doubted>>
      /\ inbox' = [inbox EXCEPT ![s] = <<>>]
      /\ receipts' = [m \in Messages |-> IF m \in Ids(inbox[s])
                        THEN [receipts[m] EXCEPT !.status = "taken"] ELSE receipts[m]]
  BY DEF Take
<1>4. /\ run[s].hand \in Seq(Items) /\ inbox[s] \in Seq(Items) /\ receipts \in Receipts
      /\ inbox \in [Sessions -> Seq(Items)]
  BY <1>1, Held DEF Types
<1>5. Ids(inbox[s]) \subseteq Messages /\ \A m \in Ids(inbox[s]) : Status(m) = "queued" /\ receipts[m].session = s
  BY <1>1, <1>4, Holding DEF Homes
<1>6. inbox'[s] = <<>> /\ \A t \in Sessions \ {s} : inbox'[t] = inbox[t]
  BY <1>3, <1>4
<1>7. Hand(s)' = Hand(s) \cup Ids(inbox[s]) /\ Range(run'[s].hand) = Range(run[s].hand) \cup Range(inbox[s])
  BY <1>2, <1>4, Joined DEF Hand
<1>8. Sendable(s)' \subseteq Sendable(s)
  BY <1>2, <1>6, <1>7, NoItems DEF Sendable
<1>9. Fresh(s)' \subseteq Fresh(s)
  BY <1>2, <1>6, <1>7, NoItems DEF Fresh
<1>10. \A m \in InFlight(s)' : m \in InFlight(s) \/ Open(m)
  BY <1>2, <1>5, <1>7 DEF InFlight, Hand, Open
<1>11. \A m \in Messages : /\ receipts'[m].session = receipts[m].session
                           /\ receipts'[m] = receipts[m] \/ (m \in Ids(inbox[s]) /\ Status(m)' = "taken")
  BY <1>3, <1>4 DEF Receipts, Status, Statuses
<1>12. Alone(s)
  BY <1>2, <1>3, <1>5, <1>11 DEF Alone
<1>13. Opened
  BY <1>5, <1>11 DEF Opened, Open, Status
<1>14. Tracked(s)'
  <2>1. \A m : Awaited(s, m) => Awaited(s, m)'
    BY <1>2 DEF Awaited
  <2>2. Unsure(s)' /\ Quiet(s)' /\ (channel = "typed" => run'[s].step = "idle")
    BY <1>1, <1>2, <1>3 DEF Tracked, Unsure, Quiet, Bare
  <2> QED BY <1>1, <1>2, <1>3, <2>1, <2>2, TrackedStays DEF Sound
<1> QED BY <1>1, <1>2, <1>3, <1>6, <1>8, <1>9, <1>10, <1>12, <1>13, <1>14, CalmStep

LEMMA MenuGoneReads ==
    ASSUME Base, Base', Reading, NEW s \in Sessions, MenuGone(s)
    PROVE  Reading'
<1>1. Types /\ Types' /\ Sound(s) /\ Tracked(s) /\ InProgram
  BY DEF Base, Reading
<1>2. /\ Elsewhere(s)
      /\ run'[s].on = run[s].on /\ run'[s].hand = run[s].hand
      /\ run'[s].worker = run[s].worker /\ run'[s].retry = run[s].retry
      /\ run'[s].step = run[s].step /\ run'[s].result = run[s].result
      /\ run'[s].typing = run[s].typing /\ run'[s].posted = run[s].posted
      /\ run'[s].dropped = run[s].dropped
  BY <1>1, MenuGoneRun
<1>3. UNCHANGED <<receipts, inbox, session, cli, seen, read, channel, doubted>> /\ run[s].on = "on"
  BY DEF MenuGone
<1>4. Sendable(s)' = Sendable(s) /\ Fresh(s)' = Fresh(s) /\ InFlight(s)' = InFlight(s)
  BY <1>2, <1>3 DEF Sendable, Fresh, InFlight, Hand
<1>5. Here(s)
  BY <1>2, <1>3 DEF Here
<1>6. Tracked(s)'
  <2>1. \A m : Awaited(s, m) => Awaited(s, m)'
    BY <1>2 DEF Awaited
  <2>2. Unsure(s)' /\ Quiet(s)' /\ (channel = "typed" => run'[s].step = "idle")
    BY <1>1, <1>2, <1>3 DEF Tracked, Unsure, Quiet, Bare
  <2> QED BY <1>1, <1>2, <1>3, <2>1, <2>2, TrackedStays DEF Sound
<1> QED BY <1>2, <1>3, <1>4, <1>5, <1>6, CalmHere

LEMMA SubmitReads ==
    ASSUME Base, Base', Reading, NEW s \in Sessions, Submit(s)
    PROVE  Reading'
<1>1. Types /\ Types' /\ Sound(s) /\ Tracked(s) /\ InProgram
  BY DEF Base, Reading
<1>2. /\ Elsewhere(s) /\ run'[s].hand = Tail(run[s].hand)
      /\ run'[s].worker = IF Current(Tip(s).id) THEN Tip(s).id ELSE None
      /\ run'[s].retry = Tip(s).retry
      /\ run'[s].step = IF Current(Tip(s).id) THEN "check" ELSE "idle"
      /\ run'[s].on = run[s].on /\ run'[s].result = run[s].result
      /\ run'[s].typing = run[s].typing /\ run'[s].posted = run[s].posted
      /\ run'[s].dropped = run[s].dropped
  BY <1>1, SubmitRun
<1>3. /\ run[s].on = "on" /\ run[s].hand # <<>> /\ run[s].worker = None /\ run[s].result = "none"
      /\ channel # "typed"
      /\ UNCHANGED <<receipts, inbox, session, cli, seen, read, channel, doubted>>
  BY DEF Submit, MayWrite, Delivers
<1>4. run[s].hand \in Seq(Items) /\ run'[s].hand \in Seq(Items) /\ None \notin Messages
  BY <1>1, Held, <1>2, <1>3, HeadAndTail
<1>5. /\ Range(run[s].hand) = {Tip(s)} \cup Range(run'[s].hand) /\ Hand(s) = {Tip(s).id} \cup Hand(s)'
      /\ Tip(s).id \in Messages
  BY <1>2, <1>3, <1>4, HeadAndTail, TipAndRest DEF Tip, Hand
<1>6. Sendable(s)' \subseteq Sendable(s) \cup {None}
  BY <1>2, <1>3, <1>5 DEF Sendable
<1>7. \A m \in Fresh(s)' : m \in Fresh(s)
  <2>1. \A x \in Range(run'[s].hand) : x \in Range(run[s].hand)
    BY <1>5
  <2>2. run'[s].step = "check" /\ ~run'[s].retry =>
          run'[s].worker = Tip(s).id /\ Tip(s) \in Range(run[s].hand) /\ ~Tip(s).retry
    BY <1>2, <1>5
  <2>3. run'[s].result # "not_ready"
    BY <1>2, <1>3
  <2> QED BY <1>3, <2>1, <2>2, <2>3 DEF Fresh
<1>8. InFlight(s)' \subseteq InFlight(s)
  BY <1>2, <1>3, <1>5 DEF InFlight, Hand
<1>9. Here(s)
  BY <1>2, <1>3 DEF Here
<1>10. \A m \in Sendable(s)' : m \in Sendable(s) \/ m \notin Given(s)'
  <2>1. None \notin Given(s)'
    BY <1>1, <1>4, Holding DEF Given, Types
  <2> QED BY <1>6, <2>1
<1>11. Tracked(s)'
  <2>1. \A m \in Messages : Awaited(s, m) => Awaited(s, m)'
    BY <1>2, <1>3, <1>4 DEF Awaited
  <2>2. Unsure(s)' /\ Quiet(s)' /\ Known \subseteq Messages
    BY <1>1, <1>2, <1>3 DEF Tracked, Unsure, Quiet, Known
  <2> QED BY <1>1, <1>2, <1>3, <2>1, <2>2, TrackedStays DEF Sound
<1> QED BY <1>2, <1>3, <1>7, <1>8, <1>9, <1>10, <1>11, CalmHere

\* return_instructions
LEMMA ReturnReads ==
    ASSUME Base, Base', Reading, NEW s \in Sessions, run[s].on = "on",
           receipts' = Requeued(Returnable(run[s].hand)),
           inbox' = [inbox EXCEPT ![s] = Returnable(run[s].hand) \o @],
           Elsewhere(s), run'[s].hand = <<>>,
           run'[s].worker = run[s].worker, run'[s].step = run[s].step, run'[s].result = run[s].result,
           run'[s].retry = run[s].retry,
           run'[s].typing = run[s].typing, run'[s].posted = run[s].posted, run'[s].dropped = run[s].dropped,
           UNCHANGED <<session, seen, read, channel, doubted>>,
           \A t \in Sessions \ {s} : cli'[t] = cli[t],
           Range(cli'[s]) \subseteq Range(cli[s]), \A m \in Messages : Lone(cli[s], m) => Lone(cli'[s], m),
           Quiet(s)'
    PROVE  Reading'
<1>1. Types /\ Types' /\ Sound(s) /\ Tracked(s) /\ InProgram /\ run[s].hand \in Seq(Items)
      /\ inbox[s] \in Seq(Items) /\ inbox \in [Sessions -> Seq(Items)] /\ Hand(s) \subseteq Messages
      /\ None \notin Messages
  BY Held DEF Base, Reading, Types
<1>2. PICK back : back = Returnable(run[s].hand)
  OBVIOUS
<1>3. back \in Seq(Items) /\ Ids(back) = {m \in Hand(s) : Status(m) = "taken"} /\ Range(back) \subseteq Range(run[s].hand)
  BY <1>1, <1>2, ReturnableItems DEF Hand
<1>4. \A m \in Messages :
        /\ receipts'[m].session = receipts[m].session
        /\ Status(m)' = IF m \in Ids(back) THEN "queued" ELSE Status(m)
        /\ m \notin Ids(back) => receipts'[m] = receipts[m]
  <2>1. \A m \in Messages : m \notin Ids(back) => receipts'[m] = receipts[m]
    BY <1>2 DEF Requeued
  <2> QED BY <1>1, <1>2, <2>1, RequeuedReceipts
<1>5. \A m \in Ids(back) : m \in InFlight(s) /\ receipts[m].session = s /\ Status(m) = "taken"
  <2>1. \A m \in Hand(s) : m \in InFlight(s)
    BY <1>1 DEF InFlight, Hand
  <2> QED BY <1>1, <1>3, <2>1 DEF Sound, Flying
<1>6. /\ Range(inbox'[s]) = Range(back) \cup Range(inbox[s]) /\ Ids(inbox'[s]) = Ids(back) \cup Ids(inbox[s])
      /\ \A t \in Sessions \ {s} : inbox'[t] = inbox[t]
  <2>1. inbox'[s] = back \o inbox[s] /\ \A t \in Sessions \ {s} : inbox'[t] = inbox[t]
    BY <1>1, <1>2
  <2>2. Range(back \o inbox[s]) = Range(back) \cup Range(inbox[s]) /\ Ids(back \o inbox[s]) = Ids(back) \cup Ids(inbox[s])
    BY <1>1, <1>3, Joined
  <2> QED BY <2>1, <2>2
<1>7. Hand(s)' = {} /\ Range(run'[s].hand) = {}
  BY NoItems DEF Hand
<1>8. Sendable(s)' \subseteq Sendable(s)
  BY <1>3, <1>6, <1>7 DEF Sendable
<1>9. Fresh(s)' \subseteq Fresh(s)
  BY <1>3, <1>6, <1>7 DEF Fresh
<1>10. InFlight(s)' \subseteq InFlight(s)
  BY <1>7 DEF InFlight, Hand
<1>11. Alone(s)
  BY <1>4, <1>5 DEF Alone
<1>12. Opened
  BY <1>4, <1>5 DEF Opened, Open
<1>13. Tracked(s)'
  <2>1. \A m : Awaited(s, m) => Awaited(s, m)'
    BY DEF Awaited
  <2>2. Unsure(s)' /\ (channel = "typed" => run'[s].step = "idle")
    BY <1>1 DEF Tracked, Unsure, Bare
  <2> QED BY <1>1, <2>1, <2>2, TrackedStays DEF Sound
<1> QED BY <1>6, <1>8, <1>9, <1>10, <1>11, <1>12, <1>13, CalmStep

LEMMA MenuShowsReads ==
    ASSUME Base, Base', Reading, NEW s \in Sessions, MenuShows(s)
    PROVE  Reading'
<1>1. Types
  BY DEF Base
<1>2. /\ run[s].on = "on"
      /\ receipts' = Requeued(Returnable(run[s].hand))
      /\ inbox' = [inbox EXCEPT ![s] = Returnable(run[s].hand) \o @]
      /\ UNCHANGED <<session, cli, seen, read, channel, doubted>>
  BY DEF MenuShows
<1>3. Quiet(s)'
  BY <1>1, <1>2, MenuRun DEF Quiet
<1> QED BY <1>1, <1>2, <1>3, MenuRun, ReturnReads

LEMMA EndReads ==
    ASSUME Base, Base', Reading, NEW s \in Sessions, End(s)
    PROVE  Reading'
<1>1. Types
  BY DEF Base
<1>2. /\ run[s].on = "on" /\ run[s].typing = None
      /\ receipts' = Requeued(Returnable(run[s].hand))
      /\ inbox' = [inbox EXCEPT ![s] = Returnable(run[s].hand) \o @]
      /\ cli' = [cli EXCEPT ![s] = <<>>]
      /\ UNCHANGED <<session, seen, read, channel, doubted>>
  BY DEF End
<1>3. Quiet(s)'
  BY <1>1, <1>2, EndRun DEF Quiet
<1>4. cli'[s] = <<>> /\ \A t \in Sessions \ {s} : cli'[t] = cli[t]
  BY <1>1, <1>2 DEF Types
<1>5. Range(cli'[s]) \subseteq Range(cli[s]) /\ \A m \in Messages : Lone(cli'[s], m)
  BY <1>4, NoItems
<1> QED BY <1>1, <1>2, <1>3, <1>4, <1>5, EndRun, ReturnReads

\* A session whose supervisor holds nothing, and whose program has nothing.
LEMMA EmptyTracked ==
    ASSUME NEW s \in Sessions, NEW on \in {"on", "off"}, run'[s] = [Off EXCEPT !.on = on], cli'[s] = <<>>
    PROVE  Tracked(s)'
<1>1. /\ run'[s].dropped = {} /\ run'[s].result = "none" /\ run'[s].step = "idle" /\ run'[s].typing = None
      /\ Range(cli'[s]) = {}
  BY EmptyRun, NoItems
<1> QED BY <1>1 DEF Tracked, Lost, Sent, Unsure, Bare, Quiet

LEMMA StopReads ==
    ASSUME Base, Base', Reading, NEW s \in Sessions, run' = [run EXCEPT ![s] = Off],
           session' = [session EXCEPT ![s] = "ended"], cli' = [cli EXCEPT ![s] = <<>>],
           UNCHANGED <<inbox, seen, read, channel>>, doubted \subseteq doubted',
           receipts' = receipts \/ \E ids : receipts' = Posted(receipts, s, ids),
           channel = "hook" \/ run[s].typing \in doubted' \cup {None}
    PROVE  Reading'
<1>1. Types /\ None \notin Messages
  BY InstructionsAssumption DEF Base
<1>2. Settles(s)
  BY <1>1, ReceiptsSettle
<1>3. /\ \A t \in Sessions \ {s} : run'[t] = run[t] /\ cli'[t] = cli[t] /\ session'[t] = session[t]
      /\ run'[s] = Off /\ cli'[s] = <<>>
  BY <1>1 DEF Types
<1>4. Alone(s)
  BY <1>2, <1>3 DEF Alone, Elsewhere, Settles
<1>5. Opened
  BY <1>2 DEF Opened, Open, Settles, Status
<1>6. run'[s] = [Off EXCEPT !.on = "off"] /\ cli'[s] = <<>>
  BY <1>3, EmptyRun
<1>7. /\ run'[s].hand = <<>> /\ run'[s].worker = None /\ run'[s].step = "idle" /\ run'[s].result = "none"
      /\ run'[s].typing = None /\ run'[s].posted = {}
  BY <1>6, EmptyRun
<1>8. Sendable(s)' \subseteq Sendable(s)
  BY <1>7, NoItems DEF Sendable, Hand
<1>9. Fresh(s)' \subseteq Fresh(s)
  BY <1>7, NoItems DEF Fresh
<1>10. InFlight(s)' \subseteq InFlight(s)
  BY <1>7, NoItems DEF InFlight
<1>11. Range(cli'[s]) \subseteq Range(cli[s]) /\ \A m \in Messages : Lone(cli'[s], m)
  BY <1>3, NoItems
<1>12. Tracked(s)'
  BY <1>6, EmptyTracked
<1> QED BY <1>1, <1>4, <1>5, <1>8, <1>9, <1>10, <1>11, <1>12, CalmStep

LEMMA EndRecordReads ==
    ASSUME Base, Base', Reading, NEW s \in Sessions, EndRecord(s)
    PROVE  Reading'
<1>1. /\ run' = [run EXCEPT ![s] = Off] /\ session' = [session EXCEPT ![s] = "ended"]
      /\ cli' = [cli EXCEPT ![s] = <<>>] /\ UNCHANGED <<inbox, seen, read, channel, doubted>>
      /\ receipts' = receipts \/ receipts' = Posted(receipts, s, {run[s].worker})
      /\ run[s].on = "ending"
  BY DEF EndRecord
<1>2. run[s].typing = None
  BY <1>1 DEF Reading, Tracked, Quiet
<1> QED BY <1>1, <1>2, StopReads

LEMMA KillReads ==
    ASSUME Base, Base', Reading, NEW s \in Sessions, Kill(s)
    PROVE  Reading'
<1>1. /\ run' = [run EXCEPT ![s] = Off] /\ session' = [session EXCEPT ![s] = "ended"]
      /\ cli' = [cli EXCEPT ![s] = <<>>] /\ UNCHANGED <<receipts, inbox, seen, read, channel>>
      /\ doubted' = IF channel = "hook" THEN doubted ELSE doubted \cup ({run[s].typing} \ {None})
  BY DEF Kill
<1>2. doubted \subseteq doubted'
  BY <1>1
<1>3. channel = "hook" \/ run[s].typing \in doubted' \cup {None}
  BY <1>1
<1> QED BY <1>1, <1>2, <1>3, StopReads

LEMMA RelaunchReads ==
    ASSUME Base, Base', Reading, NEW s \in Sessions, Relaunch(s)
    PROVE  Reading'
<1>1. Types /\ Types' /\ Tracked(s) /\ Sound(s) /\ InProgram
  BY DEF Base, Reading
<1>2. /\ session' = [session EXCEPT ![s] = "launching"]
      /\ UNCHANGED <<receipts, inbox, run, cli, seen, read, channel, doubted>>
  BY DEF Relaunch
<1>3. Alone(s) /\ Opened
  BY <1>1, <1>2 DEF Types, Alone, Elsewhere, Opened, Open, Status
<1>4. Sendable(s)' = Sendable(s) /\ Fresh(s)' = Fresh(s) /\ InFlight(s)' = InFlight(s)
  BY <1>2 DEF Sendable, Fresh, InFlight, Hand
<1>5. Tracked(s)'
  BY <1>2, OthersTracked
<1> QED BY <1>2, <1>3, <1>4, <1>5, CalmStep

\* reclaim_stranded
LEMMA StartRunReads ==
    ASSUME Base, Base', Reading, NEW s \in Sessions, StartRun(s)
    PROVE  Reading'
<1>1. Types /\ Homes /\ Sound(s) /\ inbox[s] \in Seq(Items) /\ inbox \in [Sessions -> Seq(Items)]
      /\ receipts \in Receipts /\ None \notin Messages
  BY Held DEF Base, Types
<1>2. PICK lost : lost = Stranded(s)
  OBVIOUS
<1>3. /\ session[s] = "launching" /\ session' = [session EXCEPT ![s] = "running"]
      /\ run' = [run EXCEPT ![s] = [Off EXCEPT !.on = "on"]]
      /\ receipts' = [m \in Messages |-> IF m \in lost
                         THEN [receipts[m] EXCEPT !.status = "queued"] ELSE receipts[m]]
      /\ inbox' = [inbox EXCEPT ![s] = Carried(lost) \o @]
      /\ UNCHANGED <<cli, seen, read, channel, doubted>>
  BY <1>2 DEF StartRun
<1>4. /\ lost \in SUBSET Messages
      /\ \A m \in lost : receipts[m].session = s /\ Status(m) \in {"taken", "posted"}
  BY <1>2 DEF Stranded
<1>5. PICK c : c = Carried(lost)
  OBVIOUS
<1>6. c \in Seq(Items) /\ Ids(c) = lost /\ \A x \in Range(c) : x.retry
  BY <1>4, <1>5, CarriedItems
<1>7. /\ Range(inbox'[s]) = Range(c) \cup Range(inbox[s]) /\ Ids(inbox'[s]) = lost \cup Ids(inbox[s])
      /\ \A t \in Sessions \ {s} : inbox'[t] = inbox[t]
  <2>1. inbox'[s] = c \o inbox[s] /\ \A t \in Sessions \ {s} : inbox'[t] = inbox[t]
    BY <1>1, <1>3, <1>5
  <2>2. Range(c \o inbox[s]) = Range(c) \cup Range(inbox[s]) /\ Ids(c \o inbox[s]) = lost \cup Ids(inbox[s])
    BY <1>1, <1>6, Joined
  <2> QED BY <2>1, <2>2
<1>8. \A m \in Messages :
           /\ receipts'[m].session = receipts[m].session
           /\ Status(m)' = IF m \in lost THEN "queued" ELSE Status(m)
           /\ m \notin lost => receipts'[m] = receipts[m]
  BY <1>1, <1>3 DEF Receipts, Status, Statuses
<1>9. run[s] = [Off EXCEPT !.on = "off"] /\ cli[s] = <<>> /\ cli'[s] = <<>>
  BY <1>1, <1>3, EmptyRun DEF Sound, Asleep
<1>10. /\ \A t \in Sessions \ {s} : run'[t] = run[t] /\ session'[t] = session[t]
       /\ run'[s] = [Off EXCEPT !.on = "on"]
  BY <1>1, <1>3 DEF Types
<1>11. /\ run'[s].hand = <<>> /\ run'[s].worker = None /\ run'[s].step = "idle" /\ run'[s].result = "none"
       /\ run'[s].typing = None /\ run'[s].posted = {} /\ run[s].typing = None
  BY <1>9, <1>10, EmptyRun
<1>12. \A m \in Sendable(s)' : m \in Sendable(s) \/ m \notin Given(s)'
  BY <1>9, NoItems DEF Given
<1>13. Fresh(s)' \subseteq Fresh(s)
  BY <1>6, <1>7, <1>11, NoItems DEF Fresh
<1>14. InFlight(s)' \subseteq InFlight(s)
  BY <1>11, NoItems DEF InFlight
<1>15. Alone(s)
  BY <1>3, <1>4, <1>8, <1>10 DEF Alone, Elsewhere
<1>16. Opened
  BY <1>4, <1>8 DEF Opened, Open
<1>17. Tracked(s)'
  BY <1>9, <1>10, EmptyTracked
<1> QED BY <1>1, <1>3, <1>7, <1>11, <1>12, <1>13, <1>14, <1>15, <1>16, <1>17, CalmStep

\* enqueue_instruction
LEMMA EnqueueReads ==
    ASSUME Base, Base', Reading, NEW s \in Sessions, NEW m \in Messages, Enqueue(m, s)
    PROVE  Reading'
<1>1. Types /\ Types' /\ Homes /\ Sound(s) /\ inbox[s] \in Seq(Items) /\ inbox \in [Sessions -> Seq(Items)]
      /\ receipts \in Receipts /\ None \notin Sessions /\ Tracked(s)
  BY Held DEF Base, Types, Reading
<1>2. /\ Status(m) = "none" /\ receipts' = [receipts EXCEPT ![m] = [status |-> "queued", session |-> s]]
      /\ inbox' = [inbox EXCEPT ![s] = Append(@, Item(m, FALSE))]
      /\ UNCHANGED <<session, run, cli, seen, read, channel, doubted>>
  BY DEF Enqueue
<1>3. PICK x : x = Item(m, FALSE)
  OBVIOUS
<1>4. x \in Items /\ x.id = m
  BY <1>3, ItemIsItem
<1>5. receipts[m].session = None
  BY <1>1, <1>2 DEF Homes
<1>6. /\ Range(inbox'[s]) = Range(inbox[s]) \cup {x} /\ Ids(inbox'[s]) = Ids(inbox[s]) \cup {m}
      /\ \A t \in Sessions \ {s} : inbox'[t] = inbox[t]
  <2>1. inbox'[s] = Append(inbox[s], x) /\ \A t \in Sessions \ {s} : inbox'[t] = inbox[t]
    BY <1>1, <1>2, <1>3
  <2>2. Range(Append(inbox[s], x)) = Range(inbox[s]) \cup {x} /\ Ids(Append(inbox[s], x)) = Ids(inbox[s]) \cup {m}
    BY <1>1, <1>4, Appended
  <2> QED BY <2>1, <2>2
<1>7. /\ Status(m)' = "queued" /\ receipts'[m].session = s
      /\ \A y \in Messages \ {m} : receipts'[y] = receipts[y]
  BY <1>1, <1>2 DEF Receipts, Statuses, Status
<1>8. m \notin Given(s)' /\ m \notin seen
  BY <1>1, <1>2, <1>5 DEF Reading, Owned, Unseen, Given
<1>9. Sendable(s)' \subseteq Sendable(s) \cup {m}
  BY <1>2, <1>6 DEF Sendable, Hand
<1>10. Fresh(s)' \subseteq Fresh(s) \cup {m}
  BY <1>2, <1>4, <1>6 DEF Fresh
<1>11. InFlight(s)' = InFlight(s)
  BY <1>2 DEF InFlight
<1>12. Alone(s)
  BY <1>2, <1>5, <1>7 DEF Alone, Elsewhere
<1>13. Opened
  BY <1>2, <1>7 DEF Opened, Open, Status
<1>14. Tracked(s)'
  BY <1>2, OthersTracked
<1> QED BY <1>2, <1>6, <1>8, <1>9, <1>10, <1>11, <1>12, <1>13, <1>14, CalmStep

\* A message that is taken back.
LEMMA TakenBackReads ==
    ASSUME Base, Base', Reading, UNCHANGED <<run, cli, seen, read, channel, doubted>>, Opened,
           \A t \in Sessions : Range(inbox'[t]) \subseteq Range(inbox[t]),
           \A m \in Messages : receipts'[m].session = receipts[m].session
    PROVE  Reading'
<1>1. Types /\ Types'
  BY DEF Base
<1>2. ASSUME NEW t \in Sessions PROVE Sendable(t)' \subseteq Sendable(t) /\ Fresh(t)' \subseteq Fresh(t)
  <2>1. inbox[t] \in Seq(Items) /\ inbox'[t] \in Seq(Items)
    BY <1>1 DEF Types
  <2>2. Ids(inbox'[t]) \subseteq Ids(inbox[t])
    BY <2>1, Ranges
  <2>3. Sendable(t)' \subseteq Sendable(t)
    BY <2>2 DEF Sendable, Hand
  <2>4. Fresh(t)' \subseteq Fresh(t)
    <3>1. \A y \in Range(inbox'[t]) : y \in Range(inbox[t])
      OBVIOUS
    <3> QED BY <3>1 DEF Fresh
  <2> QED BY <2>3, <2>4
<1>3. \A t \in Sessions : \A m \in Given(t) : receipts'[m].session = receipts[m].session
  BY WhoMaySend
<1>4. \A m \in Messages : Live(m)' /\ Free(m)' => Live(m) /\ Free(m)
  <2>1. \A m : Free(m)' <=> Free(m)
    BY DEF Free
  <2>2. \A t : InFlight(t)' = InFlight(t)
    BY DEF InFlight
  <2> QED BY <2>1, <2>2 DEF Live, Opened
<1>5. \A t \in Sessions : Tracked(t)'
  BY OthersTracked
<1>6. \A m \in Messages : Status(m)' = "none" => Status(m) = "none"
  BY DEF Opened
<1>7. \A t \in Sessions : Range(cli'[t]) \subseteq Range(cli[t]) /\ \A m \in Messages : Lone(cli[t], m) => Lone(cli'[t], m)
  OBVIOUS
<1>8. \A t \in Sessions : \A m \in Sendable(t)' \ doubted' :
         (\E u \in Sessions : m \in Sendable(u)) \/ \A u \in Sessions : m \notin Given(u)'
  BY <1>2
<1>9. \A t \in Sessions : \A m \in Fresh(t)' \ doubted' : (\E u \in Sessions : m \in Fresh(u)) \/ m \notin seen
  BY <1>2
<1> QED BY <1>1, <1>3, <1>4, <1>5, <1>6, <1>7, <1>8, <1>9, CalmKeeps

LEMMA DroppedRanges ==
    ASSUME Types, NEW m \in Messages, NEW t,
           inbox' = [inbox EXCEPT ![t] = Drop(@, m)]
    PROVE  \A u \in Sessions : Range(inbox'[u]) \subseteq Range(inbox[u])
<1> SUFFICES ASSUME NEW u \in Sessions PROVE Range(inbox'[u]) \subseteq Range(inbox[u])
  OBVIOUS
<1>1. inbox \in [Sessions -> Seq(Items)] /\ inbox[u] \in Seq(Items)
  BY DEF Types
<1>2. Range(Drop(inbox[u], m)) \subseteq Range(inbox[u])
  BY <1>1, DropItems
<1>3. inbox'[u] = Drop(inbox[u], m) \/ inbox'[u] = inbox[u]
  BY <1>1
<1> QED BY <1>2, <1>3

LEMMA DiscardedReads ==
    ASSUME Base, Base', Reading, NEW m \in Messages, Discarded(m),
           UNCHANGED <<run, cli, seen, read, channel, doubted>>
    PROVE  Reading'
<1>1. Types /\ receipts \in Receipts
  BY DEF Base, Types, Receipts
<1>2. \A t \in Sessions : Range(inbox'[t]) \subseteq Range(inbox[t])
  BY <1>1, DroppedRanges DEF Discarded
<1>3. /\ \A x \in Messages : receipts'[x].session = receipts[x].session
      /\ \A x \in Messages : Status(x)' = Status(x) \/ (Status(x) \in {"queued", "taken"} /\ Status(x)' = "discarded")
  BY <1>1 DEF Discarded, Receipts, Status, Statuses
<1>4. Opened
  BY <1>3 DEF Opened, Open
<1> QED BY <1>2, <1>3, <1>4, TakenBackReads

LEMMA WithdrawReads ==
    ASSUME Base, Base', Reading, NEW m \in Messages, Withdraw(m)
    PROVE  Reading'
<1>1. Types /\ receipts \in Receipts
  BY DEF Base, Types, Receipts
<1>2. UNCHANGED <<run, cli, seen, read, channel, doubted>>
  BY DEF Withdraw
<1>3. CASE Status(m) = "queued"
  <2>1. /\ receipts' = [receipts EXCEPT ![m].status = "withdrawn"]
        /\ inbox' = [inbox EXCEPT ![receipts[m].session] = Drop(@, m)]
    BY <1>3 DEF Withdraw
  <2>2. \A t \in Sessions : Range(inbox'[t]) \subseteq Range(inbox[t])
    BY <1>1, <2>1, DroppedRanges
  <2>3. /\ \A x \in Messages : receipts'[x].session = receipts[x].session
        /\ \A x \in Messages : Status(x)' = Status(x) \/ (Status(x) = "queued" /\ Status(x)' = "withdrawn")
    BY <1>1, <1>3, <2>1 DEF Receipts, Status, Statuses
  <2>4. Opened
    BY <2>3 DEF Opened, Open
  <2> QED BY <1>2, <2>2, <2>3, <2>4, TakenBackReads
<1>4. CASE Status(m) # "queued"
  <2>1. UNCHANGED <<receipts, inbox>>
    BY <1>4 DEF Withdraw
  <2>2. Opened
    BY <2>1 DEF Opened, Open, Status
  <2> QED BY <1>2, <2>1, <2>2, TakenBackReads
<1> QED BY <1>3, <1>4

\* _inherit_cli_memory
LEMMA ContinueReads ==
    ASSUME Base, Base', Reading, NEW i \in 1..(Len(Chain) - 1), Continue(i)
    PROVE  Reading'
<1>1. Types /\ Types' /\ Homes /\ inbox \in [Sessions -> Seq(Items)] /\ receipts \in Receipts
  BY DEF Base, Types, Receipts
<1>2. PICK old \in Sessions, new \in Sessions : old = Chain[i] /\ new = Chain[i + 1] /\ old # new
  <2>1. Chain \in Seq(Sessions) /\ Len(Chain) \in Nat /\ DOMAIN Chain = 1..Len(Chain)
    BY InstructionsAssumption, LenProperties
  <2>2. i \in DOMAIN Chain /\ i + 1 \in DOMAIN Chain /\ i # i + 1
    BY <2>1
  <2> QED BY <2>1, <2>2, InstructionsAssumption, ElementOfSeq DEF IsInjective
<1>3. PICK open : open = {m \in Messages : receipts[m].session = old /\ Status(m) \in {"queued", "taken", "posted"}}
  OBVIOUS
<1>4. /\ session[old] = "ended"
      /\ receipts' = [m \in Messages |-> IF m \in open THEN [status |-> "queued", session |-> new]
                                          ELSE receipts[m]]
      /\ inbox' = [inbox EXCEPT ![old] = <<>>, ![new] = Carried(open) \o @]
      /\ UNCHANGED <<run, cli, seen, read, channel, doubted>>
  BY <1>2, <1>3 DEF Continue
<1>5. PICK c : c = Carried(open)
  OBVIOUS
<1>6. c \in Seq(Items) /\ Ids(c) = open /\ \A x \in Range(c) : x.retry
  BY <1>3, <1>5, CarriedItems
<1>7. /\ inbox'[old] = <<>> /\ inbox'[new] = c \o inbox[new]
      /\ \A t \in Sessions : t # old /\ t # new => inbox'[t] = inbox[t]
  BY <1>1, <1>2, <1>4, <1>5
<1>8. Range(inbox'[new]) = Range(c) \cup Range(inbox[new]) /\ Ids(inbox'[new]) = open \cup Ids(inbox[new])
  <2>1. Range(c \o inbox[new]) = Range(c) \cup Range(inbox[new]) /\ Ids(c \o inbox[new]) = open \cup Ids(inbox[new])
    BY <1>1, <1>6, Joined
  <2> QED BY <1>7, <2>1
<1>9. /\ \A m \in Messages : m \in open => Status(m)' = "queued"
      /\ \A m \in Messages : m \notin open => receipts'[m] = receipts[m]
  BY <1>1, <1>4 DEF Receipts, Status, Statuses
<1>10. ASSUME NEW t \in Sessions, NEW m \in Given(t)
       PROVE  m \in Messages /\ m \notin open /\ receipts'[m].session = receipts[m].session
  <2>1. m \in Messages /\ receipts[m].session = t
    BY WhoMaySend DEF Reading, Owned
  <2>2. Given(old) = {}
    BY <1>2, <1>4, NoItems DEF Base, Sound, Asleep, Given
  <2>3. m \notin open
    BY <1>3, <2>1, <2>2
  <2> QED BY <1>9, <2>1, <2>3
<1>11. ASSUME NEW t \in Sessions PROVE Given(t)' = Given(t) /\ InFlight(t)' = InFlight(t) /\ Tracked(t)'
  BY <1>4, OthersTracked DEF Given, InFlight
<1>12. ASSUME NEW t \in Sessions
       PROVE  Sendable(t)' \subseteq Sendable(t) \cup open /\ Fresh(t)' \subseteq Fresh(t)
  <2>1. CASE t = new
    <3>1. Sendable(t)' \subseteq Sendable(t) \cup open
      BY <1>4, <1>8, <2>1 DEF Sendable, Hand
    <3>2. Fresh(t)' \subseteq Fresh(t)
      BY <1>4, <1>6, <1>8, <2>1 DEF Fresh
    <3> QED BY <3>1, <3>2
  <2>2. CASE t = old
    <3>1. Ids(inbox'[t]) = {} /\ Range(inbox'[t]) = {}
      BY <1>7, <2>2, NoItems
    <3> QED BY <1>4, <3>1 DEF Sendable, Fresh, Hand
  <2>3. CASE t # old /\ t # new
    BY <1>4, <1>7, <2>3 DEF Sendable, Fresh, Hand
  <2> QED BY <2>1, <2>2, <2>3
<1>13. Opened
  <2>1. \A m \in open : Status(m) \in {"queued", "taken", "posted"}
    BY <1>3
  <2> QED BY <1>9, <2>1 DEF Opened, Open, Status
<1>14. \A m \in Messages : Live(m)' /\ Free(m)' => Live(m) /\ Free(m)
  <2>1. \A m : Free(m)' <=> Free(m)
    BY <1>4 DEF Free
  <2> QED BY <1>11, <1>13, <2>1 DEF Live, Opened
<1>15. \A t \in Sessions : \A m \in Sendable(t)' \ doubted' :
         (\E u \in Sessions : m \in Sendable(u)) \/ \A u \in Sessions : m \notin Given(u)'
  BY <1>10, <1>11, <1>12
<1>16. \A t \in Sessions : \A m \in Fresh(t)' \ doubted' : (\E u \in Sessions : m \in Fresh(u)) \/ m \notin seen
  BY <1>12
<1>17. \A t \in Sessions : \A m \in Given(t) : receipts'[m].session = receipts[m].session
  BY <1>10
<1>18. \A m \in Messages : Status(m)' = "none" => Status(m) = "none"
  BY <1>13 DEF Opened
<1>19. \A t \in Sessions : Range(cli'[t]) \subseteq Range(cli[t]) /\ \A m \in Messages : Lone(cli[t], m) => Lone(cli'[t], m)
  BY <1>4
<1>20. UNCHANGED <<seen, read, channel>> /\ doubted \subseteq doubted' /\ \A t \in Sessions : Tracked(t)'
  BY <1>4, <1>11
<1> QED BY <1>1, <1>14, <1>15, <1>16, <1>17, <1>18, <1>19, <1>20, CalmKeeps

LEMMA WorkerWaitReads ==
    ASSUME Base, Base', Reading, NEW s \in Sessions, WorkerWait(s)
    PROVE  Reading'
<1>1. Types /\ Types' /\ Sound(s) /\ Tracked(s) /\ InProgram /\ run[s] \in Run
  BY Held DEF Base, Reading
<1>2. PICK m : m = run[s].worker
  OBVIOUS
<1>3. /\ run[s].on # "off" /\ run[s].step = "wait" /\ run[s].result = "none"
      /\ UNCHANGED <<receipts, inbox, session, cli, seen, read, channel, doubted>> /\ m \in Messages
  BY <1>1, <1>2 DEF WorkerWait, Sound, Busy, Run
<1>4. /\ Elsewhere(s) /\ run'[s].step = "idle"
      /\ run'[s].on = run[s].on /\ run'[s].hand = run[s].hand
      /\ run'[s].worker = run[s].worker /\ run'[s].typing = run[s].typing /\ run'[s].posted = run[s].posted
      /\ \/ m \in seen /\ run'[s].result = "delivered" /\ run'[s].dropped = run[s].dropped
         \/ m \in run[s].dropped /\ run'[s].result = "dropped" /\ run'[s].dropped = run[s].dropped \ {m}
         \/ run'[s].result = "posted" /\ run'[s].dropped = run[s].dropped
  <2>1. CASE m \in seen /\ Answer(s, "delivered")
    BY <1>1, <2>1, AnswerRun
  <2>2. CASE m \in run[s].dropped /\ run' = [run EXCEPT ![s].step = "idle", ![s].result = "dropped",
                                                       ![s].dropped = @ \ {m}]
    BY <1>1, <1>2, <2>2, WaitDroppedRun
  <2>3. CASE run' = [run EXCEPT ![s].step = "idle", ![s].result = "posted", ![s].awaiting = @ \cup {m}]
    BY <1>1, <1>2, <1>3, <2>3, WaitPostedRun
  <2> QED BY <1>2, <2>1, <2>2, <2>3 DEF WorkerWait
<1>5. ASSUME m \in Known, run'[s].result = "dropped" PROVE m \notin Given(s)
  BY <1>1, <1>4, <1>5 DEF Tracked, Lost
<1>6. \A x \in Sendable(s)' \ doubted' : x \in Sendable(s) \/ x \notin Given(s)'
  <2> SUFFICES ASSUME NEW x \in Sendable(s)' \ doubted', x \notin Sendable(s) PROVE x \notin Given(s)'
    OBVIOUS
  <2>1. x = m /\ run'[s].result = "dropped"
    BY <1>2, <1>3, <1>4 DEF Sendable, Hand
  <2> QED BY <1>3, <1>5, <2>1 DEF Given, Known
<1>7. Fresh(s)' \subseteq Fresh(s)
  BY <1>3, <1>4 DEF Fresh
<1>8. InFlight(s)' \subseteq InFlight(s)
  BY <1>4 DEF InFlight
<1>9. Here(s)
  BY <1>3, <1>4 DEF Here, Elsewhere
<1>10. Tracked(s)'
  <2>1. ASSUME NEW x \in Known, x \notin seen, Awaited(s, x)
        PROVE  Awaited(s, x)' \/ (x \notin run'[s].dropped /\ x \notin Given(s))
    BY <1>2, <1>3, <1>4, <1>5, <2>1 DEF Awaited
  <2>2. Unsure(s)' /\ Quiet(s)'
    BY <1>1, <1>3, <1>4 DEF Tracked, Unsure, Quiet
  <2>3. run'[s].dropped \subseteq run[s].dropped
    BY <1>4
  <2> QED BY <1>1, <1>3, <1>4, <2>1, <2>2, <2>3, TrackedStays DEF Sound
<1> QED BY <1>3, <1>4, <1>6, <1>7, <1>8, <1>9, <1>10, CalmHere

\* The worker answers without a send.
LEMMA WorkerAnswersReads ==
    ASSUME Base, Base', Reading, NEW s \in Sessions, run[s].on # "off", run[s].step = "check",
           NEW result \in {"delivered", "not_ready"}, Answer(s, result),
           result = "not_ready" => ~AlreadyThere(s),
           UNCHANGED <<receipts, inbox, session, cli, seen, read, channel, doubted>>
    PROVE  Reading'
<1>1. Types /\ Types' /\ Sound(s) /\ Tracked(s) /\ InProgram /\ run[s] \in Run /\ run[s].result = "none"
  BY Held DEF Base, Reading, Sound, Busy
<1>2. /\ Elsewhere(s) /\ run'[s].step = "idle" /\ run'[s].result = result
      /\ run'[s].on = run[s].on /\ run'[s].hand = run[s].hand
      /\ run'[s].worker = run[s].worker /\ run'[s].retry = run[s].retry
      /\ run'[s].typing = run[s].typing /\ run'[s].posted = run[s].posted
      /\ run'[s].dropped = run[s].dropped
  BY <1>1, AnswerRun
<1>3. Sendable(s)' \subseteq Sendable(s) /\ InFlight(s)' = InFlight(s)
  BY <1>2 DEF Sendable, Hand, InFlight
<1>4. \A m \in Fresh(s)' \ doubted' : m \in Fresh(s) \/ m \notin seen
  <2> SUFFICES ASSUME NEW m \in Fresh(s)', m \notin Fresh(s) PROVE m \notin seen
    OBVIOUS
  <2>1. m = run[s].worker /\ result = "not_ready" /\ run[s].retry
    BY <1>2 DEF Fresh
  <2> QED BY <2>1 DEF AlreadyThere
<1>5. Here(s)
  BY <1>2 DEF Here
<1>6. Tracked(s)'
  <2>1. \A x \in Known : Awaited(s, x) => Awaited(s, x)'
    BY <1>1, <1>2 DEF Awaited
  <2>2. Unsure(s)' /\ Quiet(s)'
    BY <1>1, <1>2 DEF Tracked, Unsure, Quiet
  <2> QED BY <1>1, <1>2, <2>1, <2>2, TrackedStays DEF Sound
<1> QED BY <1>2, <1>3, <1>4, <1>5, <1>6, CalmHere

\* A message comes back into the hand.
LEMMA FrontOfHand ==
    ASSUME Types, NEW s \in Sessions, NEW m \in Messages, NEW b \in BOOLEAN,
           run'[s].hand = <<Item(m, b)>> \o run[s].hand
    PROVE  Hand(s)' = {m} \cup Hand(s) /\ Range(run'[s].hand) = {Item(m, b)} \cup Range(run[s].hand)
<1>1. run[s].hand \in Seq(Items)
  BY Held
<1>2. PICK h : h = <<Item(m, b)>>
  OBVIOUS
<1>3. h \in Seq(Items) /\ Range(h) = {Item(m, b)} /\ Ids(h) = {m}
  BY <1>2, OneItem
<1>4. Range(h \o run[s].hand) = Range(h) \cup Range(run[s].hand) /\ Ids(h \o run[s].hand) = Ids(h) \cup Ids(run[s].hand)
  BY <1>1, <1>3, Joined
<1> QED BY <1>2, <1>3, <1>4 DEF Hand

LEMMA TakeOutcomeReads ==
    ASSUME Base, Base', Reading, NEW s \in Sessions, TakeOutcome(s)
    PROVE  Reading'
<1>1. Types /\ Types' /\ Sound(s) /\ Tracked(s) /\ InProgram /\ run[s] \in Run /\ None \notin Messages
  BY Held DEF Base, Reading
<1>2. /\ run[s].on = "on" /\ run[s].result # "none"
      /\ UNCHANGED <<inbox, session, cli, seen, read, channel, doubted>>
  BY DEF TakeOutcome
<1>3. run[s].worker \in Messages /\ run[s].step = "idle"
  BY <1>1, <1>2 DEF Sound, Busy, Run
<1>4. PICK m \in Messages : m = run[s].worker
  BY <1>3
<1>5. CASE run[s].result \in {"delivered", "posted"}
  <2>1. /\ Elsewhere(s) /\ run'[s].worker = None /\ run'[s].result = "none" /\ run'[s].step = run[s].step
        /\ run'[s].on = run[s].on /\ run'[s].hand = run[s].hand /\ run'[s].typing = run[s].typing
        /\ run'[s].dropped = run[s].dropped
        /\ run'[s].posted = IF run[s].result = "posted" THEN run[s].posted \cup {m} ELSE run[s].posted
    BY <1>1, <1>3, <1>4, <1>5, DeliveredRun, AcceptedRun
  <2>2. Settles(s)
    <3>1. receipts' = Acknowledged(receipts, s, {m}) \/ receipts' = Posted(receipts, s, {m})
      BY <1>4, <1>5 DEF TakeOutcome
    <3> QED BY <1>1, <3>1, ReceiptsSettle
  <2>3. Here(s)
    BY <1>2, <2>1, <2>2 DEF Here, Settles
  <2>4. Sendable(s)' \subseteq Sendable(s) /\ Fresh(s)' \subseteq Fresh(s)
    BY <1>2, <1>3, <2>1 DEF Sendable, Fresh, Hand
  <2>5. InFlight(s)' \subseteq InFlight(s)
    BY <1>4, <2>1 DEF InFlight
  <2>6. Tracked(s)'
    <3>1. \A x \in Known : Awaited(s, x) => Awaited(s, x)'
      BY <1>3, <1>4, <2>1 DEF Awaited
    <3>2. Unsure(s)' /\ Quiet(s)'
      BY <1>1, <1>2, <2>1 DEF Tracked, Unsure, Quiet
    <3> QED BY <1>1, <1>2, <1>3, <2>1, <3>1, <3>2, TrackedStays DEF Sound
  <2> QED BY <1>2, <2>1, <2>3, <2>4, <2>5, <2>6, CalmHere
<1>6. CASE run[s].result \in {"dropped", "not_ready", "unconfirmed"}
  <2>1. PICK b \in BOOLEAN : b = (run[s].result # "not_ready")
    OBVIOUS
  <2>2. /\ Elsewhere(s) /\ run'[s].worker = None /\ run'[s].result = "none" /\ run'[s].step = run[s].step
        /\ run'[s].on = run[s].on /\ run'[s].typing = run[s].typing
        /\ run'[s].dropped = run[s].dropped /\ run'[s].posted = run[s].posted
        /\ run'[s].hand = <<Item(m, b)>> \o run[s].hand
    BY <1>1, <1>3, <1>4, <1>6, <2>1, ReturnedRun
  <2>3. Hand(s)' = {m} \cup Hand(s) /\ Range(run'[s].hand) = {Item(m, b)} \cup Range(run[s].hand)
    BY <1>1, <2>2, FrontOfHand
  <2>4. Item(m, b).id = m /\ Item(m, b).retry = b
    BY ItemIsItem
  <2>5. receipts' = receipts
    <3>1. run[s].result # "delivered" /\ run[s].result # "posted"
      BY <1>6
    <3> QED BY <1>6, <3>1 DEF TakeOutcome
  <2>6. Here(s)
    BY <1>2, <2>2, <2>5 DEF Here
  <2>7. \A x \in Sendable(s)' \ doubted' : x \in Sendable(s) \/ x \notin Given(s)'
    <3> SUFFICES ASSUME NEW x \in Sendable(s)', x \notin doubted' PROVE x \in Sendable(s)
      OBVIOUS
    <3>1. run[s].result = "unconfirmed" => m \in doubted
      BY <1>1, <1>4 DEF Tracked, Unsure
    <3>2. x \in Sendable(s) \/ x = m
      BY <1>2, <1>3, <2>2, <2>3 DEF Sendable
    <3>3. run[s].result \in {"dropped", "not_ready"} => m \in Sendable(s)
      BY <1>4 DEF Sendable
    <3> QED BY <1>2, <1>6, <3>1, <3>2, <3>3
  <2>8. Fresh(s)' \subseteq Fresh(s)
    <3> SUFFICES ASSUME NEW x \in Fresh(s)' PROVE x \in Fresh(s)
      OBVIOUS
    <3>1. x \in Fresh(s) \/ (x = m /\ ~b)
      <4>1. x \in {y.id : y \in {z \in Range(inbox'[s]) \cup Range(run'[s].hand) : ~z.retry}}
        BY <1>3, <2>2 DEF Fresh
      <4>2. PICK y \in Range(inbox'[s]) \cup Range(run'[s].hand) : ~y.retry /\ x = y.id
        BY <4>1
      <4> QED BY <1>2, <2>3, <2>4, <4>2 DEF Fresh
    <3>2. ~b => m \in Fresh(s)
      BY <1>4, <2>1 DEF Fresh
    <3> QED BY <3>1, <3>2
  <2>9. InFlight(s)' \subseteq InFlight(s)
    BY <1>1, <1>4, <2>2, <2>3 DEF InFlight, Hand
  <2>10. Tracked(s)'
    <3>1. \A x \in Known : Awaited(s, x) => Awaited(s, x)'
      BY <1>3, <1>6, <2>2 DEF Awaited
    <3>2. Unsure(s)' /\ Quiet(s)'
      BY <1>1, <1>2, <2>2 DEF Tracked, Unsure, Quiet
    <3> QED BY <1>1, <1>2, <1>3, <2>2, <3>1, <3>2, TrackedStays DEF Sound
  <2> QED BY <1>2, <2>2, <2>6, <2>7, <2>8, <2>9, <2>10, CalmHere
<1>7. run[s].result \in {"none", "delivered", "posted", "dropped", "not_ready", "unconfirmed"}
  BY <1>1 DEF Run
<1> QED BY <1>2, <1>5, <1>6, <1>7

LEMMA ReceiptSeenReads ==
    ASSUME Base, Base', Reading, NEW s \in Sessions, ReceiptSeen(s)
    PROVE  Reading'
<1>1. Types /\ Types' /\ Sound(s) /\ Tracked(s) /\ InProgram
  BY DEF Base, Reading
<1>2. /\ run[s].on = "on" /\ UNCHANGED <<inbox, session, cli, seen, read, channel, doubted>>
      /\ receipts' = Acknowledged(receipts, s, run[s].awaiting \cap seen)
  BY DEF ReceiptSeen
<1>3. /\ Elsewhere(s) /\ run'[s].posted = run[s].posted \ (run[s].awaiting \cap seen)
      /\ run'[s].on = run[s].on /\ run'[s].hand = run[s].hand
      /\ run'[s].worker = run[s].worker /\ run'[s].retry = run[s].retry
      /\ run'[s].step = run[s].step /\ run'[s].result = run[s].result
      /\ run'[s].typing = run[s].typing /\ run'[s].dropped = run[s].dropped
  BY <1>1, ReceiptSeenRun
<1>4. Settles(s)
  BY <1>1, <1>2, ReceiptsSettle
<1>5. Here(s)
  BY <1>2, <1>3, <1>4 DEF Here, Settles
<1>6. Sendable(s)' = Sendable(s) /\ Fresh(s)' = Fresh(s)
  BY <1>2, <1>3 DEF Sendable, Fresh, Hand
<1>7. InFlight(s)' \subseteq InFlight(s)
  BY <1>3 DEF InFlight
<1>8. Tracked(s)'
  <2>1. \A x \in Known : x \notin seen /\ Awaited(s, x) => Awaited(s, x)'
    BY <1>3 DEF Awaited
  <2>2. Unsure(s)' /\ Quiet(s)' /\ (channel = "typed" => run'[s].step = "idle")
    BY <1>1, <1>2, <1>3 DEF Tracked, Unsure, Quiet, Bare
  <2> QED BY <1>1, <1>2, <1>3, <2>1, <2>2, TrackedStays DEF Sound
<1> QED BY <1>2, <1>3, <1>5, <1>6, <1>7, <1>8, CalmHere

LEMMA ReceiptOverdueReads ==
    ASSUME Base, Base', Reading, NEW s \in Sessions, ReceiptOverdue(s)
    PROVE  Reading'
<1>1. Types /\ Types' /\ Sound(s) /\ Tracked(s) /\ InProgram /\ run[s] \in Run /\ None \notin Messages
  BY Held DEF Base, Reading
<1>2. PICK m \in run[s].posted, back \in BOOLEAN :
         /\ LateRun(s, m, back)
         /\ receipts' = IF channel = "hook" THEN receipts ELSE Acknowledged(receipts, s, {m})
         /\ doubted' = IF back /\ m \in Given(s) THEN doubted \cup {m} ELSE doubted
  BY OverdueIsLate
<1>3. /\ run[s].on = "on" /\ channel # "app-server" /\ m \in Messages
      /\ UNCHANGED <<inbox, session, cli, seen, read, channel>>
  BY <1>1, <1>2 DEF ReceiptOverdue, Run
<1>4. /\ Elsewhere(s)
      /\ run'[s].hand = IF back THEN <<Item(m, TRUE)>> \o run[s].hand ELSE run[s].hand
      /\ run'[s].posted = run[s].posted \ {m}
      /\ run'[s].on = run[s].on /\ run'[s].worker = run[s].worker
      /\ run'[s].retry = run[s].retry /\ run'[s].step = run[s].step
      /\ run'[s].result = run[s].result /\ run'[s].typing = run[s].typing
      /\ run'[s].dropped = run[s].dropped
  <2>1. LateRun(s, m, back)
    BY <1>2
  <2>2. Types
    BY <1>1
  <2>3. /\ run' \in [Sessions -> Run] /\ Elsewhere(s)
        /\ run'[s].hand = IF back THEN <<Item(m, TRUE)>> \o run[s].hand ELSE run[s].hand
        /\ run'[s].posted = run[s].posted \ {m}
        /\ run'[s].again = IF back THEN run[s].again \cup {m} ELSE run[s].again
        /\ run'[s].on = run[s].on /\ run'[s].worker = run[s].worker
        /\ run'[s].retry = run[s].retry /\ run'[s].step = run[s].step
        /\ run'[s].result = run[s].result /\ run'[s].typing = run[s].typing
        /\ run'[s].dropped = run[s].dropped
    BY <2>1, <2>2, OverdueRun
  <2> QED BY <2>3
<1>5. Here(s)
  <2>1. receipts' = receipts \/ receipts' = Acknowledged(receipts, s, {m})
    BY <1>2
  <2>2. Settles(s)
    BY <1>1, <2>1, ReceiptsSettle
  <2> QED BY <1>3, <1>4, <2>2 DEF Here, Settles
<1>6. doubted \subseteq doubted'
  BY <1>2
<1>7. Tracked(s)'
  <2>1. Unsure(s)' /\ Quiet(s)' /\ (channel = "typed" => run'[s].step = "idle")
    BY <1>1, <1>3, <1>4, <1>6 DEF Tracked, Unsure, Quiet, Bare
  <2> QED BY <1>1, <1>3, <1>4, <1>6, <2>1, TrackedStays DEF Sound
<1>8. CASE ~back
  <2>1. Sendable(s)' = Sendable(s) /\ Fresh(s)' = Fresh(s)
    BY <1>3, <1>4, <1>8 DEF Sendable, Fresh, Hand
  <2>2. InFlight(s)' \subseteq InFlight(s)
    BY <1>4, <1>8 DEF InFlight
  <2> QED BY <1>3, <1>4, <1>5, <1>6, <1>7, <2>1, <2>2, CalmHere
<1>9. CASE back
  <2>1. Hand(s)' = {m} \cup Hand(s) /\ Range(run'[s].hand) = {Item(m, TRUE)} \cup Range(run[s].hand)
    BY <1>1, <1>3, <1>4, <1>9, FrontOfHand
  <2>2. Item(m, TRUE).retry
    BY <1>3, ItemIsItem
  <2>3. Sendable(s)' \subseteq Sendable(s) \cup {m}
    BY <1>3, <1>4, <2>1 DEF Sendable
  <2>4. Fresh(s)' \subseteq Fresh(s)
    BY <1>3, <1>4, <2>1, <2>2 DEF Fresh
  <2>5. m \in doubted' \/ m \notin Given(s)'
    BY <1>2, <1>3, <1>9 DEF Given
  <2>6. InFlight(s)' \subseteq InFlight(s)
    BY <1>1, <1>3, <1>4, <2>1 DEF InFlight, Hand
  <2> QED BY <1>3, <1>4, <1>5, <1>6, <1>7, <2>3, <2>4, <2>5, <2>6, CalmHere
<1> QED BY <1>8, <1>9

LEMMA TakeDroppedReads ==
    ASSUME Base, Base', Reading, NEW s \in Sessions, TakeDropped(s)
    PROVE  Reading'
<1>1. Types /\ Types' /\ Sound(s) /\ Tracked(s) /\ InProgram /\ run[s] \in Run /\ None \notin Messages
  BY Held DEF Base, Reading
<1>2. PICK m \in run[s].dropped \cap run[s].posted :
         run' = [run EXCEPT ![s].hand = <<Item(m, TRUE)>> \o @, ![s].dropped = @ \ {m},
                            ![s].posted = @ \ {m}, ![s].awaiting = @ \ {m}]
  BY DEF TakeDropped
<1>3. /\ run[s].on = "on" /\ m \in Messages
      /\ UNCHANGED <<receipts, inbox, session, cli, seen, read, channel, doubted>>
  BY <1>1 DEF TakeDropped, Run
<1>4. /\ Elsewhere(s)
      /\ run'[s].hand = <<Item(m, TRUE)>> \o run[s].hand
      /\ run'[s].posted = run[s].posted \ {m}
      /\ run'[s].dropped = run[s].dropped \ {m}
      /\ run'[s].on = run[s].on /\ run'[s].worker = run[s].worker
      /\ run'[s].retry = run[s].retry /\ run'[s].step = run[s].step
      /\ run'[s].result = run[s].result /\ run'[s].typing = run[s].typing
  BY <1>1, <1>2, DroppedRun
<1>5. Here(s)
  BY <1>3, <1>4 DEF Here
<1>6. Hand(s)' = {m} \cup Hand(s) /\ Range(run'[s].hand) = {Item(m, TRUE)} \cup Range(run[s].hand)
  BY <1>1, <1>3, <1>4, FrontOfHand
<1>7. Item(m, TRUE).retry
  BY <1>3, ItemIsItem
<1>8. Sendable(s)' \subseteq Sendable(s) \cup {m}
  BY <1>3, <1>4, <1>6 DEF Sendable
<1>9. Fresh(s)' \subseteq Fresh(s)
  BY <1>3, <1>4, <1>6, <1>7 DEF Fresh
<1>10. m \in Known => m \notin Given(s)
  BY <1>1, <1>2 DEF Tracked, Lost
<1>11. \A x \in Sendable(s)' \ doubted' : x \in Sendable(s) \/ x \notin Given(s)'
  BY <1>3, <1>8, <1>10 DEF Known, Given
<1>12. InFlight(s)' \subseteq InFlight(s)
  BY <1>1, <1>2, <1>3, <1>4, <1>6 DEF InFlight, Hand
<1>13. Tracked(s)'
  <2>1. \A x \in Known : x \notin seen /\ Awaited(s, x) =>
          Awaited(s, x)' \/ (x \notin run'[s].dropped /\ x \notin Given(s))
    BY <1>4, <1>10 DEF Awaited
  <2>2. Unsure(s)' /\ Quiet(s)' /\ (channel = "typed" => run'[s].step = "idle")
    BY <1>1, <1>3, <1>4 DEF Tracked, Unsure, Quiet, Bare
  <2> QED BY <1>1, <1>3, <1>4, <2>1, <2>2, TrackedStays DEF Sound
<1> QED BY <1>3, <1>4, <1>5, <1>9, <1>11, <1>12, <1>13, CalmHere

\* What is typed without a hook is settled when it is recorded.
LEMMA TypeRecordReads ==
    ASSUME Base, Base', Reading, NEW s \in Sessions, TypeRecord(s)
    PROVE  Reading'
<1>1. Types /\ Types' /\ Homes /\ Sound(s) /\ Tracked(s) /\ InProgram /\ run[s] \in Run /\ None \notin Messages
      /\ None \notin Sessions /\ receipts \in Receipts
  BY Held DEF Base, Reading
<1>2. /\ run[s].on = "on" /\ run[s].typing # None /\ run[s].typing \in Messages
      /\ UNCHANGED <<inbox, session, cli, seen, read, channel, doubted>>
      /\ receipts' = IF channel = "hook" THEN Posted(receipts, s, {run[s].typing})
                     ELSE Acknowledged(receipts, s, {run[s].typing})
  BY <1>1 DEF TypeRecord, Run
<1>3. PICK m \in Messages : m = run[s].typing
  BY <1>2
<1>4. /\ Elsewhere(s) /\ run'[s].typing = None
      /\ run'[s].posted = IF channel = "hook" THEN run[s].posted \cup {m} ELSE run[s].posted
      /\ run'[s].on = run[s].on /\ run'[s].hand = run[s].hand
      /\ run'[s].worker = run[s].worker /\ run'[s].retry = run[s].retry
      /\ run'[s].step = run[s].step /\ run'[s].result = run[s].result
      /\ run'[s].dropped = run[s].dropped
  BY <1>1, <1>3, TypeRecordRun
<1>5. Settles(s)
  BY <1>1, <1>2, ReceiptsSettle
<1>6. Here(s)
  BY <1>2, <1>4, <1>5 DEF Here, Settles
<1>7. Sendable(s)' = Sendable(s) /\ Fresh(s)' = Fresh(s)
  BY <1>2, <1>4 DEF Sendable, Fresh, Hand
<1>8. InFlight(s)' \subseteq InFlight(s)
  BY <1>3, <1>4 DEF InFlight
<1>9. m \in InFlight(s) /\ receipts[m].session = s /\ Status(m) \notin {"none", "queued"}
  BY <1>1, <1>3 DEF InFlight, Homes, Sound, Flying
<1>10. ASSUME channel # "hook" PROVE ~Live(m)'
  <2>1. \A t \in Sessions : m \notin InFlight(t)'
    <3>1. m \notin InFlight(s)'
      BY <1>1, <1>2, <1>3, <1>4, <1>10 DEF InFlight, Hand, Sound, Apart
    <3>2. ASSUME NEW t \in Sessions \ {s} PROVE m \notin InFlight(t)'
      <4>1. InFlight(t)' = InFlight(t)
        BY <1>4 DEF InFlight, Elsewhere
      <4> QED BY <1>9, <4>1 DEF Base, Sound, Flying
    <3> QED BY <3>1, <3>2
  <2>2. ~Open(m)'
    <3>1. receipts' = Acknowledged(receipts, s, {m})
      BY <1>2, <1>3, <1>10
    <3>2. Status(m)' = IF Status(m) \in {"taken", "posted"} THEN "delivered" ELSE Status(m)
      BY <1>1, <1>9, <3>1, AcknowledgedReceipts
    <3> QED BY <1>9, <3>2 DEF Open
  <2> QED BY <2>1, <2>2 DEF Live
<1>11. Tracked(s)'
  <2>1. \A x \in Known : Awaited(s, x) => Awaited(s, x)'
    BY <1>4 DEF Awaited
  <2>2. Unsure(s)' /\ Quiet(s)' /\ (channel = "typed" => run'[s].step = "idle")
    BY <1>1, <1>2, <1>4 DEF Tracked, Unsure, Quiet, Bare
  <2> QED BY <1>1, <1>2, <1>4, <2>1, <2>2, TrackedStays DEF Sound
<1>12. \A x \in Messages \ doubted' : run[s].typing = x /\ run'[s].typing # x => channel = "hook" \/ ~Live(x)'
  <2> SUFFICES ASSUME NEW x \in Messages, run[s].typing = x, channel # "hook" PROVE ~Live(x)'
    OBVIOUS
  <2>1. x = m
    BY <1>3
  <2> QED BY <1>10, <2>1, Zenon
<1> QED BY <1>2, <1>4, <1>6, <1>7, <1>8, <1>11, <1>12, CalmHere

LEMMA CliLosesReads ==
    ASSUME Base, Base', Reading, NEW s \in Sessions, CliLoses(s)
    PROVE  Reading'
<1>1. Types /\ Types' /\ Sound(s) /\ Tracked(s) /\ InProgram /\ cli[s] \in Seq(Items) /\ cli[s] # <<>>
  BY Held DEF Base, Reading, CliLoses
<1>2. PICK h : h = Head(cli[s])
  OBVIOUS
<1>3. /\ Elsewhere(s) /\ run'[s].on = run[s].on /\ run'[s].hand = run[s].hand
      /\ run'[s].worker = run[s].worker /\ run'[s].retry = run[s].retry
      /\ run'[s].step = run[s].step /\ run'[s].result = run[s].result
      /\ run'[s].typing = run[s].typing /\ run'[s].posted = run[s].posted
      /\ run'[s].dropped = IF channel = "app-server" THEN run[s].dropped \cup {h.id} ELSE run[s].dropped
  BY <1>1, <1>2, LosesRun
<1>4. /\ UNCHANGED <<receipts, inbox, session, seen, read, channel, doubted>> /\ run[s].on # "off" /\ h.retry
      /\ cli' = [cli EXCEPT ![s] = Tail(@)]
  BY <1>2 DEF CliLoses
<1>5. cli'[s] = Tail(cli[s]) /\ \A t \in Sessions \ {s} : cli'[t] = cli[t]
  BY <1>1, <1>4 DEF Types
<1>6. /\ Range(cli'[s]) \subseteq Range(cli[s]) /\ h \in Range(cli[s]) /\ h \in Items
      /\ Given(s) = {h.id} \cup Given(s)'
      /\ \A m \in Messages : Lone(cli[s], m) => Lone(cli'[s], m) /\ (h.id = m => m \notin Given(s)')
  BY <1>1, <1>2, <1>5, HeadAndTail DEF Given
<1>7. Sendable(s)' = Sendable(s) /\ Fresh(s)' = Fresh(s) /\ InFlight(s)' = InFlight(s)
  BY <1>3, <1>4 DEF Sendable, Fresh, InFlight, Hand
<1>8. Here(s)
  BY <1>3, <1>4, <1>5 DEF Here
<1>9. \A x : Awaited(s, x)' <=> Awaited(s, x)
  BY <1>3 DEF Awaited
<1>10. Known' = Known /\ Known \subseteq Messages
  BY <1>4 DEF Known
<1>11. Lost(s)'
  <2> SUFFICES ASSUME NEW m \in Known, m \in run'[s].dropped
               PROVE  m \notin seen' /\ m \notin Given(s)' /\ Awaited(s, m)'
    BY <1>10 DEF Lost
  <2>1. CASE m \in run[s].dropped
    BY <1>1, <1>4, <1>6, <1>9, <2>1 DEF Tracked, Lost
  <2>2. CASE m \notin run[s].dropped
    <3>1. channel = "app-server" /\ m = h.id
      BY <1>3, <2>2
    <3>2. Awaited(s, m)
      BY <1>1, <1>4, <1>6, <3>1 DEF Tracked, Sent
    <3>3. m \notin seen /\ Lone(cli[s], m)
      BY <1>1, <1>6, <3>1 DEF InProgram
    <3>4. m \notin Given(s)'
      BY <1>6, <1>10, <3>1, <3>3
    <3> QED BY <1>4, <1>9, <3>2, <3>3, <3>4
  <2> QED BY <2>1, <2>2
<1>12. Sent(s)'
  BY <1>1, <1>4, <1>6, <1>9, <1>10 DEF Tracked, Sent
<1>13. Unsure(s)' /\ Bare(s)' /\ Quiet(s)'
  BY <1>1, <1>3, <1>4, <1>6 DEF Tracked, Unsure, Bare, Quiet
<1>14. Tracked(s)'
  BY <1>11, <1>12, <1>13 DEF Tracked
<1> QED BY <1>3, <1>4, <1>6, <1>7, <1>8, <1>14, CalmHere

\* A message is sent to the program.
LEMMA SendReads ==
    ASSUME Base, Base', Reading, NEW s \in Sessions, NEW m \in Messages, NEW b \in BOOLEAN,
           Elsewhere(s), Here(s), UNCHANGED <<receipts, seen, read>>, doubted \subseteq doubted',
           cli'[s] = Append(cli[s], Item(m, b)),
           m \in Sendable(s), m \in InFlight(s), m # run[s].typing, m \notin Sendable(s)',
           m \in Known' => m \notin seen,
           ~b => run'[s].typing = m /\ channel # "hook",
           Sendable(s)' \subseteq Sendable(s), Fresh(s)' \subseteq Fresh(s), InFlight(s)' \subseteq InFlight(s),
           run'[s].typing = run[s].typing \/ run[s].typing = None,
           Tracked(s)'
    PROVE  Reading'
<1>1. Types /\ Sound(s) /\ None \notin Messages /\ cli[s] \in Seq(Items) /\ Known' \subseteq Known /\ Known' \subseteq Messages
      /\ AtHome
  BY Held, SendersAreHome DEF Base, Known
<1>2. channel' = channel /\ inbox' = inbox /\ \A t \in Sessions \ {s} : run'[t] = run[t] /\ cli'[t] = cli[t]
  BY DEF Here, Elsewhere
<1>3. PICK x : x = Item(m, b)
  OBVIOUS
<1>4. x \in Items /\ x.id = m /\ x.retry = b
  BY <1>3, ItemIsItem
<1>5. /\ Range(cli'[s]) = Range(cli[s]) \cup {x} /\ Given(s)' = Given(s) \cup {m}
      /\ \A y : Lone(cli[s], y) /\ (m = y => y \notin Given(s)) => Lone(cli'[s], y)
  BY <1>1, <1>3, <1>4, Appended DEF Given
<1>6. \A t \in Sessions \ {s} : /\ Sendable(t)' = Sendable(t) /\ Fresh(t)' = Fresh(t)
                                /\ InFlight(t)' = InFlight(t) /\ Given(t)' = Given(t)
  BY <1>2 DEF Sendable, Fresh, Hand, InFlight, Given
<1>7. receipts[m].session = s
  BY <1>1 DEF AtHome
<1>8. Free(m) /\ Live(m)
  <2>1. \A t \in Sessions : run[t].typing # m
    <3>1. ASSUME NEW t \in Sessions \ {s}, run[t].typing = m PROVE FALSE
      <4>1. m \in InFlight(t)
        BY <1>1, <3>1 DEF InFlight
      <4> QED BY <1>7, <4>1 DEF Base, Sound, Flying
    <3> QED BY <3>1
  <2> QED BY <2>1 DEF Free, Live
<1>9. ASSUME m \in Known'
      PROVE  /\ m \notin seen /\ read[m] = 0
             /\ \A t \in Sessions : m \notin Given(t) /\ m \notin Sendable(t)'
  <2>1. m \in Known
    BY <1>1, <1>9
  <2>2. m \notin seen /\ read[m] = 0
    BY <1>8, <1>9, <2>1 DEF Reading, Traced
  <2>3. \A t \in Sessions : m \notin Given(t)
    BY <2>1 DEF Reading, InProgram
  <2>4. \A t \in Sessions : m \notin Sendable(t)'
    BY <1>1, <1>6, <1>7 DEF AtHome
  <2> QED BY <2>2, <2>3, <2>4
<1>10. ReadOnce' /\ Typed'
  BY <1>2 DEF Reading, ReadOnce, Typed
<1>11. Owned'
  <2>1. \A t \in Sessions : \A y \in Given(t)' : y \in Given(t) \/ (t = s /\ y = m)
    BY <1>5, <1>6
  <2> QED BY <1>7, <2>1 DEF Reading, Owned
<1>12. InProgram'
  <2> SUFFICES ASSUME NEW t \in Sessions, NEW y \in Known' \cap Given(t)'
               PROVE  /\ read'[y] = 0 /\ y \notin seen' /\ Lone(cli'[t], y)
                      /\ \A u \in Sessions : y \notin Sendable(u)'
    BY DEF InProgram
  <2>1. CASE y = m
    <3>1. t = s
      <4>1. t # s => y \in Given(t)
        BY <1>6
      <4> QED BY <1>9, <2>1, <4>1
    <3>2. Lone(cli[s], m)
      BY <1>9, <2>1, <1>1 DEF Given, Ids, Lone
    <3>3. Lone(cli'[s], m)
      BY <1>5, <1>9, <2>1, <3>2
    <3> QED BY <1>9, <2>1, <3>1, <3>3
  <2>2. CASE y # m
    <3>1. y \in Given(t) /\ y \in Known
      BY <1>1, <1>5, <1>6, <2>2
    <3>2. /\ read[y] = 0 /\ y \notin seen /\ Lone(cli[t], y)
          /\ \A u \in Sessions : y \notin Sendable(u)
      BY <3>1 DEF Reading, InProgram
    <3>3. \A u \in Sessions : y \notin Sendable(u)'
      BY <1>6, <3>2
    <3>4. Lone(cli'[t], y)
      BY <1>2, <1>5, <2>2, <3>2
    <3> QED BY <3>2, <3>3, <3>4
  <2> QED BY <2>1, <2>2
<1>13. Traced'
  <2> SUFFICES ASSUME NEW y \in Known', Live(y)', Free(y)'
               PROVE  /\ y \in seen' \/ read'[y] = 0
                      /\ \A t \in Sessions : \A i \in Range(cli'[t]) : i.id = y => i.retry
    BY DEF Traced
  <2>1. CASE y = m
    <3>1. ASSUME NEW t \in Sessions, NEW i \in Range(cli'[t]), i.id = m PROVE i.retry
      <4>1. i \notin Range(cli[t])
        <5>1. cli[t] \in Seq(Items)
          BY <1>1 DEF Types
        <5>2. m \notin Given(t)
          BY <1>9, <2>1
        <5> QED BY <3>1, <5>1, <5>2, Holding DEF Given
      <4>2. t = s /\ i = x
        BY <1>2, <1>5, <4>1
      <4>3. b
        BY <1>2, <2>1 DEF Free
      <4> QED BY <1>4, <4>2, <4>3
    <3> QED BY <1>9, <2>1, <3>1
  <2>2. CASE y # m
    <3>1. Live(y)
      <4>1. \A t \in Sessions : y \in InFlight(t)' => y \in InFlight(t)
        BY <1>6
      <4> QED BY <4>1 DEF Live, Open, Status
    <3>2. Free(y)
      <4>1. \A t \in Sessions : run[t].typing = y => run'[t].typing = y
        BY <1>1, <1>2
      <4> QED BY <1>2, <4>1 DEF Free
    <3>3. /\ y \in seen \/ read[y] = 0
          /\ \A t \in Sessions : \A i \in Range(cli[t]) : i.id = y => i.retry
      BY <1>1, <3>1, <3>2 DEF Reading, Traced
    <3> QED BY <1>2, <1>4, <1>5, <2>2, <3>3
  <2> QED BY <2>1, <2>2
<1>14. Unseen'
  <2>1. \A y \in Messages : Status(y)' = "none" => y \notin seen'
    BY DEF Reading, Unseen, Status
  <2>2. ASSUME NEW t \in Sessions, NEW y \in Known' \cap Fresh(t)' PROVE y \notin seen'
    BY <1>1, <1>6, <2>2 DEF Reading, Unseen
  <2> QED BY <2>1, <2>2 DEF Unseen
<1>15. \A t \in Sessions : Tracked(t)'
  BY <1>2, OthersTracked
<1> QED BY <1>10, <1>11, <1>12, <1>13, <1>14, <1>15 DEF Reading

LEMMA TypeWriteReads ==
    ASSUME Base, Base', Reading, NEW s \in Sessions, TypeWrite(s)
    PROVE  Reading'
<1>1. Types /\ Types' /\ Sound(s) /\ Tracked(s) /\ InProgram /\ Homes /\ None \notin Messages
      /\ run[s].hand \in Seq(Items) /\ inbox[s] \in Seq(Items) /\ cli[s] \in Seq(Items)
  BY Held DEF Base, Reading
<1>2. /\ Elsewhere(s) /\ run'[s].hand = Tail(run[s].hand)
      /\ run'[s].typing = IF Skips(s) THEN run[s].typing ELSE Tip(s).id
      /\ run'[s].on = run[s].on /\ run'[s].worker = run[s].worker
      /\ run'[s].retry = run[s].retry /\ run'[s].step = run[s].step
      /\ run'[s].result = run[s].result /\ run'[s].posted = run[s].posted
      /\ run'[s].dropped = run[s].dropped
  BY <1>1, TypeWriteRun
<1>3. /\ run[s].on = "on" /\ run[s].hand # <<>> /\ run[s].typing = None
      /\ UNCHANGED <<inbox, session, seen, read, channel, doubted>>
  BY DEF TypeWrite, MayWrite
<1>4. PICK m \in Messages : m = Tip(s).id
  BY <1>3, TipAndRest
<1>5. /\ Range(run[s].hand) = {Tip(s)} \cup Range(run'[s].hand)
      /\ Hand(s) = {m} \cup Hand(s)' /\ m \notin Hand(s)'
  BY <1>1, <1>2, <1>3, <1>4, HeadAndTail, TipAndRest DEF Tip, Hand
<1>6. Sendable(s)' \subseteq Sendable(s) /\ m \in Sendable(s)
  BY <1>2, <1>3, <1>5 DEF Sendable
<1>7. Fresh(s)' \subseteq Fresh(s)
  BY <1>2, <1>3, <1>5 DEF Fresh
<1>8. InFlight(s)' \subseteq InFlight(s) /\ m \in InFlight(s)
  BY <1>1, <1>2, <1>3, <1>4, <1>5 DEF InFlight, Hand
<1>9. CASE Skips(s)
  <2>1. cli' = cli /\ (receipts' = Acknowledged(receipts, s, {m}) \/ receipts' = receipts)
    BY <1>4, <1>9 DEF TypeWrite, Skips
  <2>2. Settles(s)
    BY <1>1, <2>1, ReceiptsSettle
  <2>3. Here(s)
    BY <1>2, <1>3, <2>1, <2>2 DEF Here, Settles
  <2>4. Tracked(s)'
    <3>1. \A x \in Known : Awaited(s, x) => Awaited(s, x)'
      BY <1>2 DEF Awaited
    <3>2. Unsure(s)' /\ Quiet(s)' /\ (channel = "typed" => run'[s].step = "idle")
      BY <1>1, <1>2, <1>3 DEF Tracked, Unsure, Quiet, Bare
    <3> QED BY <1>1, <1>2, <1>3, <2>1, <3>1, <3>2, TrackedStays DEF Sound
  <2> QED BY <1>2, <1>3, <1>6, <1>7, <1>8, <1>9, <2>1, <2>3, <2>4, CalmHere
<1>10. CASE ~Skips(s)
  <2>1. PICK b \in BOOLEAN : b = (channel = "hook")
    OBVIOUS
  <2>2. receipts' = receipts /\ cli' = [cli EXCEPT ![s] = Append(@, Item(m, b))]
    BY <1>4, <1>10, <2>1 DEF TypeWrite, Skips
  <2>3. cli'[s] = Append(cli[s], Item(m, b)) /\ \A t \in Sessions \ {s} : cli'[t] = cli[t]
    BY <1>1, <2>2 DEF Types
  <2>4. run'[s].typing = m
    BY <1>2, <1>4, <1>10
  <2>5. Here(s)
    BY <1>2, <1>3, <2>2, <2>3 DEF Here
  <2>6. PICK x : x = Item(m, b)
    OBVIOUS
  <2>7. /\ x \in Items /\ x.id = m /\ x.retry = b
        /\ Range(cli'[s]) = Range(cli[s]) \cup {x} /\ Given(s)' = Given(s) \cup {m}
    BY <1>1, <2>3, <2>6, ItemIsItem, Appended DEF Given
  <2>8. m \notin Sendable(s)'
    <3>1. m \notin Ids(inbox'[s])
      BY <1>1, <1>3, <1>8 DEF Homes, Sound, Flying
    <3>2. m # run'[s].worker
      BY <1>1, <1>2, <1>4, <1>5 DEF Sound, Apart
    <3> QED BY <1>5, <3>1, <3>2 DEF Sendable
  <2>9. m \in Known => m \notin seen
    <3>1. SUFFICES ASSUME m \in Known, m \in seen PROVE FALSE
      OBVIOUS
    <3>2. channel # "typed"
      BY <3>1 DEF Reading, Typed
    <3>3. ~Tip(s).retry
      BY <1>4, <1>10, <3>1, <3>2 DEF Skips
    <3>4. m \in Fresh(s)
      BY <1>4, <1>5, <3>3 DEF Fresh
    <3> QED BY <3>1, <3>4 DEF Reading, Unseen
  <2>10. m \notin run[s].posted /\ m # run[s].worker
    BY <1>1, <1>4, <1>5 DEF Sound, Apart
  <2>11. Tracked(s)'
    <3>1. \A y : Awaited(s, y)' <=> Awaited(s, y)
      BY <1>2 DEF Awaited
    <3>2. ~Awaited(s, m) /\ Known' = Known
      BY <1>3, <2>10 DEF Awaited, Known
    <3>3. Lost(s)'
      BY <1>1, <1>2, <1>3, <2>7, <3>1, <3>2 DEF Tracked, Lost
    <3>4. Sent(s)'
      BY <1>1, <1>3, <2>1, <2>7, <3>1, <3>2 DEF Tracked, Sent
    <3>5. Unsure(s)' /\ Bare(s)' /\ Quiet(s)'
      BY <1>1, <1>2, <1>3, <2>1, <2>7 DEF Tracked, Unsure, Bare, Quiet
    <3> QED BY <3>3, <3>4, <3>5 DEF Tracked
  <2>12. m \in Known' => m \notin seen
    BY <1>3, <2>9 DEF Known
  <2>13. ~b => run'[s].typing = m /\ channel # "hook"
    BY <2>1, <2>4
  <2>14. m # run[s].typing
    BY <1>1, <1>3
  <2> QED BY <1>2, <1>3, <1>6, <1>7, <1>8, <2>2, <2>3, <2>5, <2>8, <2>11, <2>12, <2>13, <2>14, SendReads
<1> QED BY <1>9, <1>10

LEMMA WorkerSendReads ==
    ASSUME Base, Base', Reading, NEW s \in Sessions, WorkerSend(s)
    PROVE  Reading'
<1>1. Types /\ Types' /\ Sound(s) /\ Tracked(s) /\ InProgram /\ Homes /\ None \notin Messages
      /\ run[s] \in Run /\ cli[s] \in Seq(Items)
  BY Held DEF Base, Reading
<1>2. /\ run[s].on # "off" /\ run[s].step = "check" /\ run[s].result = "none"
      /\ UNCHANGED <<receipts, inbox, session, seen, read, channel>>
  BY <1>1 DEF WorkerSend, Sound, Busy
<1>3. run[s].worker \in Messages
  BY <1>1, <1>2 DEF Sound, Busy, Run
<1>4. PICK m \in Messages : m = run[s].worker
  BY <1>3
<1>5. CASE UNCHANGED <<cli, doubted>> /\ \/ Answer(s, "delivered")
                                         \/ Answer(s, "not_ready") /\ ~AlreadyThere(s)
  BY <1>2, <1>5, WorkerAnswersReads
<1>6. CASE /\ ~AlreadyThere(s) /\ cli' = [cli EXCEPT ![s] = Append(@, Item(m, TRUE))]
           /\ \/ run' = [run EXCEPT ![s].step = "wait"] /\ doubted' = doubted
              \/ Answer(s, "unconfirmed") /\ doubted' = doubted \cup {m}
  <2>1. /\ Elsewhere(s)
        /\ run'[s].on = run[s].on /\ run'[s].hand = run[s].hand
        /\ run'[s].worker = run[s].worker /\ run'[s].retry = run[s].retry
        /\ run'[s].typing = run[s].typing
        /\ run'[s].posted = run[s].posted /\ run'[s].dropped = run[s].dropped
        /\ \/ run'[s].step = "wait" /\ run'[s].result = "none" /\ doubted' = doubted
           \/ run'[s].step = "idle" /\ run'[s].result = "unconfirmed" /\ doubted' = doubted \cup {m}
    <3>1. CASE run' = [run EXCEPT ![s].step = "wait"] /\ doubted' = doubted
      BY <1>1, <1>2, <3>1, SentRun
    <3>2. CASE Answer(s, "unconfirmed") /\ doubted' = doubted \cup {m}
      BY <1>1, <3>2, AnswerRun
    <3> QED BY <1>6, <3>1, <3>2
  <2>2. cli'[s] = Append(cli[s], Item(m, TRUE)) /\ \A t \in Sessions \ {s} : cli'[t] = cli[t]
    BY <1>1, <1>6 DEF Types
  <2>3. Here(s)
    BY <1>2, <2>1, <2>2 DEF Here
  <2>4. PICK x : x = Item(m, TRUE)
    OBVIOUS
  <2>5. /\ x \in Items /\ x.id = m /\ x.retry
        /\ Range(cli'[s]) = Range(cli[s]) \cup {x} /\ Given(s)' = Given(s) \cup {m}
    <3>1. x \in Items /\ x.id = m /\ x.retry
      BY <2>4, ItemIsItem
    <3>2. cli'[s] = Append(cli[s], x)
      BY <2>2, <2>4
    <3> QED BY <1>1, <3>1, <3>2, Appended DEF Given
  <2>6. m \in Sendable(s) /\ m \in InFlight(s) /\ m # run[s].typing /\ m \notin Hand(s) \cup run[s].posted
    BY <1>1, <1>2, <1>4 DEF Sendable, InFlight, Sound, Apart
  <2>7. Sendable(s)' \subseteq Sendable(s) /\ Fresh(s)' \subseteq Fresh(s) /\ InFlight(s)' = InFlight(s)
    BY <1>2, <2>1 DEF Sendable, Fresh, Hand, InFlight
  <2>8. m \notin Sendable(s)'
    <3>1. m \notin Ids(inbox'[s])
      BY <1>1, <1>2, <2>6 DEF Homes, Sound, Flying
    <3> QED BY <2>1, <2>6, <3>1 DEF Sendable, Hand
  <2>9. m \in Known => m \notin seen
    <3>1. SUFFICES ASSUME m \in Known, m \in seen PROVE FALSE
      OBVIOUS
    <3>2. ~run[s].retry
      BY <1>4, <1>6, <3>1 DEF AlreadyThere
    <3>3. m \in Fresh(s)
      BY <1>2, <1>4, <3>2 DEF Fresh
    <3> QED BY <3>1, <3>3 DEF Reading, Unseen
  <2>10. Known' \subseteq Known /\ doubted \subseteq doubted' /\ (m \in Known' => run'[s].step = "wait")
    BY <2>1 DEF Known
  <2>11. Tracked(s)'
    <3>1. \A y : Awaited(s, y) => Awaited(s, y)'
      BY <1>2, <2>1 DEF Awaited
    <3>2. ~Awaited(s, m)
      BY <1>2, <2>6 DEF Awaited
    <3>3. m \in Known' => Awaited(s, m)'
      BY <1>4, <2>1, <2>10 DEF Awaited
    <3>4. Lost(s)'
      BY <1>1, <1>2, <2>1, <2>5, <2>10, <3>1, <3>2 DEF Tracked, Lost
    <3>5. Sent(s)'
      BY <1>1, <1>2, <2>5, <2>10, <3>1, <3>3 DEF Tracked, Sent
    <3>6. Unsure(s)'
      BY <1>4, <2>1 DEF Unsure
    <3>7. Bare(s)' /\ Quiet(s)'
      BY <1>1, <1>2, <2>1 DEF Tracked, Bare, Quiet
    <3> QED BY <3>4, <3>5, <3>6, <3>7 DEF Tracked
  <2>12. m \in Known' => m \notin seen
    BY <2>9, <2>10
  <2> QED BY <1>2, <2>1, <2>2, <2>3, <2>6, <2>7, <2>8, <2>10, <2>11, <2>12, SendReads
<1> QED BY <1>4, <1>5, <1>6 DEF WorkerSend

LEMMA CliReadsReads ==
    ASSUME Base, Base', Reading, NEW s \in Sessions, CliReads(s)
    PROVE  Reading'
<1>1. Types /\ Types' /\ Homes /\ None \notin Messages /\ None \notin Sessions /\ cli[s] \in Seq(Items)
      /\ cli[s] # <<>> /\ InProgram /\ Owned
  BY Held DEF Base, Reading, CliReads
<1>2. PICK h \in Items, m \in Messages : h = Head(cli[s]) /\ m = h.id
  <2>1. Head(cli[s]) \in Items
    BY <1>1, HeadAndTail
  <2> QED BY <2>1 DEF Items
<1>3. /\ UNCHANGED <<receipts, inbox, session, run, channel, doubted>>
      /\ cli' = [cli EXCEPT ![s] = Tail(@)]
      /\ read' = [read EXCEPT ![m] = @ + 1]
      /\ seen' = IF h.retry THEN seen \cup {m} ELSE seen
  BY <1>2 DEF CliReads
<1>4. /\ Known' = Known /\ Known \subseteq Messages
      /\ \A t \in Sessions : Sendable(t)' = Sendable(t) /\ Fresh(t)' = Fresh(t) /\ InFlight(t)' = InFlight(t)
      /\ \A y : (Live(y)' <=> Live(y)) /\ (Free(y)' <=> Free(y))
  <2>1. \A t : Sendable(t)' = Sendable(t) /\ Fresh(t)' = Fresh(t) /\ InFlight(t)' = InFlight(t)
    BY <1>3 DEF Sendable, Fresh, Hand, InFlight
  <2>2. \A y : (Live(y)' <=> Live(y)) /\ (Free(y)' <=> Free(y))
    BY <1>3, <2>1 DEF Live, Open, Free, Status
  <2> QED BY <1>3, <2>1, <2>2 DEF Known
<1>5. cli'[s] = Tail(cli[s]) /\ \A t \in Sessions \ {s} : cli'[t] = cli[t]
  BY <1>1, <1>3 DEF Types
<1>6. /\ Range(cli[s]) = {h} \cup Range(cli'[s]) /\ Given(s) = {m} \cup Given(s)'
      /\ \A y : Lone(cli[s], y) => Lone(cli'[s], y) /\ (m = y => y \notin Given(s)')
  BY <1>1, <1>2, <1>5, HeadAndTail DEF Given
<1>7. \A t \in Sessions \ {s} : Given(t)' = Given(t)
  BY <1>5 DEF Given
<1>8. m \in Given(s) /\ h \in Range(cli[s]) /\ receipts[m].session = s
  BY <1>1, <1>6 DEF Owned
<1>9. /\ \A y \in Messages : y # m => read'[y] = read[y]
      /\ read'[m] = read[m] + 1
      /\ \A y : y \in seen' => y \in seen \/ (y = m /\ h.retry)
      /\ seen \subseteq seen' /\ (h.retry => m \in seen')
  BY <1>1, <1>3 DEF Types
<1>10. m \in Known => /\ read[m] = 0 /\ m \notin seen /\ Lone(cli[s], m)
                       /\ \A t \in Sessions : m \notin Sendable(t)
  BY <1>1, <1>8 DEF InProgram
<1>11. ReadOnce'
  <2> SUFFICES ASSUME NEW y \in Messages, y \notin doubted PROVE read'[y] <= 1
    BY <1>3 DEF ReadOnce
  <2>1. CASE y = m
    BY <1>9, <1>10, <2>1 DEF Known
  <2>2. CASE y # m
    BY <1>9, <2>2 DEF Reading, ReadOnce
  <2> QED BY <2>1, <2>2
<1>12. Owned'
  <2>1. \A t \in Sessions : Given(t)' \subseteq Given(t)
    BY <1>6, <1>7
  <2> QED BY <1>1, <1>3, <2>1 DEF Owned
<1>13. InProgram'
  <2> SUFFICES ASSUME NEW t \in Sessions, NEW y \in Known' \cap Given(t)'
               PROVE  /\ read'[y] = 0 /\ y \notin seen' /\ Lone(cli'[t], y)
                      /\ \A u \in Sessions : y \notin Sendable(u)'
    BY DEF InProgram
  <2>1. y \in Known /\ y \in Given(t) /\ y \in Messages
    BY <1>4, <1>6, <1>7
  <2>2. y # m
    <3>1. CASE t = s
      BY <1>6, <1>10, <2>1, <3>1
    <3>2. CASE t # s
      BY <1>1, <1>8, <2>1, <3>2 DEF Owned
    <3> QED BY <3>1, <3>2
  <2>3. /\ read[y] = 0 /\ y \notin seen /\ Lone(cli[t], y)
        /\ \A u \in Sessions : y \notin Sendable(u)
    BY <1>1, <2>1 DEF InProgram
  <2>4. Lone(cli'[t], y)
    BY <1>5, <1>6, <2>3
  <2> QED BY <1>4, <1>9, <2>1, <2>2, <2>3, <2>4
<1>14. Traced'
  <2> SUFFICES ASSUME NEW y \in Known', Live(y)', Free(y)'
               PROVE  /\ y \in seen' \/ read'[y] = 0
                      /\ \A t \in Sessions : \A x \in Range(cli'[t]) : x.id = y => x.retry
    BY DEF Traced
  <2>1. y \in Known /\ y \in Messages /\ Live(y) /\ Free(y)
    BY <1>4
  <2>2. /\ y \in seen \/ read[y] = 0
        /\ \A t \in Sessions : \A x \in Range(cli[t]) : x.id = y => x.retry
    BY <2>1 DEF Reading, Traced
  <2>3. \A t \in Sessions : Range(cli'[t]) \subseteq Range(cli[t])
    BY <1>5, <1>6
  <2>4. CASE y = m
    BY <1>2, <1>8, <1>9, <2>2, <2>3, <2>4
  <2>5. CASE y # m
    BY <1>9, <2>1, <2>2, <2>3, <2>5
  <2> QED BY <2>4, <2>5
<1>15. Unseen'
  <2>1. ASSUME NEW y \in Messages, Status(y)' = "none" PROVE y \notin seen'
    <3>1. Status(y) = "none"
      BY <1>3, <2>1 DEF Status
    <3>2. y \notin seen
      BY <3>1 DEF Reading, Unseen
    <3>3. Status(m) # "none"
      BY <1>1, <1>8 DEF Homes
    <3> QED BY <1>9, <3>1, <3>2, <3>3
  <2>2. ASSUME NEW t \in Sessions, NEW y \in Known' \cap Fresh(t)' PROVE y \notin seen'
    <3>1. y \in Known /\ y \in Fresh(t)
      BY <1>4
    <3>2. y \notin seen
      BY <3>1 DEF Reading, Unseen
    <3>3. y # m
      BY <1>10, <3>1, WhoMaySend
    <3> QED BY <1>9, <3>2, <3>3
  <2> QED BY <2>1, <2>2 DEF Unseen
<1>16. Typed'
  BY <1>3, <1>8 DEF Reading, Typed, Tracked, Bare
<1>17. ASSUME NEW t \in Sessions PROVE Tracked(t)'
  <2>1. Tracked(t) /\ Range(cli'[t]) \subseteq Range(cli[t]) /\ Given(t)' \subseteq Given(t)
    BY <1>5, <1>6, <1>7 DEF Reading
  <2>2. \A y : Awaited(t, y)' <=> Awaited(t, y)
    BY <1>3 DEF Awaited
  <2>3. Lost(t)'
    <3> SUFFICES ASSUME NEW y \in Known, y \in run[t].dropped
                 PROVE  y \notin seen' /\ y \notin Given(t)' /\ Awaited(t, y)'
      BY <1>3, <1>4 DEF Lost
    <3>1. y \notin seen /\ y \notin Given(t) /\ Awaited(t, y)
      BY <2>1 DEF Tracked, Lost
    <3>2. y \in InFlight(t)
      BY <1>1, <1>4, <3>1 DEF Awaited, InFlight
    <3>3. receipts[y].session = t
      BY <3>2 DEF Base, Sound, Flying
    <3>4. y # m
      BY <1>8, <3>1, <3>3
    <3> QED BY <1>9, <2>1, <2>2, <3>1, <3>4
  <2>4. Sent(t)'
    BY <1>3, <1>4, <2>1, <2>2 DEF Tracked, Sent
  <2>5. Unsure(t)' /\ Bare(t)' /\ Quiet(t)'
    BY <1>3, <2>1 DEF Tracked, Unsure, Bare, Quiet
  <2> QED BY <2>3, <2>4, <2>5 DEF Tracked
<1> QED BY <1>11, <1>12, <1>13, <1>14, <1>15, <1>16, <1>17 DEF Reading

LEMMA InitReading == Init => Reading
<1> SUFFICES ASSUME Init PROVE Reading
  OBVIOUS
<1>1. /\ inbox = [s \in Sessions |-> <<>>] /\ cli = [s \in Sessions |-> <<>>]
      /\ run = [s \in Sessions |-> IF s = Chain[1] THEN [Off EXCEPT !.on = "on"] ELSE Off]
      /\ seen = {} /\ read = [m \in Messages |-> 0] /\ doubted = {}
  BY DEF Init
<1>2. ASSUME NEW s \in Sessions
      PROVE  /\ run[s].hand = <<>> /\ run[s].worker = None /\ run[s].step = "idle" /\ run[s].result = "none"
             /\ run[s].typing = None /\ run[s].posted = {} /\ run[s].dropped = {} /\ run[s].on # "ending"
  <2>1. PICK on \in {"on", "off"} : on = IF s = Chain[1] THEN "on" ELSE "off"
    OBVIOUS
  <2>2. run[s] = [Off EXCEPT !.on = on]
    BY <1>1, <2>1, EmptyRun
  <2> QED BY <2>2, EmptyRun
<1>3. \A s \in Sessions : Given(s) = {} /\ Range(cli[s]) = {}
  BY <1>1, NoItems DEF Given
<1>4. ReadOnce /\ Typed
  BY <1>1 DEF ReadOnce, Typed
<1>5. Owned /\ InProgram
  BY <1>3 DEF Owned, InProgram
<1>6. Traced
  BY <1>1, <1>3 DEF Traced, Known
<1>7. Unseen
  BY <1>1 DEF Unseen
<1>8. \A s \in Sessions : Tracked(s)
  BY <1>2, <1>3 DEF Tracked, Lost, Sent, Unsure, Bare, Quiet
<1> QED BY <1>4, <1>5, <1>6, <1>7, <1>8 DEF Reading

LEMMA ReadingKept ==
    ASSUME Base, Base', Reading, [Next]_vars
    PROVE  Reading'
<1>1. CASE UNCHANGED vars
  <2>1. UNCHANGED <<run, cli, seen, read, channel, doubted, inbox, receipts>>
    BY <1>1 DEF vars
  <2>2. Opened
    BY <2>1 DEF Opened, Open, Status
  <2> QED BY <2>1, <2>2, TakenBackReads
<1>2. ASSUME NEW s \in Sessions, Working(s) PROVE Reading'
  BY <1>2, TakeReads, SubmitReads, TypeWriteReads, TypeRecordReads, WorkerSendReads, WorkerWaitReads,
     TakeOutcomeReads, ReceiptSeenReads, TakeDroppedReads, EndRecordReads DEF Working
<1>3. ASSUME NEW s \in Sessions,
             \/ CliReads(s) \/ ReceiptOverdue(s) \/ CliLoses(s) \/ MenuShows(s) \/ MenuGone(s)
             \/ End(s) \/ Kill(s) \/ Relaunch(s) \/ StartRun(s)
      PROVE  Reading'
  BY <1>3, CliReadsReads, ReceiptOverdueReads, CliLosesReads, MenuShowsReads, MenuGoneReads, EndReads,
     KillReads, RelaunchReads, StartRunReads
<1>4. ASSUME NEW s \in Sessions, NEW m \in Messages, Enqueue(m, s) PROVE Reading'
  BY <1>4, EnqueueReads
<1>5. ASSUME NEW m \in Messages, Withdraw(m) PROVE Reading'
  BY <1>5, WithdrawReads
<1>6. ASSUME NEW m \in Messages, Discard(m) \/ Invalidate(m) PROVE Reading'
  <2>1. Discarded(m) /\ UNCHANGED <<run, cli, seen, read, channel, doubted>>
    BY <1>6 DEF Discard, Invalidate
  <2> QED BY <2>1, DiscardedReads
<1>7. ASSUME NEW i \in 1..(Len(Chain) - 1), Continue(i) PROVE Reading'
  BY <1>7, ContinueReads
<1> QED BY <1>1, <1>2, <1>3, <1>4, <1>5, <1>6, <1>7, Zenon DEF Next

\* The model is given a message once, but for a message in doubt: on every
\* channel, in any order of ends, kills, menus, withdrawals, reclaims and
\* successions, for any number of messages, sessions and failed deliveries
\* (inbox_relay.py, claude_inbox.py deliver, interactive_supervisor.py
\* _stage3_tick, control.py reclaim_stranded, _inherit_cli_memory).
THEOREM MessagesAreReadOnce == Spec => []ReadOnce
<1>1. Init => Base /\ Reading
  BY InitBase, InitReading
<1>2. Base /\ Reading /\ [Next]_vars => Base' /\ Reading'
  BY BaseKept, ReadingKept
<1>3. Reading => ReadOnce
  BY DEF Reading
<1> QED BY <1>1, <1>2, <1>3, PTL DEF Spec
=============================================================================
