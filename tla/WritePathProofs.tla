---------------------------- MODULE WritePathProofs ----------------------------
(***************************************************************************)
(* Proofs about the two places leveldb-library puts a write in before it   *)
(* is in a table: the memtable's skip list (SkipList), for any keys,       *)
(* heights and readers, and the log (LogFile), for any sizes of blocks,    *)
(* headers and records and any number of appends that fail.                *)
(***************************************************************************)
EXTENDS SkipList, LogFile, SequenceTheorems, WellFoundedInduction, TLAPS

(***************************************************************************)
(* Numbers.                                                                *)
(***************************************************************************)
\* A nonempty set of natural numbers has a smallest member.
LEMMA Smallest ==
  ASSUME NEW T \in SUBSET Nat, T # {}
  PROVE  \E m \in T : \A k \in T : m <= k
<1> DEFINE R == {ss \in Nat \X Nat : ss[1] < ss[2]}
<1>1. IsWellFoundedOn(R, Nat)
  BY NatLessThanWellFounded DEF OpToRel
<1>2. PICK x \in T : \A y \in T : ~ (<<y, x>> \in R)
  <2> HIDE DEF R
  <2> QED BY <1>1, WFMin
<1>3. ASSUME NEW y \in T
      PROVE  x <= y
  <2>1. ~ (<<y, x>> \in R)
    BY <1>2
  <2>2. x \in Nat /\ y \in Nat
    OBVIOUS
  <2>3. ~ (y < x)
    BY <2>1, <2>2
  <2> QED BY <2>2, <2>3
<1> QED BY <1>3

\* A nonempty set of natural numbers below a bound has a largest member.
LEMMA Largest ==
  ASSUME NEW T \in SUBSET Nat, T # {}, NEW n \in Nat, \A k \in T : k <= n
  PROVE  \E m \in T : \A k \in T : k <= m
<1> DEFINE D == {n - k : k \in T}
<1>0. \A k \in T : k \in Nat /\ n - k \in Nat
  OBVIOUS
<1>1. D \in SUBSET Nat /\ D # {}
  BY <1>0
<1>2. PICK d \in D : \A e \in D : d <= e
  BY <1>1, Smallest
<1>3. PICK m \in T : d = n - m
  OBVIOUS
<1>4. \A k \in T : n - m <= n - k
  BY <1>2, <1>3
<1> QED BY <1>0, <1>4

(***************************************************************************)
(* The inductive invariant.                                                *)
(***************************************************************************)
NodesOf(l) == Linked(l) \cup {HeadNode}

\* Every link goes forward, and passes no node of its level.
ListsAreSorted ==
  \A l \in Lists :
    /\ \A n \in Nodes : n < next[l][n]
    /\ \A n \in NodesOf(l), m \in Linked(l) : n < m => next[l][n] <= m

\* A node that is not linked on a level has no link there.
UnlinkedAreEmpty ==
  \A l \in Lists : \A n \in ListKeys : n \notin Linked(l) => next[l][n] = Nil

\* A node of a level is on all the levels below.
LevelsAreNested == \A l, j \in Lists : j <= l => Linked(l) \subseteq Linked(j)

\* p is the last node of level l before a key that is not there.
IsBefore(p, l, key) ==
  /\ key \notin Linked(l)
  /\ p \in NodesOf(l) /\ p < key
  /\ \A m \in Linked(l) : m < key => m <= p

\* Insert has linked its node on the levels below, and knows its places on the
\* others.
InsertIsRight ==
  inserting.key # HeadNode =>
    /\ inserting.level < inserting.height
    /\ \A l \in Lists : l < inserting.level => inserting.key \in Linked(l)
    /\ \A l \in Lists : inserting.level <= l => IsBefore(inserting.prev[l], l, inserting.key)

\* What is in the list for a reader stays there, and a search is on its way.
ReaderIsRight(it) ==
  /\ it.present \subseteq Linked(0)
  /\ it.result \in NodesOf(0) \cup {Nil}
  /\ it.searching => it.node \in NodesOf(it.level) /\ it.node < it.target

\* SearchesAreRight, of one reader.
SearchIsRight(it) ==
  ~it.searching =>
    /\ it.call = "seek" =>
         /\ it.target <= it.result
         /\ \A k \in it.present : it.target <= k => it.result <= k
    /\ it.call = "less" =>
         /\ it.result < it.target
         /\ \A k \in it.present : k < it.target => k <= it.result

ReadersAreRight == \A r \in Readers : ReaderIsRight(readers[r]) /\ SearchIsRight(readers[r])

ListInv == ListsAreSorted /\ UnlinkedAreEmpty /\ LevelsAreNested

Inv == TypeOK /\ ListInv /\ InsertIsRight /\ ReadersAreRight

Reader == [searching : BOOLEAN, call : Searches, target : 1..Nil, present : SUBSET ListKeys,
           node : Nodes, level : Lists, result : Nodes \cup {Nil}]

(***************************************************************************)
(* The initial states.                                                     *)
(***************************************************************************)
\* Keys and levels are natural numbers.
LEMMA Numbers ==
  /\ Nodes \subseteq Nat /\ Lists \subseteq Nat /\ 0 \in Lists
  /\ HeadNode \in Nodes /\ HeadNode = 0 /\ HeadNode \notin ListKeys /\ Nil \notin Nodes
  /\ \A n \in Nodes : n < Nil
  /\ Nil \in Nat /\ MaxHeight \in Nat /\ 1 \in 1..MaxHeight
BY ListAssumption DEF Nodes, Lists, HeadNode

\* A key may be sought.
LEMMA KeysAreTargets == \A k \in ListKeys : k \in 1..Nil
<1> TAKE k \in ListKeys
<1>1. k \in Nat /\ k # 0 /\ k < Nil /\ Nil \in Nat
  BY ListAssumption
<1> QED BY <1>1

\* The inductive invariant holds initially: there are no nodes.
LEMMA InitInv == Init => Inv
<1> SUFFICES ASSUME Init PROVE Inv
  OBVIOUS
<1> USE Numbers
<1>1. \A l \in Lists : next[l] = [n \in Nodes |-> Nil] /\ Linked(l) = {}
  BY DEF Init, Linked, Nodes
<1>2. TypeOK
  BY DEF Init, TypeOK, NotInserting, NotValid, Searches
<1>3. ListInv
  BY <1>1 DEF ListInv, ListsAreSorted, UnlinkedAreEmpty, LevelsAreNested, NodesOf, Nodes
<1>4. InsertIsRight
  BY DEF Init, InsertIsRight, NotInserting
<1>5. ReadersAreRight
  BY <1>1 DEF Init, ReadersAreRight, ReaderIsRight, SearchIsRight, NotValid, NodesOf
<1> QED BY <1>2, <1>3, <1>4, <1>5 DEF Inv

(***************************************************************************)
(* Insert.                                                                 *)
(***************************************************************************)
\* FindGreaterOrEqual leaves the last node before the key, if the key is not
\* there.
LEMMA PreviousIsBefore ==
  ASSUME NEW l \in Lists, NEW key \in ListKeys, key \notin Linked(l)
  PROVE  Previous(l, key) \in Nodes /\ IsBefore(Previous(l, key), l, key)
<1> USE Numbers
<1> DEFINE T == {n \in NodesOf(l) : n < key}
           Last(n) == n < key /\ \A m \in Linked(l) : m < key => m <= n
<1>1. NodesOf(l) \subseteq Nodes /\ Linked(l) \subseteq NodesOf(l) /\ key \in Nat /\ HeadNode < key
  BY ListAssumption DEF NodesOf, Linked, Nodes, HeadNode
<1>2. T \in SUBSET Nat /\ T # {} /\ \A n \in T : n <= key
  <2>1. HeadNode \in T
    BY <1>1 DEF NodesOf
  <2>2. ASSUME NEW n \in T
        PROVE  n \in Nat /\ n <= key
    <3>1. n \in Nodes /\ n < key
      BY <1>1
    <3>2. n \in Nat
      BY <3>1
    <3> QED BY <1>1, <3>1, <3>2
  <2> QED BY <2>1, <2>2
<1>3. PICK n \in T : \A m \in T : m <= n
  BY <1>1, <1>2, Largest
<1>4. n \in Linked(l) \cup {HeadNode} /\ Last(n)
  BY <1>1, <1>3 DEF NodesOf
<1>5. Previous(l, key) = CHOOSE q \in Linked(l) \cup {HeadNode} : Last(q)
  BY DEF Previous
<1>6. Previous(l, key) \in Linked(l) \cup {HeadNode} /\ Last(Previous(l, key))
  <2> HIDE DEF Last
  <2> QED BY <1>4, <1>5
<1> QED BY <1>1, <1>6 DEF IsBefore, NodesOf

\* Insert's search leaves the list and the readers as they are.
LEMMA InsertInv ==
  ASSUME Inv, NEW key \in ListKeys, NEW height \in 1..MaxHeight, Insert(key, height)
  PROVE  Inv'
<1> USE Numbers
<1>1. \A l \in Lists : (Linked(l))' = Linked(l) /\ (NodesOf(l))' = NodesOf(l)
  BY DEF Insert, Linked, NodesOf
<1>2. \A l \in Lists : key \notin Linked(l)
  BY DEF Insert, Inv, ListInv, LevelsAreNested
<1>3. \A l \in Lists : Previous(l, key) \in Nodes /\ IsBefore(Previous(l, key), l, key)
  BY <1>2, PreviousIsBefore
<1>4. TypeOK'
  <2>1. inserting' \in [key : Nodes, height : 1..MaxHeight, level : Lists, prev : [Lists -> Nodes]]
    BY <1>3 DEF Insert, Nodes
  <2>2. maxHeight' \in 1..MaxHeight
    BY DEF Insert, Inv, TypeOK
  <2> QED BY <2>1, <2>2 DEF Insert, Inv, TypeOK
<1>5. ListInv'
  BY <1>1 DEF Insert, Inv, ListInv, ListsAreSorted, UnlinkedAreEmpty, LevelsAreNested
<1>6. InsertIsRight'
  <2>1. inserting'.key = key /\ inserting'.height = height /\ inserting'.level = 0
    BY DEF Insert
  <2>2. \A l \in Lists : inserting'.prev[l] = Previous(l, key)
    BY DEF Insert
  <2>3. \A l \in Lists : (IsBefore(inserting.prev[l], l, inserting.key))'
    BY <1>1, <1>3, <2>1, <2>2 DEF IsBefore
  <2>4. 0 < height /\ \A l \in Lists : 0 <= l /\ ~(l < 0)
    BY DEF Lists
  <2>5. (inserting.level < inserting.height)'
    BY <2>1, <2>4
  <2>6. \A l \in Lists : l < inserting'.level => inserting'.key \in (Linked(l))'
    BY <2>1, <2>4
  <2> QED BY <2>3, <2>5, <2>6 DEF InsertIsRight
<1>7. ReadersAreRight'
  <2>1. next' = next /\ readers' = readers
    BY DEF Insert
  <2> QED BY <2>1 DEF Inv, ReadersAreRight, ReaderIsRight, SearchIsRight, NodesOf, Linked
<1> QED BY <1>4, <1>5, <1>6, <1>7 DEF Inv

\* The links `after` of level l have x besides what was there.
LevelWith(after, l, x) ==
  /\ {n \in ListKeys : \E m \in Nodes : after[m] = n} = Linked(l) \cup {x}
  /\ after \in [Nodes -> ListKeys \cup {Nil}]
  /\ \A n \in Nodes : n < after[n]
  /\ \A n \in NodesOf(l) \cup {x}, m \in Linked(l) \cup {x} : n < m => after[n] <= m
  /\ \A n \in ListKeys : n \notin Linked(l) \cup {x} => after[n] = Nil

\* A level after x has been linked behind p.
LEMMA LinkLevel ==
  ASSUME Inv, NEW l \in Lists, NEW p \in Nodes, NEW x \in ListKeys, IsBefore(p, l, x),
         NEW after,
         after = [next[l] EXCEPT ![x] = next[l][p], ![p] = x]
  PROVE  LevelWith(after, l, x)
<1> USE Numbers
<1>1. /\ next[l] \in [Nodes -> ListKeys \cup {Nil}]
      /\ x \in Nodes /\ x # HeadNode /\ x # p /\ p < x /\ p \in NodesOf(l) /\ x \notin Linked(l)
      /\ Linked(l) \subseteq Nodes /\ \A n \in Nodes : n \in Nat
      /\ \A m \in Linked(l) : m < x => m <= p
  <2>1. next[l] \in [Nodes -> ListKeys \cup {Nil}]
    BY DEF Inv, TypeOK
  <2>2. x \in Nodes /\ x # HeadNode /\ x \in Nat /\ p \in Nat /\ Linked(l) \subseteq Nodes
    BY DEF Nodes, Linked
  <2>3. p < x /\ p \in NodesOf(l) /\ x \notin Linked(l) /\ \A m \in Linked(l) : m < x => m <= p
    BY DEF IsBefore
  <2>4. x # p
    BY <2>2, <2>3
  <2> QED BY <2>1, <2>2, <2>3, <2>4
<1>2. \A n \in Nodes : after[n] = IF n = p THEN x ELSE IF n = x THEN next[l][p] ELSE next[l][n]
  BY <1>1
<1>3. /\ \A n \in Nodes : n < next[l][n]
      /\ \A n \in NodesOf(l), m \in Linked(l) : n < m => next[l][n] <= m
      /\ \A n \in ListKeys : n \notin Linked(l) => next[l][n] = Nil
  BY DEF Inv, ListInv, ListsAreSorted, UnlinkedAreEmpty
<1>4. next[l][p] = Nil \/ next[l][p] \in Linked(l)
  BY <1>1 DEF Linked
<1>5. x < next[l][p]
  <2>1. CASE next[l][p] = Nil
    BY <1>1, <2>1
  <2>2. CASE next[l][p] \in Linked(l)
    <3>1. next[l][p] \in Nat /\ p \in Nat /\ x \in Nat /\ p < next[l][p] /\ next[l][p] # x
      BY <1>1, <1>3, <2>2
    <3> QED BY <1>1, <2>2, <3>1
  <2> QED BY <1>4, <2>1, <2>2
<1>6. {n \in ListKeys : \E m \in Nodes : after[m] = n} = Linked(l) \cup {x}
  <2>1. ASSUME NEW n \in ListKeys, NEW m \in Nodes, after[m] = n
        PROVE  n \in Linked(l) \cup {x}
    BY <1>1, <1>2, <2>1 DEF Linked
  <2>2. after[p] = x
    BY <1>2
  <2>3. ASSUME NEW n \in Linked(l)
        PROVE  n \in ListKeys /\ \E m \in Nodes : after[m] = n
    <3>1. PICK m \in Nodes : next[l][m] = n
      BY DEF Linked
    <3>2. n \in ListKeys /\ n # Nil /\ n # x
      BY <1>1 DEF Linked, Nodes
    <3>3. m # x
      BY <1>1, <1>3, <3>1, <3>2
    <3>4. CASE m = p
      BY <1>1, <1>2, <3>1, <3>2, <3>4
    <3>5. CASE m # p
      BY <1>2, <3>1, <3>2, <3>3, <3>5
    <3> QED BY <3>4, <3>5
  <2> QED BY <2>1, <2>2, <2>3
<1>7. after \in [Nodes -> ListKeys \cup {Nil}]
  BY <1>1
<1>8. \A n \in Nodes : n < after[n]
  BY <1>1, <1>2, <1>3, <1>5, ZenonT(60)
<1>9. ASSUME NEW n \in NodesOf(l) \cup {x}, NEW m \in Linked(l) \cup {x}, n < m
      PROVE  after[n] <= m
  <2>1. n \in Nodes /\ m \in Nodes /\ n \in Nat /\ m \in Nat /\ p \in Nat /\ x \in Nat
    BY <1>1 DEF NodesOf
  <2>2. CASE n = x
    <3>1. m \in Linked(l) /\ p < m
      BY <1>1, <1>9, <2>1, <2>2
    <3>2. next[l][p] <= m
      BY <1>1, <1>3, <3>1
    <3> QED BY <1>1, <1>2, <2>1, <2>2, <3>2
  <2>3. CASE n = p
    <3>1. m = x \/ (m \in Linked(l) /\ ~(m < x))
      BY <1>1, <1>9, <2>1, <2>3
    <3> QED BY <1>2, <2>1, <2>3, <3>1
  <2>4. CASE n # x /\ n # p
    <3>1. n \in NodesOf(l) /\ after[n] = next[l][n]
      BY <1>2, <2>1, <2>4
    <3>2. CASE m \in Linked(l)
      BY <1>3, <1>9, <3>1, <3>2
    <3>3. CASE m = x
      <4>1. n < p /\ p \in Linked(l)
        BY <1>1, <1>9, <2>1, <2>4, <3>1, <3>3 DEF NodesOf
      <4>2. next[l][n] <= p
        BY <1>3, <3>1, <4>1
      <4>3. next[l][n] \in Nat
        <5>1. next[l][n] \in ListKeys \cup {Nil}
          BY <1>1, <2>1
        <5> QED BY <5>1 DEF Nodes
      <4> QED BY <1>1, <2>1, <3>1, <3>3, <4>2, <4>3
    <3> QED BY <3>2, <3>3
  <2> QED BY <2>2, <2>3, <2>4
<1>10. \A n \in ListKeys : n \notin Linked(l) \cup {x} => after[n] = Nil
  BY <1>1, <1>2, <1>3 DEF NodesOf, Nodes, HeadNode
<1> QED BY <1>6, <1>7, <1>8, <1>9, <1>10 DEF LevelWith

\* One turn of Insert's loop links the node on one more level.
LEMMA LinkInv == ASSUME Inv, Link PROVE Inv'
<1> USE Numbers
<1>1. PICK x \in ListKeys, l \in Lists, p \in Nodes :
        x = inserting.key /\ l = inserting.level /\ p = inserting.prev[l]
  BY DEF Inv, TypeOK, Link, Nodes
<1> DEFINE after == [next[l] EXCEPT ![x] = next[l][p], ![p] = x]
<1>2. /\ x # HeadNode /\ l < inserting.height /\ inserting.height \in 1..MaxHeight
      /\ \A j \in Lists : j < l => x \in Linked(j)
      /\ \A j \in Lists : l <= j => IsBefore(inserting.prev[j], j, x)
  BY <1>1 DEF Inv, TypeOK, InsertIsRight
<1>3. next \in [Lists -> [Nodes -> ListKeys \cup {Nil}]]
  BY DEF Inv, TypeOK
<1>4. next'[l] = after /\ \A j \in Lists : j # l => next'[j] = next[j]
  BY <1>1, <1>3 DEF Link, LevelToLink
<1>5. /\ {n \in ListKeys : \E m \in Nodes : after[m] = n} = Linked(l) \cup {x}
      /\ after \in [Nodes -> ListKeys \cup {Nil}]
      /\ \A n \in Nodes : n < after[n]
      /\ \A n \in NodesOf(l) \cup {x}, m \in Linked(l) \cup {x} : n < m => after[n] <= m
      /\ \A n \in ListKeys : n \notin Linked(l) \cup {x} => after[n] = Nil
  <2>1. l <= l
    BY DEF Lists
  <2>2. IsBefore(p, l, x)
    BY <1>1, <1>2, <2>1
  <2>3. after = [next[l] EXCEPT ![x] = next[l][p], ![p] = x]
    OBVIOUS
  <2>4. LevelWith(after, l, x)
    <3> HIDE DEF after
    <3> QED BY <2>2, <2>3, LinkLevel
  <2> QED BY <2>4 DEF LevelWith
<1> HIDE DEF after
<1>6. next' \in [Lists -> [Nodes -> ListKeys \cup {Nil}]]
  <2>1. next' = [next EXCEPT ![l] = after]
    BY <1>1 DEF Link, LevelToLink, after
  <2> QED BY <1>3, <1>5, <2>1
<1>7. /\ (Linked(l))' = Linked(l) \cup {x}
      /\ \A j \in Lists : j # l => (Linked(j))' = Linked(j)
  <2>1. (Linked(l))' = {n \in ListKeys : \E m \in Nodes : next'[l][m] = n}
    BY DEF Linked
  <2>2. (Linked(l))' = Linked(l) \cup {x}
    BY <1>4, <1>5, <2>1
  <2>3. \A j \in Lists : j # l => (Linked(j))' = Linked(j)
    BY <1>4 DEF Linked
  <2> QED BY <2>2, <2>3
<1>8. \A j \in Lists : Linked(j) \subseteq (Linked(j))' /\ NodesOf(j) \subseteq (NodesOf(j))'
  BY <1>7 DEF NodesOf
<1>9. TypeOK'
  <2>1. inserting' \in [key : Nodes, height : 1..MaxHeight, level : Lists, prev : [Lists -> Nodes]]
    <3>1. inserting \in [key : Nodes, height : 1..MaxHeight, level : Lists, prev : [Lists -> Nodes]]
      BY DEF Inv, TypeOK
    <3>2. CASE inserting.level = inserting.height - 1
      BY <3>2 DEF Link, NotInserting
    <3>3. CASE inserting.level # inserting.height - 1
      <4>1. l + 1 \in Lists
        BY <1>1, <1>2, <3>3 DEF Lists
      <4>2. inserting' = [inserting EXCEPT !.level = l + 1]
        BY <1>1, <3>3 DEF Link
      <4> QED BY <3>1, <4>1, <4>2
    <3> QED BY <3>2, <3>3
  <2> QED BY <1>6, <2>1 DEF Link, Inv, TypeOK
<1>10. ListInv'
  <2>1. ListsAreSorted'
    <3>1. (NodesOf(l))' = NodesOf(l) \cup {x} /\ \A j \in Lists : j # l => (NodesOf(j))' = NodesOf(j)
      BY <1>7 DEF NodesOf
    <3>2. ASSUME NEW j \in Lists
          PROVE  /\ \A n \in Nodes : n < next'[j][n]
                 /\ \A n \in (NodesOf(j))', m \in (Linked(j))' : n < m => next'[j][n] <= m
      <4>1. CASE j = l
        BY <1>4, <1>5, <1>7, <3>1, <4>1
      <4>2. CASE j # l
        BY <1>4, <1>7, <3>1, <4>2 DEF Inv, ListInv, ListsAreSorted
      <4> QED BY <4>1, <4>2
    <3> QED BY <3>2 DEF ListsAreSorted
  <2>2. UnlinkedAreEmpty'
    BY <1>4, <1>5, <1>7 DEF Inv, ListInv, UnlinkedAreEmpty
  <2>3. LevelsAreNested'
    <3>1. ASSUME NEW i \in Lists, NEW j \in Lists, j <= i
          PROVE  (Linked(i))' \subseteq (Linked(j))'
      <4>1. Linked(i) \subseteq (Linked(j))'
        BY <1>8, <3>1 DEF Inv, ListInv, LevelsAreNested
      <4>2. i = l => x \in (Linked(j))'
        BY <1>2, <1>7, <1>8, <3>1
      <4> QED BY <1>7, <4>1, <4>2
    <3> QED BY <3>1 DEF LevelsAreNested
  <2> QED BY <2>1, <2>2, <2>3 DEF ListInv
<1>11. InsertIsRight'
  <2>1. CASE inserting.level = inserting.height - 1
    BY <2>1 DEF Link, InsertIsRight, NotInserting
  <2>2. CASE inserting.level # inserting.height - 1
    <3>1. inserting \in [key : Nodes, height : 1..MaxHeight, level : Lists, prev : [Lists -> Nodes]]
      BY DEF Inv, TypeOK
    <3>2. /\ inserting'.key = x /\ inserting'.level = l + 1
          /\ inserting'.height = inserting.height /\ inserting'.prev = inserting.prev
      BY <1>1, <2>2, <3>1 DEF Link
    <3>3. l + 1 < inserting.height
      BY <1>1, <1>2, <2>2, <3>1
    <3>4. ASSUME NEW j \in Lists, j < l + 1
          PROVE  x \in (Linked(j))'
      <4>1. j < l \/ j = l
        BY <3>4 DEF Lists
      <4> QED BY <1>2, <1>7, <1>8, <4>1
    <3>5. ASSUME NEW j \in Lists, l + 1 <= j
          PROVE  (IsBefore(inserting.prev[j], j, inserting.key))'
      <4>1. l <= j /\ j # l
        BY <3>5
      <4>2. (Linked(j))' = Linked(j) /\ (NodesOf(j))' = NodesOf(j)
        BY <1>7, <4>1 DEF NodesOf
      <4> QED BY <1>2, <3>2, <4>1, <4>2 DEF IsBefore
    <3> QED BY <3>2, <3>3, <3>4, <3>5 DEF InsertIsRight
  <2> QED BY <2>1, <2>2
<1>12. ReadersAreRight'
  BY <1>8 DEF Link, Inv, TypeOK, ReadersAreRight, ReaderIsRight, SearchIsRight
<1> QED BY <1>9, <1>10, <1>11, <1>12 DEF Inv

(***************************************************************************)
(* Readers.                                                                *)
(***************************************************************************)
\* A step of a reader that leaves it right.
LEMMA ReaderInv ==
  ASSUME Inv, UNCHANGED <<next, maxHeight, inserting>>,
         NEW r \in Readers, NEW new \in Reader, ReaderIsRight(new), SearchIsRight(new),
         readers' = [readers EXCEPT ![r] = new]
  PROVE  Inv'
<1>1. \A l \in Lists : (Linked(l))' = Linked(l) /\ (NodesOf(l))' = NodesOf(l)
  BY DEF Linked, NodesOf
<1>2. readers \in [Readers -> Reader]
  BY DEF Inv, TypeOK, Reader
<1>3. readers' \in [Readers -> Reader] /\ \A q \in Readers : readers'[q] = IF q = r THEN new ELSE readers[q]
  BY <1>2
<1>4. TypeOK'
  BY <1>3 DEF Inv, TypeOK, Reader
<1>5. ListInv'
  BY <1>1 DEF Inv, ListInv, ListsAreSorted, UnlinkedAreEmpty, LevelsAreNested
<1>6. InsertIsRight'
  BY <1>1 DEF Inv, InsertIsRight, IsBefore
<1>7. ReadersAreRight'
  <2>1. ASSUME NEW q \in Readers
        PROVE  (ReaderIsRight(readers[q]) /\ SearchIsRight(readers[q]))'
    <3>1. CASE q = r
      <4>1. readers'[q] = new
        BY <1>3, <3>1
      <4> QED BY <4>1 DEF ReaderIsRight, SearchIsRight, NodesOf, Linked
    <3>2. CASE q # r
      <4>1. readers'[q] = readers[q]
        BY <1>3, <3>2
      <4> QED BY <4>1 DEF Inv, ReadersAreRight, ReaderIsRight, SearchIsRight, NodesOf, Linked
    <3> QED BY <3>1, <3>2
  <2> QED BY <2>1 DEF ReadersAreRight
<1> QED BY <1>4, <1>5, <1>6, <1>7 DEF Inv

\* A search starts at the head, with what is in the list.
LEMMA StartInv ==
  ASSUME Inv, NEW r \in Readers, NEW call \in Searches, NEW target \in 1..Nil,
         Start(r, call, target)
  PROVE  Inv'
<1> USE Numbers
<1>1. PICK height \in 1..maxHeight :
        readers' = [readers EXCEPT ![r] =
                      [searching |-> TRUE, call |-> call, target |-> target,
                       present |-> Inserted, node |-> HeadNode, level |-> height - 1,
                       result |-> Nil]]
  BY DEF Start
<1> DEFINE new == [searching |-> TRUE, call |-> call, target |-> target,
                   present |-> Inserted, node |-> HeadNode, level |-> height - 1, result |-> Nil]
<1>2. height - 1 \in Lists
  BY DEF Inv, TypeOK, Lists
<1>3. Inserted \subseteq Linked(0) /\ Linked(0) \subseteq ListKeys
  BY DEF Inserted, Linked
<1>4. new \in Reader
  BY <1>2, <1>3 DEF Reader
<1>5. ReaderIsRight(new) /\ SearchIsRight(new)
  BY <1>3 DEF ReaderIsRight, SearchIsRight, NodesOf
<1> QED BY <1>1, <1>4, <1>5, ReaderInv DEF Start

\* SeekToFirst and Next follow one link of the lowest level.
LEMMA FollowInv ==
  ASSUME Inv, NEW r \in Readers, NEW node \in NodesOf(0), Follow(r, node)
  PROVE  Inv'
<1> USE Numbers
<1> DEFINE new == [searching |-> FALSE, call |-> "seek", target |-> node + 1,
                   present |-> Inserted, node |-> node, level |-> 0,
                   result |-> next[0][node]]
<1>1. Inserted \subseteq Linked(0) /\ Linked(0) \subseteq ListKeys /\ node \in Nodes
  BY DEF Inserted, Linked, NodesOf, Nodes
<1>2. next[0][node] \in ListKeys \cup {Nil} /\ next[0][node] \in Linked(0) \cup {Nil}
  BY <1>1 DEF Inv, TypeOK, Linked
<1>3. next[0][node] \in Nat /\ node \in Nat /\ node < next[0][node]
  BY <1>1, <1>2 DEF Inv, ListInv, ListsAreSorted, Nodes
<1>4. \A k \in Linked(0) : node < k => next[0][node] <= k
  BY DEF Inv, ListInv, ListsAreSorted
<1>5. ASSUME NEW k \in Inserted
      PROVE  k \in Nat /\ (node + 1 <= k => next[0][node] <= k)
  <2>1. k \in Linked(0) /\ k \in Nat
    BY <1>1 DEF Nodes
  <2> QED BY <1>3, <1>4, <2>1
<1>6. new \in Reader
  BY <1>1, <1>2, <1>3 DEF Reader, Searches, Nodes
<1>7. ReaderIsRight(new) /\ SearchIsRight(new)
  BY <1>1, <1>2, <1>3, <1>5 DEF ReaderIsRight, SearchIsRight, NodesOf
<1>8. UNCHANGED <<next, maxHeight, inserting>> /\ readers' = [readers EXCEPT ![r] = new]
  BY DEF Follow
<1> HIDE DEF new
<1> QED BY <1>6, <1>7, <1>8, ReaderInv

\* One turn of a search goes on along its level, down a level, or ends.
LEMMA SearchInv ==
  ASSUME Inv, NEW r \in Readers, Search(r)
  PROVE  Inv'
<1> USE Numbers
<1>1. PICK it \in Reader : it = readers[r]
  BY DEF Inv, TypeOK, Reader
<1>2. ReaderIsRight(it) /\ it.searching
  BY <1>1 DEF Inv, ReadersAreRight, Search
<1>3. PICK l \in Lists, node \in Nodes : l = it.level /\ node = it.node
  BY DEF Reader
<1> DEFINE after == next[l][node]
           new == IF after < it.target THEN [it EXCEPT !.node = after]
                  ELSE IF l > 0 THEN [it EXCEPT !.level = l - 1]
                  ELSE [it EXCEPT !.searching = FALSE,
                                  !.result = IF it.call = "seek" THEN after ELSE node]
<1>4. /\ UNCHANGED <<next, maxHeight, inserting>>
      /\ readers' = [readers EXCEPT ![r] = new]
  BY <1>1, <1>3 DEF Search
<1>5. /\ node \in NodesOf(l) /\ node < it.target /\ it.present \subseteq Linked(0)
      /\ it.target \in 1..Nil /\ it.call \in Searches
  BY <1>2, <1>3 DEF ReaderIsRight, Reader
<1>6. /\ after \in ListKeys \cup {Nil} /\ after \in Linked(l) \cup {Nil}
      /\ after \in Nat /\ node \in Nat /\ node < after
      /\ \A k \in Linked(l) : node < k => after <= k
  <2>1. after \in ListKeys \cup {Nil}
    BY DEF Inv, TypeOK
  <2>2. after \in Linked(l) \cup {Nil}
    BY <2>1 DEF Linked
  <2>3. after \in Nat /\ node \in Nat
    BY <2>1 DEF Nodes
  <2>4. node < after /\ \A k \in Linked(l) : node < k => after <= k
    BY <1>5 DEF Inv, ListInv, ListsAreSorted
  <2> QED BY <2>1, <2>2, <2>3, <2>4
<1> HIDE DEF after
<1>7. new \in Reader /\ ReaderIsRight(new) /\ SearchIsRight(new)
  <2>1. CASE after < it.target
    <3>1. new = [it EXCEPT !.node = after]
      BY <2>1
    <3>2. after \in Linked(l) /\ after \in Nodes
      BY <1>5, <1>6, <2>1 DEF Nodes
    <3>3. new \in Reader
      BY <3>1, <3>2 DEF Reader
    <3>4. /\ new.searching /\ new.node = after /\ new.level = l /\ new.target = it.target
          /\ new.present = it.present /\ new.result = it.result
      BY <1>2, <1>3, <3>1 DEF Reader
    <3> QED BY <1>2, <2>1, <3>2, <3>3, <3>4 DEF ReaderIsRight, SearchIsRight, NodesOf
  <2>2. CASE ~(after < it.target) /\ l > 0
    <3>1. new = [it EXCEPT !.level = l - 1]
      BY <2>2
    <3>2. l - 1 \in Lists /\ l - 1 <= l
      BY <2>2 DEF Lists
    <3>3. node \in NodesOf(l - 1)
      BY <1>5, <3>2 DEF NodesOf, Inv, ListInv, LevelsAreNested
    <3>4. new \in Reader
      BY <3>1, <3>2 DEF Reader
    <3>5. /\ new.searching /\ new.node = node /\ new.level = l - 1 /\ new.target = it.target
          /\ new.present = it.present /\ new.result = it.result
      BY <1>2, <1>3, <3>1 DEF Reader
    <3> QED BY <1>2, <1>5, <3>3, <3>4, <3>5 DEF ReaderIsRight, SearchIsRight
  <2>3. CASE ~(after < it.target) /\ ~(l > 0)
    <3>1. l = 0
      BY <2>3 DEF Lists
    <3>2. new = [it EXCEPT !.searching = FALSE,
                           !.result = IF it.call = "seek" THEN after ELSE node]
      BY <2>3
    <3>3. new \in Reader
      BY <1>6, <3>2 DEF Reader, Nodes
    <3>4. /\ ~new.searching /\ new.call = it.call /\ new.target = it.target
          /\ new.present = it.present
          /\ new.result = IF it.call = "seek" THEN after ELSE node
      BY <3>2 DEF Reader
    <3>5. ReaderIsRight(new)
      BY <1>5, <1>6, <3>1, <3>4 DEF ReaderIsRight, NodesOf
    <3>6. \A k \in it.present : k \in Nat /\ (node < k => after <= k)
      BY <1>5, <1>6, <3>1 DEF Linked, Nodes
    <3>7. SearchIsRight(new)
      BY <1>5, <1>6, <2>3, <3>4, <3>6 DEF SearchIsRight
    <3> QED BY <3>3, <3>5, <3>7
  <2> QED BY <2>1, <2>2, <2>3
<1> HIDE DEF new
<1> QED BY <1>4, <1>7, ReaderInv

(***************************************************************************)
(* The specification.                                                      *)
(***************************************************************************)
\* Every step keeps the inductive invariant.
LEMMA NextInv == Inv /\ [Next]_vars => Inv'
<1> SUFFICES ASSUME Inv, [Next]_vars PROVE Inv'
  OBVIOUS
<1> USE Numbers
<1>1. ASSUME NEW key \in ListKeys, NEW height \in 1..MaxHeight, Insert(key, height)
      PROVE  Inv'
  BY <1>1, InsertInv
<1>2. CASE Link
  BY <1>2, LinkInv
<1>3. ASSUME NEW r \in Readers, NEW target \in ListKeys, Seek(r, target)
      PROVE  Inv'
  <2>1. target \in 1..Nil /\ "seek" \in Searches
    BY KeysAreTargets DEF Searches
  <2> QED BY <1>3, <2>1, StartInv DEF Seek
<1>4. ASSUME NEW r \in Readers, SeekToLast(r)
      PROVE  Inv'
  <2>1. Nil \in 1..Nil /\ "less" \in Searches
    BY ListAssumption DEF Searches
  <2> QED BY <1>4, <2>1, StartInv DEF SeekToLast
<1>5. ASSUME NEW r \in Readers, Prev(r)
      PROVE  Inv'
  <2>1. readers[r].result \in ListKeys
    BY <1>5 DEF Prev
  <2>2. readers[r].result \in 1..Nil /\ "less" \in Searches
    BY <2>1, KeysAreTargets DEF Searches
  <2> QED BY <1>5, <2>2, StartInv DEF Prev
<1>6. ASSUME NEW r \in Readers, SeekToFirst(r)
      PROVE  Inv'
  BY <1>6, FollowInv DEF SeekToFirst, NodesOf
<1>7. ASSUME NEW r \in Readers, NextNode(r)
      PROVE  Inv'
  <2>1. readers[r].result \in NodesOf(0)
    BY <1>7 DEF NextNode, Inv, ReadersAreRight, ReaderIsRight, Nodes
  <2> QED BY <1>7, <2>1, FollowInv DEF NextNode
<1>8. ASSUME NEW r \in Readers, Search(r)
      PROVE  Inv'
  BY <1>8, SearchInv
<1>9. CASE UNCHANGED vars
  BY <1>9 DEF vars, Inv, TypeOK, ListInv, ListsAreSorted, UnlinkedAreEmpty, LevelsAreNested,
              InsertIsRight, IsBefore, ReadersAreRight, ReaderIsRight, SearchIsRight,
              NodesOf, Linked
<1> QED BY <1>1, <1>2, <1>3, <1>4, <1>5, <1>6, <1>7, <1>8, <1>9 DEF Next

\* The list stays sorted and nested, and every reader on its way, in any
\* interleaving of an insertion and searches.
THEOREM Invariance == Spec => []Inv
<1>1. Init => Inv
  BY InitInv
<1>2. Inv /\ [Next]_vars => Inv'
  BY NextInv
<1> QED BY <1>1, <1>2, PTL DEF Spec

\* The variables have their types.
THEOREM TypeCorrect == Spec => []TypeOK
<1>1. Inv => TypeOK
  BY DEF Inv
<1> QED BY <1>1, Invariance, PTL

\* A search that has returned did not miss a key whose insertion ended before it
\* began, for any keys, heights and number of readers.
THEOREM SearchesAlwaysRight == Spec => []SearchesAreRight
<1>1. Inv => SearchesAreRight
  BY DEF Inv, ReadersAreRight, SearchIsRight, SearchesAreRight
<1> QED BY <1>1, Invariance, PTL

------------------------------------------------------------------------------
(***************************************************************************)
(* The inductive invariant of LogFile: of a file f with the fragments g,   *)
(* of a reader r of it.                                                    *)
(***************************************************************************)
Fragment == [record : 1..MaxRecords, type : Types, length : 0..BlockSize]

Bytes(g, id) == HeaderSize + g[id].length

Opening == {"full", "first"}
Closing == {"full", "last"}

\* A byte of a fragment stands behind those before it in the fragment, and the
\* fragments are in their order.  Before one that goes on with a record there
\* is the end of the fragment it goes on from.
BytesAreInOrder(f, g) ==
  /\ \A p \in 1..Len(f) : f[p][1] # 0 =>
       /\ f[p][1] \in 1..Len(g)
       /\ f[p][2] \in 1..Bytes(g, f[p][1]) /\ f[p][2] <= p
       /\ \A i \in 1..f[p][2] : f[p - f[p][2] + i] = <<f[p][1], i>>
  /\ \A p, q \in 1..Len(f) : p < q /\ f[p][1] # 0 /\ f[q][1] # 0 =>
       f[p][1] < f[q][1] \/ (f[p][1] = f[q][1] /\ f[p][2] < f[q][2])
  /\ \A q \in 1..Len(f) : f[q][1] # 0 /\ g[f[q][1]].type \notin Opening =>
       \E p \in 1..(q - 1) : f[p] = <<f[q][1] - 1, Bytes(g, f[q][1] - 1)>>

\* The fragments of a record are next to one another, behind those of the
\* records before it.
FragmentsAreInOrder(g) ==
  /\ \A k, id \in 1..Len(g) : k < id => g[k].record <= g[id].record
  /\ \A k, id \in 1..Len(g) : k < id /\ g[id].type \in Opening => g[k].record < g[id].record
  /\ \A id \in 1..Len(g) : g[id].type \notin Opening =>
       id > 1 /\ g[id - 1].record = g[id].record

\* Between two turns of its loop AddRecord has written all of the last fragment.
LogWriterIsRight ==
  Writing =>
    /\ \A id \in 1..Len(fragments) : fragments[id].record <= records
    /\ ~Resting => records > 0
    /\ ~Resting /\ writer.begin => \A id \in 1..Len(fragments) : fragments[id].record < records
    /\ ~Resting /\ ~writer.begin =>
         /\ Len(fragments) > 0 /\ Len(file) > 0
         /\ file[Len(file)] = <<Len(fragments), Bytes(fragments, Len(fragments))>>
         /\ fragments[Len(fragments)].record = records

\* The end of the fragment is before the place the reader is at.
Passed(f, g, at, id) ==
  id \in 1..Len(g) /\ \E e \in 1..at : f[e] = <<id, Bytes(g, id)>>

\* ids are fragments the reader has passed, one behind the other, of one record,
\* of which they are the first.
IsBeginning(f, g, at, ids) ==
  /\ Len(ids) > 0 /\ g[ids[1]].type \in Opening
  /\ \A j \in 1..Len(ids) : Passed(f, g, at, ids[j]) /\ ids[j] = ids[1] + j - 1
  /\ \A j \in 1..Len(ids) : g[ids[j]].record = g[ids[1]].record

\* From the end of the fragment to the place the reader is at there is less than
\* a header, and if anything at all, then a block was read since.
IsBehind(f, g, r, id) ==
  \E e \in 1..r.at :
    /\ f[e] = <<id, Bytes(g, id)>>
    /\ r.at < e + HeaderSize
    /\ r.at = e \/ r.eof \/ r.end - r.at >= HeaderSize

LogReaderIsRight(f, g, r) ==
  /\ r.at <= r.end /\ r.end <= Len(f)
  /\ r.eof => r.end = Len(f)
  /\ r.state = "waits" => r.end = 0 /\ ~r.eof /\ r.returned = <<>> /\ r.scratch = <<>>
  /\ r.state # "ended" => (r.inFragmented <=> r.scratch # <<>>)
  /\ r.state = "ended" => r.scratch = <<>>
  /\ \A i \in 1..Len(r.returned) :
       /\ IsBeginning(f, g, r.at, r.returned[i])
       /\ g[r.returned[i][Len(r.returned[i])]].type \in Closing
       /\ i > 1 => g[r.returned[i - 1][1]].record < g[r.returned[i][1]].record
  /\ r.scratch # <<>> =>
       /\ IsBeginning(f, g, r.at, r.scratch)
       /\ IsBehind(f, g, r, r.scratch[Len(r.scratch)])
       /\ \A i \in 1..Len(r.returned) :
            g[r.returned[i][1]].record < g[r.scratch[1]].record

LogInvariant ==
  /\ LogTypeOK
  /\ BytesAreInOrder(file, fragments)
  /\ FragmentsAreInOrder(fragments)
  /\ LogWriterIsRight
  /\ LogReaderIsRight(file, fragments, reader)

(***************************************************************************)
(* And if no append failed.                                                *)
(***************************************************************************)
Boundary(p) == \E b \in 0..p : p = b * BlockSize

\* The first byte of a fragment.
Begins(f, p) == f[p][1] # 0 /\ f[p][2] = 1

\* The bytes of a fragment are together, in one block, behind all the fragments
\* before it, and what is between two fragments is the end of a block.
BlocksAreFilled(f, g) ==
  /\ \A p \in 1..Len(f) : f[p][1] # 0 =>
       /\ \A j \in 0..(Bytes(g, f[p][1]) - f[p][2]) : p + j <= Len(f) =>
            f[p + j] = <<f[p][1], f[p][2] + j>>
       /\ \A b \in (p - f[p][2] + 1)..(p - f[p][2] + Bytes(g, f[p][1]) - 1) : ~Boundary(b)
       /\ \A k \in 1..(f[p][1] - 1) : \E q \in 1..(p - 1) : f[q] = <<k, Bytes(g, k)>>
  /\ \A p \in 0..(Len(f) - 1) : Boundary(p) => Begins(f, p + 1)
  /\ \A p \in 1..(Len(f) - 1) : f[p][1] # 0 /\ f[p][2] = Bytes(g, f[p][1]) =>
       \/ Begins(f, p + 1)
       \/ \E b \in (p + 1)..(p + HeaderSize - 1) : Boundary(b)

\* The records are numbered, and each begins behind the end of the one before it.
RecordsAreNumbered(g) ==
  /\ Len(g) > 0 => g[1].type \in Opening /\ g[1].record = 1
  /\ \A id \in 2..Len(g) : g[id].type \in Opening <=> g[id - 1].type \in Closing
  /\ \A id \in 2..Len(g) : g[id].type \in Opening => g[id].record = g[id - 1].record + 1

NothingIsMissing ==
  Writing =>
    /\ writer.blockOffset <= Len(file) /\ Boundary(Len(file) - writer.blockOffset)
    /\ \A id \in 1..Len(fragments) :
         \E p \in 1..Len(file) : file[p] = <<id, Bytes(fragments, id)>>
    /\ Len(fragments) = 0 => records = IF Resting THEN 0 ELSE 1
    /\ Len(fragments) = 0 /\ ~Resting => writer.begin
    /\ Len(fragments) > 0 =>
         /\ fragments[Len(fragments)].type \in Closing <=> Resting \/ writer.begin
         /\ fragments[Len(fragments)].record =
              IF ~Resting /\ writer.begin THEN records - 1 ELSE records

\* The last fragment of the last record that was synced is in the durable bytes.
SyncedIsThere(f, g) ==
  durable.records > 0 =>
    \E id \in 1..Len(g) :
      /\ g[id].record = durable.records /\ g[id].type \in Closing
      /\ \E e \in 1..durable.bytes : f[e] = <<id, Bytes(g, id)>>

\* The reader has taken the fragments up to id.
HasTaken(f, g, r, id) ==
  /\ \A p \in 1..r.at : f[p][1] <= id
  /\ \A p \in (r.at + 1)..Len(f) : f[p][1] # 0 => f[p][1] > id
  /\ id = 0 => ~r.inFragmented /\ r.returned = <<>>
  /\ id > 0 =>
       /\ r.inFragmented <=> g[id].type \notin Closing
       /\ Len(r.returned) = IF r.inFragmented THEN g[id].record - 1 ELSE g[id].record

\* The reader is at the beginning of a fragment or of what is behind the last
\* one of a block.
IsAtCut(f, g, at) ==
  \/ Boundary(at)
  \/ at > 0 /\ f[at][1] # 0 /\ f[at][2] = Bytes(g, f[at][1])

NothingIsLost(f, g, r) ==
  /\ ~r.corruption
  /\ \A i \in 1..Len(r.returned) : g[r.returned[i][1]].record = i
  /\ r.state # "ended" =>
       /\ IsAtCut(f, g, r.at)
       /\ ~r.eof => Boundary(r.end)
       /\ \A b \in (r.at + 1)..(r.end - 1) : ~Boundary(b)
       /\ \E id \in 0..Len(g) : HasTaken(f, g, r, id)

NoFailureInvariant ==
  failures = 0 =>
    /\ BlocksAreFilled(file, fragments)
    /\ RecordsAreNumbered(fragments)
    /\ NothingIsMissing
    /\ SyncedIsThere(file, fragments)
    /\ NothingIsLost(file, fragments, reader)
    /\ reader.state = "ended" => durable.records <= Len(reader.returned)

\* What is kept of a file of which the end is lost.
LEMMA Kept ==
  ASSUME NEW f, NEW g, BytesAreInOrder(f, g), Len(f) \in Nat,
         NEW h, Len(h) \in Nat, Len(h) <= Len(f), \A p \in 1..Len(h) : h[p] = f[p]
  PROVE  BytesAreInOrder(h, g)
<1>0. \A p \in 1..Len(h) : p \in 1..Len(f) /\ h[p] = f[p]
  OBVIOUS
<1>1. ASSUME NEW p \in 1..Len(h), h[p][1] # 0
      PROVE  /\ h[p][1] \in 1..Len(g)
             /\ h[p][2] \in 1..Bytes(g, h[p][1]) /\ h[p][2] <= p
             /\ \A i \in 1..h[p][2] : h[p - h[p][2] + i] = <<h[p][1], i>>
  <2>1. p \in 1..Len(f) /\ h[p] = f[p]
    BY <1>0
  <2>2. /\ f[p][1] \in 1..Len(g)
        /\ f[p][2] \in 1..Bytes(g, f[p][1]) /\ f[p][2] <= p
        /\ \A i \in 1..f[p][2] : f[p - f[p][2] + i] = <<f[p][1], i>>
    BY <1>1, <2>1 DEF BytesAreInOrder
  <2>3. ASSUME NEW i \in 1..f[p][2]
        PROVE  h[p - f[p][2] + i] = <<f[p][1], i>>
    <3>1. f[p][2] \in Int /\ f[p][2] <= p
      BY <2>2
    <3>2. p - f[p][2] + i \in 1..Len(h)
      BY <3>1
    <3> QED BY <1>0, <2>2, <3>2
  <2> QED BY <2>1, <2>2, <2>3
<1>2. ASSUME NEW p \in 1..Len(h), NEW q \in 1..Len(h), p < q, h[p][1] # 0, h[q][1] # 0
      PROVE  h[p][1] < h[q][1] \/ (h[p][1] = h[q][1] /\ h[p][2] < h[q][2])
  <2>1. p \in 1..Len(f) /\ h[p] = f[p]
    BY <1>0
  <2>2. q \in 1..Len(f) /\ h[q] = f[q]
    BY <1>0
  <2> QED BY <1>2, <2>1, <2>2 DEF BytesAreInOrder
<1>3. ASSUME NEW q \in 1..Len(h), h[q][1] # 0, g[h[q][1]].type \notin Opening
      PROVE  \E p \in 1..(q - 1) : h[p] = <<h[q][1] - 1, Bytes(g, h[q][1] - 1)>>
  <2>1. q \in 1..Len(f) /\ h[q] = f[q]
    BY <1>0
  <2>2. PICK p \in 1..(q - 1) : f[p] = <<f[q][1] - 1, Bytes(g, f[q][1] - 1)>>
    BY <1>3, <2>1 DEF BytesAreInOrder
  <2>3. p \in 1..Len(h)
    OBVIOUS
  <2> QED BY <1>0, <2>1, <2>2, <2>3
<1> QED BY <1>1, <1>2, <1>3 DEF BytesAreInOrder

\* What stands where in a file behind a turn of AddRecord's loop that is done.
IsEmitted(h, f, t, id, n) ==
  /\ Len(f) \in Nat /\ t \in Nat /\ Len(h) = Len(f) + t + n
  /\ \A p \in 1..Len(f) : h[p] = f[p]
  /\ \A p \in (Len(f) + 1)..(Len(f) + t) : h[p] = <<0, 0>>
  /\ \A i \in 1..n : h[Len(f) + t + i] = <<id, i>>

\* A byte of such a file is one of the file before, of the trailer or of the
\* fragment.
LEMMA EmittedBytes ==
  ASSUME NEW f, NEW h, NEW t, NEW id, NEW n \in Nat,
         IsEmitted(h, f, t, id, n), NEW p \in 1..Len(h)
  PROVE  \/ p \in 1..Len(f) /\ h[p] = f[p]
         \/ p \in (Len(f) + 1)..(Len(f) + t) /\ h[p] = <<0, 0>>
         \/ p - Len(f) - t \in 1..n /\ h[p] = <<id, p - Len(f) - t>>
<1>0. Len(f) \in Nat /\ t \in Nat /\ Len(h) = Len(f) + t + n
  BY DEF IsEmitted
<1>1. CASE p <= Len(f)
  <2>1. p \in 1..Len(f)
    BY <1>0, <1>1
  <2> QED BY <2>1 DEF IsEmitted
<1>2. CASE p > Len(f) /\ p <= Len(f) + t
  <2>1. p \in (Len(f) + 1)..(Len(f) + t)
    BY <1>0, <1>2
  <2> QED BY <2>1 DEF IsEmitted
<1>3. CASE p > Len(f) + t
  <2> DEFINE i == p - Len(f) - t
  <2>1. i \in 1..n /\ p = Len(f) + t + i
    BY <1>0, <1>3
  <2>2. h[Len(f) + t + i] = <<id, i>>
    BY <2>1 DEF IsEmitted
  <2> QED BY <2>1, <2>2
<1> QED BY <1>0, <1>1, <1>2, <1>3

\* A sequence with one member more.
IsAppended(G, g, x) ==
  /\ Len(g) \in Nat /\ Len(G) = Len(g) + 1 /\ G[Len(g) + 1] = x
  /\ \A k \in 1..Len(g) : G[k] = g[k]

\* Append adds one element at the end.
LEMMA AppendIs ==
  ASSUME NEW S, NEW g \in Seq(S), NEW x \in S
  PROVE  IsAppended(Append(g, x), g, x)
BY DEF IsAppended

\* A fragment is put behind a file in order.
LEMMA Emitted ==
  ASSUME NEW f, NEW g, BytesAreInOrder(f, g), FragmentsAreInOrder(g),
         NEW x \in Fragment, NEW G, IsAppended(G, g, x),
         NEW h, NEW t, IsEmitted(h, f, t, Len(g) + 1, HeaderSize + x.length),
         x.type \notin Opening =>
           Len(f) > 0 /\ Len(g) > 0 /\ f[Len(f)] = <<Len(g), Bytes(g, Len(g))>>
  PROVE  BytesAreInOrder(h, G)
<1> DEFINE n == HeaderSize + x.length
           id == Len(g) + 1
<1>0. /\ Len(f) \in Nat /\ t \in Nat /\ n \in Nat /\ id \in Nat /\ Len(g) \in Nat
      /\ Len(G) = id /\ G[id] = x /\ Bytes(G, id) = n
      /\ \A k \in 1..Len(g) : G[k] = g[k] /\ Bytes(G, k) = Bytes(g, k)
  BY LogAssumption DEF IsEmitted, Fragment, Bytes, IsAppended
<1>1. /\ Len(h) = Len(f) + t + n
      /\ \A p \in 1..Len(f) : h[p] = f[p]
      /\ \A i \in 1..n : h[Len(f) + t + i] = <<id, i>>
  BY DEF IsEmitted
<1>2. \A p \in 1..Len(h) :
        \/ p \in 1..Len(f) /\ h[p] = f[p]
        \/ p \in (Len(f) + 1)..(Len(f) + t) /\ h[p] = <<0, 0>>
        \/ p - Len(f) - t \in 1..n /\ h[p] = <<id, p - Len(f) - t>>
  <2>1. IsEmitted(h, f, t, id, n)
    OBVIOUS
  <2> HIDE DEF n, id
  <2> QED BY <1>0, <2>1, EmittedBytes
<1>9. id = Len(g) + 1
  OBVIOUS
<1> HIDE DEF n, id
<1>3. \A p \in 1..Len(f) : f[p][1] # 0 =>
        /\ f[p][1] \in 1..Len(g)
        /\ f[p][2] \in 1..Bytes(g, f[p][1]) /\ f[p][2] <= p
        /\ \A i \in 1..f[p][2] : f[p - f[p][2] + i] = <<f[p][1], i>>
  BY DEF BytesAreInOrder
<1>a. \A k \in 1..Len(g) : k \in 1..Len(G) /\ k < id /\ k # 0
  BY <1>0, <1>9
<1>4. ASSUME NEW p \in 1..Len(h), h[p][1] # 0
      PROVE  /\ h[p][1] \in 1..Len(G)
             /\ h[p][2] \in 1..Bytes(G, h[p][1]) /\ h[p][2] <= p
             /\ \A i \in 1..h[p][2] : h[p - h[p][2] + i] = <<h[p][1], i>>
  <2>1. CASE p \in 1..Len(f) /\ h[p] = f[p]
    <3>1. /\ f[p][1] \in 1..Len(g)
          /\ f[p][2] \in 1..Bytes(g, f[p][1]) /\ f[p][2] <= p
          /\ \A i \in 1..f[p][2] : f[p - f[p][2] + i] = <<f[p][1], i>>
      BY <1>3, <1>4, <2>1
    <3>2. f[p][2] \in Int
      BY <3>1
    <3>3. ASSUME NEW i \in 1..f[p][2]
          PROVE  h[p - f[p][2] + i] = <<f[p][1], i>>
      <4>1. p \in 1..Len(f) /\ f[p][2] <= p
        BY <2>1, <3>1
      <4>2. p - f[p][2] + i \in 1..Len(f)
        BY <1>0, <3>2, <4>1
      <4> QED BY <1>1, <3>1, <4>2
    <3>4. f[p][1] \in 1..Len(G) /\ Bytes(G, f[p][1]) = Bytes(g, f[p][1])
      BY <1>0, <1>a, <3>1
    <3> QED BY <2>1, <3>1, <3>3, <3>4
  <2>2. CASE p - Len(f) - t \in 1..n /\ h[p] = <<id, p - Len(f) - t>>
    <3>1. h[p][1] = id /\ h[p][2] = p - Len(f) - t
      BY <2>2
    <3>2. h[p][2] \in 1..n
      BY <2>2, <3>1
    <3>3. h[p][2] <= p
      BY <1>0, <3>1
    <3>4. ASSUME NEW i \in 1..h[p][2]
          PROVE  h[p - h[p][2] + i] = <<h[p][1], i>>
      <4>1. i \in 1..n
        BY <1>0, <3>2
      <4>2. p - h[p][2] + i = Len(f) + t + i
        BY <1>0, <3>1
      <4> QED BY <1>1, <3>1, <4>1, <4>2
    <3>5. h[p][1] \in 1..Len(G)
      BY <1>0, <1>9, <3>1
    <3>6. h[p][2] \in 1..Bytes(G, h[p][1])
      BY <1>0, <3>1, <3>2
    <3> QED BY <3>3, <3>4, <3>5, <3>6
  <2>3. ~ (h[p] = <<0, 0>>)
    BY <1>4
  <2>4. \/ p \in 1..Len(f) /\ h[p] = f[p]
        \/ p - Len(f) - t \in 1..n /\ h[p] = <<id, p - Len(f) - t>>
    BY <1>2, <2>3
  <2> QED BY <2>1, <2>2, <2>4
<1>5. ASSUME NEW p \in 1..Len(h), NEW q \in 1..Len(h), p < q, h[p][1] # 0, h[q][1] # 0
      PROVE  h[p][1] < h[q][1] \/ (h[p][1] = h[q][1] /\ h[p][2] < h[q][2])
  <2>1. CASE q \in 1..Len(f) /\ h[q] = f[q]
    <3>1. p \in 1..Len(f)
      BY <1>0, <1>5, <2>1
    <3>2. h[p] = f[p]
      BY <1>1, <3>1
    <3> QED BY <1>5, <2>1, <3>1, <3>2 DEF BytesAreInOrder
  <2>2. CASE q - Len(f) - t \in 1..n /\ h[q] = <<id, q - Len(f) - t>>
    <3>1. CASE p \in 1..Len(f) /\ h[p] = f[p]
      <4>1. f[p][1] \in 1..Len(g)
        BY <1>3, <1>5, <3>1
      <4> QED BY <1>a, <2>2, <3>1, <4>1
    <3>2. CASE p - Len(f) - t \in 1..n /\ h[p] = <<id, p - Len(f) - t>>
      BY <1>0, <1>5, <2>2, <3>2
    <3> QED BY <1>2, <1>5, <3>1, <3>2
  <2> QED BY <1>2, <1>5, <2>1, <2>2
<1>6. ASSUME NEW q \in 1..Len(h), h[q][1] # 0, G[h[q][1]].type \notin Opening
      PROVE  \E p \in 1..(q - 1) : h[p] = <<h[q][1] - 1, Bytes(G, h[q][1] - 1)>>
  <2>1. CASE q \in 1..Len(f) /\ h[q] = f[q]
    <3>1. f[q][1] \in 1..Len(g) /\ g[f[q][1]].type \notin Opening
      BY <1>0, <1>3, <1>6, <2>1
    <3>2. PICK p \in 1..(q - 1) : f[p] = <<f[q][1] - 1, Bytes(g, f[q][1] - 1)>>
      BY <1>6, <2>1, <3>1 DEF BytesAreInOrder
    <3>3. f[q][1] > 1
      BY <3>1 DEF FragmentsAreInOrder
    <3>4. f[q][1] - 1 \in 1..Len(g)
      BY <1>0, <3>1, <3>3
    <3>5. Bytes(G, f[q][1] - 1) = Bytes(g, f[q][1] - 1)
      BY <1>0, <3>4
    <3>6. q \in 1..Len(f)
      BY <2>1
    <3>7. p \in 1..Len(f)
      BY <1>0, <3>6
    <3>8. h[p] = f[p]
      BY <1>1, <3>7
    <3> QED BY <2>1, <3>2, <3>5, <3>8
  <2>2. CASE q - Len(f) - t \in 1..n /\ h[q] = <<id, q - Len(f) - t>>
    <3>1. h[q][1] = id
      BY <2>2
    <3>2. id - 1 = Len(g) /\ x.type \notin Opening
      BY <1>0, <1>6, <1>9, <3>1
    <3>3. Len(f) > 0 /\ Len(g) > 0 /\ f[Len(f)] = <<Len(g), Bytes(g, Len(g))>>
      BY <3>2
    <3>4. Len(f) \in 1..(q - 1)
      BY <1>0, <2>2, <3>3
    <3>5. h[Len(f)] = f[Len(f)]
      <4>1. Len(f) \in 1..Len(f)
        BY <1>0, <3>3
      <4> QED BY <1>1, <4>1
    <3>6. Bytes(G, Len(g)) = Bytes(g, Len(g))
      <4>1. Len(g) \in 1..Len(g)
        BY <1>0, <3>3
      <4> QED BY <1>0, <4>1
    <3> QED BY <3>1, <3>2, <3>3, <3>4, <3>5, <3>6
  <2> QED BY <1>2, <1>6, <2>1, <2>2
<1> QED BY <1>4, <1>5, <1>6 DEF BytesAreInOrder

\* What the type invariant says of a file and its fragments.
LEMMA FileTyped ==
  ASSUME LogTypeOK
  PROVE  /\ file \in Seq(Nat \X Nat) /\ fragments \in Seq(Fragment)
         /\ Len(file) \in Nat /\ Len(fragments) \in Nat
         /\ BlockSize \in Nat /\ HeaderSize \in 1..BlockSize /\ BlockSize >= 1
<1>1. BlockSize \in Nat /\ HeaderSize \in 1..BlockSize /\ BlockSize >= 1
  BY LogAssumption
<1>2. fragments \in Seq(Fragment) /\ Len(fragments) \in Nat
  BY DEF LogTypeOK, Fragment
<1>3. file \in Seq((0..Len(fragments)) \X (0..BlockSize))
  BY DEF LogTypeOK
<1>4. (0..Len(fragments)) \X (0..BlockSize) \subseteq Nat \X Nat
  BY <1>1, <1>2
<1>5. file \in Seq(Nat \X Nat)
  BY <1>3, <1>4, SeqMonotonic
<1> QED BY <1>1, <1>2, <1>5

\* A reader that waits is not disturbed.
LEMMA WaitingReader ==
  ASSUME NEW f, NEW g, NEW r, LogReaderIsRight(f, g, r), r.state = "waits",
         NEW F, NEW G, Len(F) \in Nat
  PROVE  LogReaderIsRight(F, G, r)
<1>1. r.end = 0 /\ ~r.eof /\ r.returned = <<>> /\ r.scratch = <<>> /\ r.at <= r.end
      /\ (r.inFragmented <=> r.scratch # <<>>)
  BY DEF LogReaderIsRight
<1>2. Len(r.returned) = 0
  BY <1>1
<1>3. ~ \E i \in 1..Len(r.returned) : TRUE
  BY <1>2
<1> QED BY <1>1, <1>3 DEF LogReaderIsRight

\* LogInit satisfies the invariant.
LEMMA LogInitInvariant == LogInit => LogInvariant
<1> SUFFICES ASSUME LogInit PROVE LogInvariant
  OBVIOUS
<1>1. /\ file = <<>> /\ fragments = <<>> /\ records = 0 /\ failures = 0
      /\ writer = [left |-> -1, begin |-> FALSE, blockOffset |-> 0]
      /\ durable = [bytes |-> 0, records |-> 0]
      /\ reader = [state |-> "waits", at |-> 0, end |-> 0, eof |-> FALSE, scratch |-> <<>>,
                   inFragmented |-> FALSE, corruption |-> FALSE, returned |-> <<>>]
  BY DEF LogInit
<1>2. Len(file) = 0 /\ Len(fragments) = 0
  BY <1>1
<1>3. LogTypeOK
  BY <1>1, LogAssumption DEF LogTypeOK
<1>4. BytesAreInOrder(file, fragments)
  BY <1>2 DEF BytesAreInOrder
<1>5. FragmentsAreInOrder(fragments)
  BY <1>2 DEF FragmentsAreInOrder
<1>6. LogWriterIsRight
  BY <1>1, <1>2 DEF LogWriterIsRight, Resting
<1>7. LogReaderIsRight(file, fragments, reader)
  BY <1>1, <1>2 DEF LogReaderIsRight
<1> QED BY <1>3, <1>4, <1>5, <1>6, <1>7 DEF LogInvariant

\* AddRecord begins a record.
LEMMA AddRecordKeeps ==
  ASSUME LogInvariant, NEW size \in Sizes, AddRecord(size)
  PROVE  LogInvariant'
<1>1. /\ UNCHANGED <<file, fragments, durable, failures, reader>>
      /\ records' = records + 1 /\ records < MaxRecords
      /\ writer' = [writer EXCEPT !.left = size, !.begin = TRUE]
      /\ Writing /\ Resting
  BY DEF AddRecord
<1>2. size \in Nat /\ MaxRecords \in Nat
  BY LogAssumption
<1>3. records \in Nat /\ records' \in 0..MaxRecords /\ durable \in [bytes : 0..Len(file), records : 0..records]
  BY <1>1, <1>2 DEF LogInvariant, LogTypeOK
<1>4. writer' \in [left : {-1} \cup Nat, begin : BOOLEAN, blockOffset : 0..BlockSize]
      /\ writer'.left = size /\ writer'.begin = TRUE
  BY <1>1, <1>2 DEF LogInvariant, LogTypeOK
<1>5. LogTypeOK'
  <2>1. durable' \in [bytes : 0..Len(file'), records : 0..records']
    BY <1>1, <1>3
  <2> QED BY <1>1, <1>3, <1>4, <2>1 DEF LogInvariant, LogTypeOK
<1>6. LogWriterIsRight'
  <2>1. \A id \in 1..Len(fragments) : fragments[id].record \in Nat /\ fragments[id].record <= records
    <3>1. fragments \in Seq(Fragment)
      BY FileTyped DEF LogInvariant
    <3>2. \A id \in 1..Len(fragments) : fragments[id].record \in Nat
      <4>1. \A id \in 1..Len(fragments) : fragments[id] \in Fragment
        BY <3>1
      <4> QED BY <4>1, LogAssumption DEF Fragment
    <3> QED BY <1>1, <3>2 DEF LogInvariant, LogWriterIsRight
  <2>2. \A id \in 1..Len(fragments) :
          fragments[id].record < records + 1 /\ fragments[id].record <= records + 1
    BY <1>3, <2>1
  <2> QED BY <1>1, <1>3, <1>4, <2>2 DEF LogWriterIsRight
<1> QED BY <1>1, <1>5, <1>6 DEF LogInvariant

\* Sync changes neither the file nor the reader.
LEMMA SyncKeeps ==
  ASSUME LogInvariant, Sync
  PROVE  LogInvariant'
<1>1. /\ UNCHANGED <<file, fragments, records, writer, failures, reader>>
      /\ durable' = [bytes |-> Len(file), records |-> records]
  BY DEF Sync
<1>2. durable' \in [bytes : 0..Len(file), records : 0..records]
  BY <1>1, FileTyped DEF LogInvariant, LogTypeOK
<1>3. LogTypeOK'
  BY <1>1, <1>2 DEF LogInvariant, LogTypeOK
<1>4. LogWriterIsRight'
  BY <1>1 DEF LogInvariant, LogWriterIsRight, Writing, Resting
<1> QED BY <1>1, <1>3, <1>4 DEF LogInvariant

\* A crash leaves a file of which the end may be lost.
LEMMA CrashKeeps ==
  ASSUME LogInvariant, Crash
  PROVE  LogInvariant'
<1>1. /\ UNCHANGED <<fragments, records, writer, durable, failures>>
      /\ reader' = [reader EXCEPT !.state = "reads"] /\ reader.state = "waits"
  BY DEF Crash, Writing
<1>2. PICK n \in durable.bytes..Len(file) : file' = SubSeq(file, 1, n)
  BY DEF Crash
<1>3. LogTypeOK
  BY DEF LogInvariant
<1>4. /\ file \in Seq(Nat \X Nat) /\ fragments \in Seq(Fragment)
      /\ Len(file) \in Nat /\ Len(fragments) \in Nat
  BY <1>3, FileTyped
<1>5. durable.bytes \in Nat /\ n \in Nat /\ n <= Len(file)
  BY <1>2, <1>3, <1>4 DEF LogTypeOK
<1>6. /\ file' \in Seq((0..Len(fragments)) \X (0..BlockSize)) /\ file' \in Seq(Nat \X Nat)
      /\ Len(file') = n /\ \A p \in 1..n : file'[p] = file[p]
  <2>1. file \in Seq((0..Len(fragments)) \X (0..BlockSize))
    BY <1>3 DEF LogTypeOK
  <2>2. \A i \in 1..n : i \in 1..Len(file)
    BY <1>4, <1>5
  <2>3. SubSeq(file, 1, n) \in Seq((0..Len(fragments)) \X (0..BlockSize))
    BY <1>5, <2>1, <2>2
  <2>4. SubSeq(file, 1, n) \in Seq(Nat \X Nat) /\ Len(SubSeq(file, 1, n)) = n
    BY <1>4, <1>5, <2>2
  <2>5. \A p \in 1..n : SubSeq(file, 1, n)[p] = file[p]
    BY <1>4, <1>5
  <2> QED BY <1>2, <2>3, <2>4, <2>5
<1>7. LogTypeOK'
  <2>1. durable' \in [bytes : 0..Len(file'), records : 0..records']
    BY <1>1, <1>2, <1>3, <1>5, <1>6 DEF LogTypeOK
  <2>2. reader' \in [state : {"waits", "reads", "ended"}, at : Nat, end : Nat, eof : BOOLEAN,
                     scratch : Seq(Nat), inFragmented : BOOLEAN, corruption : BOOLEAN,
                     returned : Seq(Seq(Nat))]
    BY <1>1, <1>3 DEF LogTypeOK
  <2> QED BY <1>1, <1>3, <1>6, <2>1, <2>2 DEF LogTypeOK
<1>8. BytesAreInOrder(file', fragments')
  <2>1. BytesAreInOrder(file, fragments)
    BY DEF LogInvariant
  <2> QED BY <1>1, <1>4, <1>5, <1>6, <2>1, Kept
<1>9. reader'.state = "reads"
  BY <1>1, <1>3 DEF LogTypeOK
<1>10. LogWriterIsRight'
  BY <1>9 DEF LogWriterIsRight, Writing
<1>11. LogReaderIsRight(file', fragments', reader')
  <2>1. /\ reader'.at = reader.at /\ reader'.end = reader.end /\ reader'.eof = reader.eof
        /\ reader'.returned = reader.returned /\ reader'.scratch = reader.scratch
        /\ reader'.inFragmented = reader.inFragmented
    BY <1>1, <1>3 DEF LogTypeOK
  <2>2. LogReaderIsRight(file', fragments', reader)
    BY <1>1, <1>5, <1>6, WaitingReader DEF LogInvariant
  <2>3. reader.returned = <<>> /\ reader.scratch = <<>> /\ ~reader.eof
        /\ reader.at <= reader.end /\ reader.end <= Len(file')
        /\ (reader.inFragmented <=> reader.scratch # <<>>)
    BY <1>1, <2>2 DEF LogReaderIsRight
  <2>4. Len(reader.returned) = 0
    BY <2>3
  <2>5. ~ \E i \in 1..Len(reader'.returned) : TRUE
    BY <2>1, <2>4
  <2> QED BY <1>9, <2>1, <2>3, <2>5 DEF LogReaderIsRight
<1> QED BY <1>1, <1>7, <1>8, <1>10, <1>11 DEF LogInvariant

\* One turn of AddRecord's loop: h is the file behind it if nothing fails, x the
\* fragment, t the length of the trailer.
Emits(fails, h, x, t, start) ==
  /\ x \in Fragment /\ x.record = records
  /\ x.type \in Opening <=> writer.begin
  /\ x.type \in Closing <=> x.length = writer.left
  /\ fragments' = Append(fragments, x)
  /\ IsEmitted(h, file, t, Len(fragments) + 1, HeaderSize + x.length)
  /\ h \in Seq((0..(Len(fragments) + 1)) \X (0..BlockSize))
  /\ \/ ~fails /\ file' = h /\ failures' = failures
     \/ /\ fails /\ failures' = failures + 1 /\ failures < MaxFailures
        /\ file' \in Seq((0..(Len(fragments) + 1)) \X (0..BlockSize))
        /\ Len(file) <= Len(file') /\ Len(file') <= Len(h)
        /\ \A p \in 1..Len(file') : file'[p] = h[p]
  /\ writer' = [left        |-> IF x.length = writer.left \/ fails THEN -1
                                ELSE writer.left - x.length,
                begin       |-> FALSE,
                blockOffset |-> start + HeaderSize + x.length]
  /\ x.length <= writer.left
  /\ start \in Nat /\ start + HeaderSize + x.length <= BlockSize
  /\ \/ t = 0 /\ start = writer.blockOffset
     \/ t = BlockSize - writer.blockOffset /\ t < HeaderSize /\ start = 0

\* Two sequences, one behind the other.
IsJoined(c, a, b) ==
  /\ Len(a) \in Nat /\ Len(b) \in Nat /\ Len(c) = Len(a) + Len(b)
  /\ \A i \in 1..Len(a) : c[i] = a[i]
  /\ \A i \in 1..Len(b) : c[Len(a) + i] = b[i]

\* \o is the elements of the first sequence, then those of the second.
LEMMA JoinedIs ==
  ASSUME NEW S, NEW a \in Seq(S), NEW b \in Seq(S)
  PROVE  a \o b \in Seq(S) /\ IsJoined(a \o b, a, b)
<1>1. a \o b \in Seq(S) /\ Len(a \o b) = Len(a) + Len(b)
      /\ Len(a) \in Nat /\ Len(b) \in Nat
  OBVIOUS
<1>2. \A i \in 1..Len(a) : (a \o b)[i] = a[i]
  OBVIOUS
<1>3. \A i \in 1..Len(b) : (a \o b)[Len(a) + i] = b[i]
  OBVIOUS
<1> QED BY <1>1, <1>2, <1>3 DEF IsJoined

\* What EmitPhysicalRecord emits.
LEMMA Emission ==
  ASSUME LogInvariant, NEW fails \in BOOLEAN, EmitPhysicalRecord(fails)
  PROVE  \E h, x, t, start : Emits(fails, h, x, t, start)
<1> DEFINE leftover == BlockSize - writer.blockOffset
           start    == IF leftover < HeaderSize THEN 0 ELSE writer.blockOffset
           avail    == BlockSize - start - HeaderSize
           length   == IF writer.left < avail THEN writer.left ELSE avail
           end      == writer.left = length
           type     == IF writer.begin THEN (IF end THEN "full" ELSE "first")
                       ELSE IF end THEN "last" ELSE "middle"
           x        == [record |-> records, type |-> type, length |-> length]
           id       == Len(fragments) + 1
           n        == HeaderSize + length
           t        == IF leftover < HeaderSize THEN leftover ELSE 0
           trailer  == Trailer(leftover)
           own      == [i \in 1..n |-> <<id, i>>]
           bytes    == trailer \o own
           h        == file \o bytes
           B        == (0..id) \X (0..BlockSize)
<1>0. /\ Writing /\ ~Resting
      /\ fragments' = Append(fragments, x)
      /\ \/ ~fails /\ file' = h /\ failures' = failures
         \/ /\ fails /\ failures < MaxFailures /\ failures' = failures + 1
            /\ \E m \in 0..(Len(bytes) - 1) : file' = file \o SubSeq(bytes, 1, m)
      /\ writer' = [left        |-> IF end \/ fails THEN -1 ELSE writer.left - length,
                    begin       |-> FALSE,
                    blockOffset |-> start + HeaderSize + length]
  BY DEF EmitPhysicalRecord
<1>1. LogTypeOK
  BY DEF LogInvariant
<1>2. /\ writer.blockOffset \in 0..BlockSize /\ writer.left \in Nat
      /\ BlockSize \in Nat /\ HeaderSize \in 1..BlockSize
      /\ Len(fragments) \in Nat /\ Len(file) \in Nat
      /\ writer.begin \in BOOLEAN
  BY <1>0, <1>1, FileTyped DEF LogTypeOK, Resting
<1>3. records \in 1..MaxRecords
  BY <1>0, <1>1, LogAssumption DEF LogInvariant, LogWriterIsRight, LogTypeOK
<1>4. leftover \in Nat
  BY <1>2
<1>5. start \in Nat /\ avail \in Nat
  BY <1>2
<1>6. /\ length \in Nat /\ length <= avail /\ length <= writer.left
      /\ start + HeaderSize + length <= BlockSize /\ length \in 0..BlockSize
  <2> HIDE DEF start
  <2>1. length \in Nat /\ length <= avail /\ length <= writer.left
    BY <1>2, <1>5
  <2> QED BY <1>2, <1>5, <2>1
<1>7. id \in Nat /\ n \in Nat /\ t \in Nat
  <2>1. id \in Nat
    BY <1>2
  <2>2. t \in Nat
    <3> HIDE DEF leftover
    <3> QED BY <1>4
  <2>3. n \in Nat
    <3> HIDE DEF length
    <3> QED BY <1>2, <1>6
  <2> QED BY <2>1, <2>2, <2>3
<1>25. n <= BlockSize
  <2> HIDE DEF length, start
  <2> QED BY <1>2, <1>5, <1>6
<1>8. x \in Fragment
  <2>1. type \in Types
    BY DEF Types
  <2> HIDE DEF type, length
  <2> QED BY <1>3, <1>6, <2>1 DEF Fragment
<1>9. (type \in Opening <=> writer.begin) /\ (type \in Closing <=> length = writer.left)
  <2> HIDE DEF length
  <2> QED BY <1>2 DEF Opening, Closing
<1>10. trailer \in Seq(B) /\ Len(trailer) = t /\ \A i \in 1..t : trailer[i] = <<0, 0>>
  <2>1. CASE leftover < HeaderSize
    <3>1. trailer = [i \in 1..leftover |-> <<0, 0>>] /\ t = leftover
      BY <2>1 DEF Trailer
    <3>2. <<0, 0>> \in B
      BY <1>2, <1>7
    <3> HIDE DEF trailer, t, leftover, B
    <3> QED BY <1>4, <3>1, <3>2
  <2>2. CASE ~ (leftover < HeaderSize)
    BY <2>2 DEF Trailer
  <2> QED BY <2>1, <2>2
<1>11. own \in Seq(B) /\ Len(own) = n /\ \A i \in 1..n : own[i] = <<id, i>>
  <2>1. \A i \in 1..n : <<id, i>> \in B
    <3> HIDE DEF n
    <3> QED BY <1>2, <1>7, <1>25
  <2> HIDE DEF n, B, id
  <2> QED BY <1>7, <2>1
<1>12. bytes \in Seq(B) /\ Len(bytes) = t + n
       /\ (\A i \in 1..t : bytes[i] = <<0, 0>>) /\ \A i \in 1..n : bytes[t + i] = <<id, i>>
  <2> HIDE DEF trailer, own, t, n, id, B
  <2>1. trailer \o own \in Seq(B) /\ IsJoined(trailer \o own, trailer, own)
    BY <1>10, <1>11, JoinedIs
  <2>2. bytes \in Seq(B) /\ IsJoined(bytes, trailer, own)
    BY <2>1
  <2> HIDE DEF bytes
  <2> QED BY <1>10, <1>11, <2>2 DEF IsJoined
<1>13. file \in Seq(B)
  <2>1. (0..Len(fragments)) \X (0..BlockSize) \subseteq B
    BY <1>2
  <2>2. file \in Seq((0..Len(fragments)) \X (0..BlockSize))
    BY <1>1 DEF LogTypeOK
  <2> HIDE DEF B
  <2> QED BY <2>1, <2>2, SeqMonotonic
<1> HIDE DEF bytes, B
<1>15. /\ h \in Seq(B) /\ Len(h) = Len(file) + t + n
       /\ \A p \in 1..Len(file) : h[p] = file[p]
       /\ \A i \in 1..(t + n) : h[Len(file) + i] = bytes[i]
  <2> HIDE DEF t, n
  <2>1. file \o bytes \in Seq(B) /\ IsJoined(file \o bytes, file, bytes)
    BY <1>12, <1>13, JoinedIs
  <2>3. h \in Seq(B) /\ IsJoined(h, file, bytes)
    BY <2>1
  <2> HIDE DEF h
  <2>2. Len(bytes) = t + n /\ Len(file) + (t + n) = Len(file) + t + n
    BY <1>2, <1>7, <1>12
  <2> QED BY <2>2, <2>3 DEF IsJoined
<1>16. IsEmitted(h, file, t, id, n)
  <2> HIDE DEF h, t, n, id
  <2>2. ASSUME NEW p \in (Len(file) + 1)..(Len(file) + t)
        PROVE  h[p] = <<0, 0>>
    <3>1. PICK i \in 1..t : p = Len(file) + i
      <4>1. p - Len(file) \in 1..t /\ p = Len(file) + (p - Len(file))
        BY <1>2, <1>7
      <4> QED BY <4>1
    <3>2. i \in 1..(t + n)
      BY <1>7
    <3> QED BY <1>12, <1>15, <3>1, <3>2
  <2>3. ASSUME NEW i \in 1..n
        PROVE  h[Len(file) + t + i] = <<id, i>>
    <3>1. t + i \in 1..(t + n) /\ Len(file) + t + i = Len(file) + (t + i)
      BY <1>2, <1>7
    <3> QED BY <1>12, <1>15, <3>1
  <2> QED BY <1>2, <1>7, <1>15, <2>2, <2>3 DEF IsEmitted
<1>17. \/ ~fails /\ file' = h /\ failures' = failures
       \/ /\ fails /\ failures' = failures + 1 /\ failures < MaxFailures
          /\ file' \in Seq(B) /\ Len(file) <= Len(file') /\ Len(file') <= Len(h)
          /\ \A p \in 1..Len(file') : file'[p] = h[p]
  <2>1. CASE ~fails
    BY <1>0, <2>1
  <2>2. CASE fails
    <3>1. PICK m \in 0..(Len(bytes) - 1) : file' = file \o SubSeq(bytes, 1, m)
      BY <1>0, <2>2
    <3>2. m \in Nat /\ m <= t + n
      <4> HIDE DEF t, n
      <4> QED BY <1>7, <1>12
    <3> HIDE DEF t, n
    <3>3. /\ SubSeq(bytes, 1, m) \in Seq(B) /\ Len(SubSeq(bytes, 1, m)) = m
          /\ \A i \in 1..m : SubSeq(bytes, 1, m)[i] = bytes[i]
      BY <1>7, <1>12, <3>2
    <3>4. /\ file' \in Seq(B) /\ Len(file') = Len(file) + m
          /\ \A p \in 1..Len(file) : file'[p] = file[p]
          /\ \A i \in 1..m : file'[Len(file) + i] = bytes[i]
      BY <1>2, <1>13, <3>1, <3>2, <3>3
    <3> HIDE DEF h
    <3>5. ASSUME NEW p \in 1..Len(file')
          PROVE  file'[p] = h[p]
      <4>1. CASE p <= Len(file)
        BY <1>2, <1>15, <3>2, <3>4, <4>1
      <4>2. CASE p > Len(file)
        <5>1. PICK i \in 1..m : p = Len(file) + i
          <6>1. p - Len(file) \in 1..m /\ p = Len(file) + (p - Len(file))
            BY <1>2, <3>2, <3>4, <4>2
          <6> QED BY <6>1
        <5>2. i \in 1..(t + n)
          BY <1>7, <3>2
        <5> QED BY <1>15, <3>4, <5>1, <5>2
      <4> QED BY <1>2, <3>2, <3>4, <4>1, <4>2
    <3>6. Len(file) <= Len(file') /\ Len(file') <= Len(h)
      BY <1>2, <1>7, <1>15, <3>2, <3>4
    <3> QED BY <1>0, <2>2, <3>4, <3>5, <3>6
  <2> QED BY <2>1, <2>2
<1>18. x.record = records /\ x.type = type /\ x.length = length
  <2> HIDE DEF type, length
  <2> QED OBVIOUS
<1>19. \/ t = 0 /\ start = writer.blockOffset
       \/ t = BlockSize - writer.blockOffset /\ t < HeaderSize /\ start = 0
  OBVIOUS
<1> HIDE DEF h, x, start, t, length, type, leftover
<1>20. n = HeaderSize + x.length
  BY <1>18
<1>21. writer' = [left        |-> IF x.length = writer.left \/ fails THEN -1
                                  ELSE writer.left - x.length,
                  begin       |-> FALSE,
                  blockOffset |-> start + HeaderSize + x.length]
  BY <1>0, <1>18
<1>22. IsEmitted(h, file, t, Len(fragments) + 1, HeaderSize + x.length)
  BY <1>16, <1>20
<1>23. h \in Seq((0..(Len(fragments) + 1)) \X (0..BlockSize))
  BY <1>15 DEF B
<1>24. Emits(fails, h, x, t, start)
  BY <1>0, <1>5, <1>6, <1>8, <1>9, <1>17, <1>18, <1>19, <1>21, <1>22, <1>23 DEF Emits, B
<1> QED BY <1>24

\* A fragment is added behind those of the records before its own, or goes on
\* with the last record.
LEMMA FragmentsAppended ==
  ASSUME NEW g, FragmentsAreInOrder(g), NEW x, NEW G, IsAppended(G, g, x),
         \A id \in 1..Len(g) : g[id].record <= x.record,
         x.type \in Opening => \A id \in 1..Len(g) : g[id].record < x.record,
         x.type \notin Opening => Len(g) > 0 /\ g[Len(g)].record = x.record
  PROVE  FragmentsAreInOrder(G)
<1>1. /\ Len(g) \in Nat /\ Len(G) = Len(g) + 1 /\ G[Len(g) + 1] = x
      /\ \A k \in 1..Len(g) : G[k] = g[k]
  BY DEF IsAppended
<1>2. \A k \in 1..Len(G) : k \in 1..Len(g) \/ k = Len(g) + 1
  BY <1>1
<1>3. ASSUME NEW k \in 1..Len(G), NEW id \in 1..Len(G), k < id
      PROVE  /\ G[k].record <= G[id].record
             /\ G[id].type \in Opening => G[k].record < G[id].record
  <2>1. k \in 1..Len(g)
    BY <1>1, <1>2, <1>3
  <2>2. CASE id \in 1..Len(g)
    BY <1>1, <1>3, <2>1, <2>2 DEF FragmentsAreInOrder
  <2>3. CASE id = Len(g) + 1
    BY <1>1, <2>1, <2>3
  <2> QED BY <1>2, <2>2, <2>3
<1>4. ASSUME NEW id \in 1..Len(G), G[id].type \notin Opening
      PROVE  id > 1 /\ G[id - 1].record = G[id].record
  <2>1. CASE id \in 1..Len(g)
    <3>1. id > 1 /\ g[id - 1].record = g[id].record
      BY <1>1, <1>4, <2>1 DEF FragmentsAreInOrder
    <3>2. id - 1 \in 1..Len(g)
      BY <1>1, <2>1, <3>1
    <3> QED BY <1>1, <2>1, <3>1, <3>2
  <2>2. CASE id = Len(g) + 1
    <3>1. x.type \notin Opening /\ id - 1 = Len(g)
      BY <1>1, <1>4, <2>2
    <3>2. Len(g) > 0 /\ g[Len(g)].record = x.record
      BY <3>1
    <3>3. Len(g) \in 1..Len(g)
      BY <1>1, <3>2
    <3> QED BY <1>1, <2>2, <3>1, <3>2, <3>3
  <2> QED BY <1>2, <2>1, <2>2
<1> QED BY <1>3, <1>4 DEF FragmentsAreInOrder

\* A turn of AddRecord's loop.
LEMMA EmitKeeps ==
  ASSUME LogInvariant, NEW fails \in BOOLEAN, EmitPhysicalRecord(fails)
  PROVE  LogInvariant'
<1>1. PICK h, x, t, start : Emits(fails, h, x, t, start)
  BY Emission
<1>2. UNCHANGED <<records, durable, reader>> /\ Writing /\ ~Resting
  BY DEF EmitPhysicalRecord
<1>3. LogTypeOK
  BY DEF LogInvariant
<1>4. /\ file \in Seq(Nat \X Nat) /\ fragments \in Seq(Fragment)
      /\ Len(file) \in Nat /\ Len(fragments) \in Nat
      /\ BlockSize \in Nat /\ HeaderSize \in 1..BlockSize
      /\ writer.left \in Nat /\ writer.begin \in BOOLEAN
  BY <1>2, <1>3, FileTyped DEF LogTypeOK, Resting
<1>5. /\ x \in Fragment /\ x.record = records /\ (x.type \in Opening <=> writer.begin)
      /\ fragments' = Append(fragments, x)
      /\ IsEmitted(h, file, t, Len(fragments) + 1, HeaderSize + x.length)
      /\ x.length <= writer.left /\ start \in Nat /\ start + HeaderSize + x.length <= BlockSize
  BY <1>1 DEF Emits
<1>6. x.length \in Nat /\ t \in Nat /\ HeaderSize + x.length \in Nat /\ x.record \in Nat
  <2>1. t \in Nat
    BY <1>5 DEF IsEmitted
  <2>2. x \in Fragment
    BY <1>5
  <2>3. x.length \in Nat /\ x.record \in Nat
    BY <2>2, LogAssumption DEF Fragment
  <2> QED BY <2>1, <2>3, LogAssumption
<1>7. /\ fragments' \in Seq(Fragment) /\ Len(fragments') = Len(fragments) + 1
      /\ fragments'[Len(fragments) + 1] = x
      /\ \A id \in 1..Len(fragments) : fragments'[id] = fragments[id]
      /\ IsAppended(fragments', fragments, x)
  <2>1. IsAppended(fragments', fragments, x)
    BY <1>4, <1>5, AppendIs
  <2>2. fragments' \in Seq(Fragment)
    BY <1>4, <1>5
  <2> QED BY <2>1, <2>2 DEF IsAppended
<1>8. writer.begin => \A id \in 1..Len(fragments) : fragments[id].record < records
  BY <1>2 DEF LogInvariant, LogWriterIsRight
<1>9. ~writer.begin =>
        /\ Len(fragments) > 0 /\ Len(file) > 0
        /\ file[Len(file)] = <<Len(fragments), Bytes(fragments, Len(fragments))>>
        /\ fragments[Len(fragments)].record = records
  BY <1>2 DEF LogInvariant, LogWriterIsRight
<1>10. \A id \in 1..Len(fragments) : fragments[id].record <= records
  BY <1>2 DEF LogInvariant, LogWriterIsRight
<1>11. BytesAreInOrder(h, fragments')
  <2>1. BytesAreInOrder(file, fragments) /\ FragmentsAreInOrder(fragments)
    BY DEF LogInvariant
  <2>2. x \in Fragment /\ (x.type \notin Opening => ~writer.begin)
    BY <1>5
  <2>3. IsEmitted(h, file, t, Len(fragments) + 1, HeaderSize + x.length)
    BY <1>5
  <2> QED BY <1>7, <1>9, <2>1, <2>2, <2>3, Emitted
<1>12. FragmentsAreInOrder(fragments')
  <2>1. FragmentsAreInOrder(fragments)
    BY DEF LogInvariant
  <2>2. x.record = records /\ (x.type \in Opening <=> writer.begin)
    BY <1>5
  <2> QED BY <1>7, <1>8, <1>9, <1>10, <2>1, <2>2, FragmentsAppended
<1>13. /\ file' \in Seq((0..(Len(fragments) + 1)) \X (0..BlockSize))
       /\ Len(file) <= Len(file') /\ Len(file') <= Len(h)
       /\ \A p \in 1..Len(file') : file'[p] = h[p]
       /\ failures' \in 0..MaxFailures
  <2>1. Len(h) = Len(file) + t + (HeaderSize + x.length)
    BY <1>5 DEF IsEmitted
  <2>2. failures \in 0..MaxFailures
    BY <1>3 DEF LogTypeOK
  <2>3. CASE file' = h /\ failures' = failures
    <3>1. file' \in Seq((0..(Len(fragments) + 1)) \X (0..BlockSize))
      BY <1>1, <2>3 DEF Emits
    <3>2. Len(file) <= Len(h) /\ Len(h) <= Len(h)
      <4>1. Len(file) \in Nat
        BY <1>4
      <4> QED BY <1>6, <2>1, <4>1
    <3> QED BY <2>2, <2>3, <3>1, <3>2
  <2>4. CASE file' # h \/ failures' # failures
    BY <1>1, <2>2, <2>4, LogAssumption DEF Emits
  <2> QED BY <2>3, <2>4
<1>14. file' \in Seq(Nat \X Nat) /\ Len(file') \in Nat
  <2>1. (0..(Len(fragments) + 1)) \X (0..BlockSize) \subseteq Nat \X Nat
    BY <1>4
  <2> QED BY <1>13, <2>1, SeqMonotonic
<1>15. BytesAreInOrder(file', fragments')
  <2>1. Len(h) \in Nat
    <3>1. Len(h) = Len(file) + t + (HeaderSize + x.length) /\ Len(file) \in Nat
      BY <1>5 DEF IsEmitted
    <3> QED BY <1>6, <3>1
  <2> QED BY <1>11, <1>13, <1>14, <2>1, Kept
<1>16. writer' = [left        |-> IF x.length = writer.left \/ fails THEN -1
                                  ELSE writer.left - x.length,
                  begin       |-> FALSE,
                  blockOffset |-> start + HeaderSize + x.length]
  BY <1>1 DEF Emits
<1>17. LogTypeOK'
  <2>1. writer' \in [left : {-1} \cup Nat, begin : BOOLEAN, blockOffset : 0..BlockSize]
    <3>1. (IF x.length = writer.left \/ fails THEN -1 ELSE writer.left - x.length)
             \in {-1} \cup Nat
      BY <1>4, <1>5, <1>6
    <3>2. start + HeaderSize + x.length \in 0..BlockSize
      BY <1>4, <1>5, <1>6
    <3> QED BY <1>16, <3>1, <3>2
  <2>2. durable' \in [bytes : 0..Len(file'), records : 0..records']
    <3>1. durable \in [bytes : 0..Len(file), records : 0..records]
      BY <1>3 DEF LogTypeOK
    <3>2. 0..Len(file) \subseteq 0..Len(file')
      BY <1>4, <1>13, <1>14
    <3> QED BY <1>2, <3>1, <3>2
  <2>3. file' \in Seq((0..Len(fragments')) \X (0..BlockSize))
    BY <1>7, <1>13
  <2>4. fragments' \in Seq([record : 1..MaxRecords, type : Types, length : 0..BlockSize])
    BY <1>7 DEF Fragment
  <2>5. records' \in 0..MaxRecords /\ reader' = reader
    BY <1>2, <1>3 DEF LogTypeOK
  <2> QED BY <1>3, <1>13, <2>1, <2>2, <2>3, <2>4, <2>5 DEF LogTypeOK
<1>18. LogWriterIsRight'
  <2>1. \A id \in 1..Len(fragments') : fragments'[id].record <= records'
    <3>1. SUFFICES ASSUME NEW id \in 1..Len(fragments')
                   PROVE  fragments'[id].record <= records
      BY <1>2
    <3>2. id \in 1..Len(fragments) \/ id = Len(fragments) + 1
      BY <1>4, <1>7
    <3> QED BY <1>5, <1>6, <1>7, <1>10, <3>2
  <2>2. records' > 0
    BY <1>2 DEF LogInvariant, LogWriterIsRight
  <2>3. ~ writer'.begin
    BY <1>16
  <2>4. ASSUME ~ Resting'
        PROVE  /\ Len(fragments') > 0 /\ Len(file') > 0
               /\ file'[Len(file')] = <<Len(fragments'), Bytes(fragments', Len(fragments'))>>
               /\ fragments'[Len(fragments')].record = records'
    <3>1. ~ fails
      BY <1>16, <2>4 DEF Resting
    <3>2. file' = h
      BY <1>1, <3>1 DEF Emits
    <3> DEFINE n == HeaderSize + x.length
    <3>3. n \in 1..n /\ Len(h) = Len(file) + t + n /\ Len(h) > 0
      <4>1. n \in Nat /\ n >= 1
        BY <1>6, LogAssumption
      <4>2. Len(h) = Len(file) + t + n /\ Len(file) \in Nat
        BY <1>5 DEF IsEmitted
      <4> HIDE DEF n
      <4> QED BY <1>6, <4>1, <4>2
    <3>4. h[Len(file) + t + n] = <<Len(fragments) + 1, n>>
      BY <1>5, <3>3 DEF IsEmitted
    <3>5. Bytes(fragments', Len(fragments')) = n
      BY <1>7 DEF Bytes
    <3> HIDE DEF n
    <3>6. Len(fragments') > 0 /\ fragments'[Len(fragments')].record = records'
      BY <1>2, <1>4, <1>5, <1>7
    <3> QED BY <1>7, <3>2, <3>3, <3>4, <3>5, <3>6
  <2> QED BY <2>1, <2>2, <2>3, <2>4 DEF LogWriterIsRight
<1>19. LogReaderIsRight(file', fragments', reader')
  <2>1. LogReaderIsRight(file, fragments, reader)
    BY DEF LogInvariant
  <2> QED BY <1>2, <1>14, <2>1, WaitingReader DEF Writing
<1> QED BY <1>12, <1>15, <1>17, <1>18, <1>19 DEF LogInvariant

(***************************************************************************)
(* The reader.                                                             *)
(***************************************************************************)
\* A fragment has a header and no more than numbers say.
AreTyped(g) ==
  /\ Len(g) \in Nat
  /\ \A id \in 1..Len(g) :
       /\ Bytes(g, id) \in Nat /\ Bytes(g, id) >= HeaderSize /\ Bytes(g, id) >= 1
       /\ g[id].record \in Nat /\ g[id].record >= 1

\* The fragments of LogTypeOK have their types one by one.
LEMMA FragmentsTyped ==
  ASSUME NEW g \in Seq(Fragment)
  PROVE  AreTyped(g)
<1>1. ASSUME NEW x \in Fragment
      PROVE  /\ HeaderSize + x.length \in Nat /\ HeaderSize + x.length >= HeaderSize
             /\ HeaderSize + x.length >= 1 /\ x.record \in Nat /\ x.record >= 1
  <2>1. x.length \in Nat /\ x.record \in Nat /\ x.record >= 1
    BY LogAssumption DEF Fragment
  <2> QED BY <2>1, LogAssumption
<1>2. Len(g) \in Nat /\ \A id \in 1..Len(g) : g[id] \in Fragment
  OBVIOUS
<1> QED BY <1>1, <1>2 DEF AreTyped, Bytes

\* Where the reader finds a header there is a fragment's first byte.
LEMMA HeaderIs ==
  ASSUME LogInvariant, reader.state = "reads", Buffered >= HeaderSize, Header # 0
  PROVE  /\ Header \in 1..Len(fragments)
         /\ reader.at + 1 \in 1..Len(file) /\ file[reader.at + 1] = <<Header, 1>>
         /\ fragments[Header] \in Fragment /\ fragments[Header].length \in Nat
         /\ reader.at \in Nat /\ reader.end \in Nat /\ Len(file) \in Nat
         /\ reader.at <= reader.end /\ reader.end <= Len(file)
<1>1. LogTypeOK /\ LogReaderIsRight(file, fragments, reader)
  BY DEF LogInvariant
<1>2. /\ file \in Seq(Nat \X Nat) /\ fragments \in Seq(Fragment)
      /\ Len(file) \in Nat /\ HeaderSize \in Nat /\ HeaderSize >= 1
  BY <1>1, FileTyped
<1>3. reader.at \in Nat /\ reader.end \in Nat
  BY <1>1 DEF LogTypeOK
<1>4. reader.at <= reader.end /\ reader.end <= Len(file)
  BY <1>1 DEF LogReaderIsRight
<1>5. reader.at + 1 \in 1..Len(file)
  <2>1. Len(file) \in Nat /\ HeaderSize \in Nat /\ HeaderSize >= 1
    BY <1>2
  <2>2. reader.end - reader.at >= HeaderSize
    BY DEF Buffered
  <2> QED BY <1>3, <1>4, <2>1, <2>2
<1>6. Header = file[reader.at + 1][1] /\ file[reader.at + 1] = <<Header, 1>>
  <2>1. 1 \in 1..HeaderSize
    BY <1>2
  <2> QED BY <2>1 DEF Header
<1>7. Header \in 1..Len(fragments)
  BY <1>5, <1>6 DEF LogInvariant, BytesAreInOrder
<1>8. fragments[Header] \in Fragment /\ fragments[Header].length \in Nat
  <2>1. fragments[Header] \in Fragment
    BY <1>2, <1>7
  <2> QED BY <2>1, LogAssumption DEF Fragment
<1> QED BY <1>2, <1>3, <1>4, <1>5, <1>6, <1>7, <1>8

\* A fragment that begins where the reader is comes after those it has passed.
LEMMA TakenIsNew ==
  ASSUME NEW f, NEW g, AreTyped(g), BytesAreInOrder(f, g), Len(f) \in Nat,
         NEW at \in Nat, at + 1 <= Len(f),
         NEW id \in Nat, id # 0, f[at + 1] = <<id, 1>>, NEW k, Passed(f, g, at, k)
  PROVE  k < id
<1>1. PICK e \in 1..at : f[e] = <<k, Bytes(g, k)>>
  BY DEF Passed
<1>2. k \in 1..Len(g) /\ k \in Nat /\ k # 0
  BY DEF Passed, AreTyped
<1>3. e \in 1..Len(f) /\ at + 1 \in 1..Len(f) /\ e < at + 1
  OBVIOUS
<1>4. f[e][1] = k /\ f[e][2] = Bytes(g, k) /\ f[at + 1][1] = id /\ f[at + 1][2] = 1
  BY <1>1
<1>5. Bytes(g, k) \in Nat /\ Bytes(g, k) >= 1
  BY <1>2 DEF AreTyped
<1>6. f[e][1] < f[at + 1][1] \/ f[e][2] < f[at + 1][2]
  BY <1>2, <1>3, <1>4 DEF BytesAreInOrder
<1> QED BY <1>4, <1>5, <1>6

\* If it goes on with a record, it goes on from the fragment the reader is just
\* behind.
LEMMA TakenIsNext ==
  ASSUME NEW f, Len(f) \in Nat, NEW g, AreTyped(g), BytesAreInOrder(f, g),
         FragmentsAreInOrder(g), NEW at \in Nat, at + 1 <= Len(f),
         NEW id \in 1..Len(g), f[at + 1] = <<id, 1>>, g[id].type \notin Opening,
         NEW k \in 1..Len(g), NEW e \in 1..at, f[e] = <<k, Bytes(g, k)>>,
         at < e + HeaderSize
  PROVE  id = k + 1
<1> DEFINE n == Bytes(g, id - 1)
<1>1. Len(g) \in Nat /\ HeaderSize \in Nat /\ HeaderSize >= 1 /\ id \in Nat /\ k \in Nat
  BY LogAssumption DEF AreTyped
<1>2. id > 1 /\ id - 1 \in 1..Len(g)
  <2>1. id > 1
    BY DEF FragmentsAreInOrder
  <2> QED BY <1>1, <2>1
<1>3. n \in Nat /\ n >= HeaderSize
  BY <1>2 DEF AreTyped
<1>4. PICK p \in 1..at : f[p] = <<id - 1, n>>
  <2>1. at + 1 \in 1..Len(f)
    OBVIOUS
  <2>2. f[at + 1][1] = id /\ f[at + 1][1] # 0
    BY <1>1, <1>2
  <2>3. PICK p \in 1..((at + 1) - 1) : f[p] = <<id - 1, n>>
    BY <2>1, <2>2 DEF BytesAreInOrder
  <2>4. p \in 1..at
    OBVIOUS
  <2> QED BY <2>3, <2>4
<1>5. k < id
  <2>1. Passed(f, g, at, k)
    BY DEF Passed
  <2> QED BY <1>1, <1>2, <2>1, TakenIsNew
<1> HIDE DEF n
<1>6. SUFFICES ASSUME k < id - 1 PROVE FALSE
  BY <1>1, <1>2, <1>5
<1>7. /\ p \in 1..Len(f) /\ e \in 1..Len(f)
      /\ f[p][1] = id - 1 /\ f[p][1] # 0 /\ f[p][2] = n /\ f[e][1] = k /\ f[e][1] # 0
  <2>1. p \in 1..Len(f) /\ e \in 1..Len(f)
    OBVIOUS
  <2> QED BY <1>1, <1>2, <1>4, <2>1
<1>8. p - n + 1 \in 1..p /\ f[p - n + 1] = <<id - 1, 1>>
  <2>1. n <= p /\ \A i \in 1..n : f[p - n + i] = <<id - 1, i>>
    <3>1. f[p][2] <= p /\ \A i \in 1..f[p][2] : f[p - f[p][2] + i] = <<f[p][1], i>>
      BY <1>7 DEF BytesAreInOrder
    <3> QED BY <1>7, <3>1
  <2>2. 1 \in 1..n /\ p - n + 1 \in 1..p
    BY <1>1, <1>3, <2>1
  <2> QED BY <2>1, <2>2
<1>9. p - n + 1 > e
  <2>1. SUFFICES ASSUME p - n + 1 <= e PROVE FALSE
    BY <1>1, <1>3
  <2>2. p - n + 1 \in 1..Len(f) /\ f[p - n + 1][1] = id - 1 /\ f[p - n + 1][1] # 0
    <3>1. p - n + 1 \in 1..Len(f)
      BY <1>3, <1>7, <1>8
    <3> QED BY <1>1, <1>2, <1>8, <3>1
  <2>3. CASE p - n + 1 = e
    BY <1>1, <1>2, <1>6, <1>7, <2>2, <2>3
  <2>4. CASE p - n + 1 < e
    <3>1. id - 1 < k \/ id - 1 = k
      BY <1>7, <2>2, <2>4 DEF BytesAreInOrder
    <3> QED BY <1>1, <1>6, <3>1
  <2> QED BY <1>1, <1>3, <2>1, <2>3, <2>4
<1> QED BY <1>1, <1>3, <1>9

\* What the reader has passed stays so.
LEMMA PassedOnce ==
  ASSUME NEW f, NEW g, NEW at \in Nat, NEW to \in Nat, at <= to
  PROVE  /\ \A id : Passed(f, g, at, id) => Passed(f, g, to, id)
         /\ \A ids : IsBeginning(f, g, at, ids) => IsBeginning(f, g, to, ids)
<1>1. 1..at \subseteq 1..to
  OBVIOUS
<1>2. \A id : Passed(f, g, at, id) => Passed(f, g, to, id)
  BY <1>1 DEF Passed
<1> QED BY <1>2 DEF IsBeginning

\* The beginning of a record with the fragment that follows.
LEMMA Continued ==
  ASSUME NEW f, NEW g, NEW at, NEW ids \in Seq(Nat), IsBeginning(f, g, at, ids), NEW id,
         id = ids[Len(ids)] + 1, Passed(f, g, at, id), g[id].record = g[ids[Len(ids)]].record
  PROVE  IsBeginning(f, g, at, Append(ids, id))
<1> DEFINE s == Append(ids, id)
           n == Len(ids)
<1>1. n \in Nat /\ n > 0 /\ n \in 1..n /\ 1 \in 1..n /\ ids[1] \in Nat
  BY DEF IsBeginning
<1>2. ids[n] = ids[1] + n - 1 /\ g[ids[n]].record = g[ids[1]].record
  BY <1>1 DEF IsBeginning
<1>3. id = ids[1] + (n + 1) - 1 /\ g[id].record = g[ids[1]].record
  BY <1>1, <1>2
<1>4. Len(s) = n + 1 /\ s[n + 1] = id /\ s[1] = ids[1] /\ \A j \in 1..n : s[j] = ids[j]
  <2>1. id \in Nat
    BY <1>1, <1>3
  <2> QED BY <1>1, <2>1
<1> HIDE DEF s
<1>5. \A j \in 1..Len(s) : j \in 1..n \/ j = n + 1
  BY <1>1, <1>4
<1>6. \A j \in 1..Len(s) : Passed(f, g, at, s[j]) /\ s[j] = s[1] + j - 1
  <2>1. \A j \in 1..n : Passed(f, g, at, ids[j]) /\ ids[j] = ids[1] + j - 1
    BY DEF IsBeginning
  <2> HIDE DEF n
  <2> QED BY <1>3, <1>4, <1>5, <2>1
<1>7. \A j \in 1..Len(s) : g[s[j]].record = g[s[1]].record
  <2>1. \A j \in 1..n : g[ids[j]].record = g[ids[1]].record
    BY DEF IsBeginning
  <2> HIDE DEF n
  <2>2. \A j \in 1..n : g[s[j]].record = g[s[1]].record
    BY <1>4, <2>1
  <2>3. g[s[n + 1]].record = g[s[1]].record
    BY <1>3, <1>4
  <2> QED BY <1>5, <2>2, <2>3
<1>8. Len(s) > 0 /\ g[s[1]].type \in Opening
  BY <1>1, <1>4 DEF IsBeginning
<1>9. IsBeginning(f, g, at, s)
  BY <1>6, <1>7, <1>8 DEF IsBeginning
<1> QED BY <1>9 DEF s

ReaderType ==
  [state : {"waits", "reads", "ended"}, at : Nat, end : Nat, eof : BOOLEAN,
   scratch : Seq(Nat), inFragmented : BOOLEAN, corruption : BOOLEAN,
   returned : Seq(Seq(Nat))]

\* A reader that goes on without the record it was putting together.
LEMMA ReaderDrops ==
  ASSUME NEW f, NEW g, NEW r \in ReaderType, LogReaderIsRight(f, g, r), NEW s \in ReaderType,
         s.returned = r.returned, s.scratch = <<>>, r.at <= s.at, s.end = r.end, s.at = r.end,
         s.eof = r.eof, s.state # "waits", s.state # "ended" => ~s.inFragmented
  PROVE  LogReaderIsRight(f, g, s)
<1>1. r.at \in Nat /\ s.at \in Nat /\ s.end \in Nat
  BY DEF ReaderType
<1>2. \A ids : IsBeginning(f, g, r.at, ids) => IsBeginning(f, g, s.at, ids)
  BY <1>1, PassedOnce
<1>3. s.at <= s.end /\ s.end <= Len(f) /\ (s.eof => s.end = Len(f))
  BY <1>1 DEF LogReaderIsRight
<1>4. \A i \in 1..Len(s.returned) :
        /\ IsBeginning(f, g, s.at, s.returned[i])
        /\ g[s.returned[i][Len(s.returned[i])]].type \in Closing
        /\ i > 1 => g[s.returned[i - 1][1]].record < g[s.returned[i][1]].record
  BY <1>2 DEF LogReaderIsRight
<1> QED BY <1>3, <1>4 DEF LogReaderIsRight

\* BadRecord and the end of the file.
LEMMA DropKeeps ==
  ASSUME LogInvariant, reader.state = "reads", End \/ BadRecord
  PROVE  reader' \in ReaderType /\ LogReaderIsRight(file, fragments, reader')
         /\ reader'.state # "waits"
<1>1. reader \in ReaderType /\ LogReaderIsRight(file, fragments, reader)
  BY DEF LogInvariant, LogTypeOK, ReaderType
<1>2. <<>> \in Seq(Nat)
  OBVIOUS
<1>3. \/ reader' = [reader EXCEPT !.state = "ended", !.at = reader.end, !.scratch = <<>>]
      \/ reader' = [reader EXCEPT !.at = reader.end, !.corruption = TRUE,
                                  !.scratch = <<>>, !.inFragmented = FALSE]
  BY DEF End, BadRecord
<1>4. reader' \in ReaderType
  BY <1>1, <1>2, <1>3 DEF ReaderType
<1>5. /\ reader'.returned = reader.returned /\ reader'.scratch = <<>>
      /\ reader'.end = reader.end /\ reader'.at = reader.end /\ reader'.eof = reader.eof
      /\ reader'.state # "waits" /\ (reader'.state # "ended" => ~reader'.inFragmented)
  BY <1>1, <1>3 DEF ReaderType
<1>6. reader.at <= reader'.at
  BY <1>1, <1>5 DEF LogReaderIsRight
<1> QED BY <1>1, <1>4, <1>5, <1>6, ReaderDrops

\* The next block.
LEMMA ReadBlockKeeps ==
  ASSUME LogInvariant, reader.state = "reads", ReadBlock
  PROVE  reader' \in ReaderType /\ LogReaderIsRight(file, fragments, reader')
         /\ reader'.state # "waits"
<1> DEFINE end == IF reader.end + BlockSize < Len(file) THEN reader.end + BlockSize
                  ELSE Len(file)
<1>1. reader \in ReaderType /\ LogReaderIsRight(file, fragments, reader) /\ LogTypeOK
  BY DEF LogInvariant, LogTypeOK, ReaderType
<1>2. Len(file) \in Nat /\ BlockSize \in Nat /\ HeaderSize \in 1..BlockSize
  BY <1>1, FileTyped
<1>3. reader.at \in Nat /\ reader.end \in Nat /\ reader.at <= reader.end
      /\ reader.end <= Len(file)
  BY <1>1 DEF ReaderType, LogReaderIsRight
<1>4. /\ reader.end - reader.at < HeaderSize /\ ~reader.eof
      /\ reader' = [reader EXCEPT !.at = reader.end, !.end = end,
                                  !.eof = end < reader.end + BlockSize]
  BY DEF ReadBlock, Buffered
<1>5. end \in Nat /\ reader.end <= end /\ end <= Len(file)
      /\ (end < reader.end + BlockSize => end = Len(file))
      /\ (~ (end < reader.end + BlockSize) => end - reader.end >= HeaderSize)
  BY <1>2, <1>3
<1> HIDE DEF end
<1>6. (end < reader.end + BlockSize) \in BOOLEAN
  OBVIOUS
<1>7. reader' \in ReaderType
  BY <1>1, <1>3, <1>4, <1>5, <1>6 DEF ReaderType
<1>8. /\ reader'.at = reader.end /\ reader'.end = end
      /\ reader'.eof = (end < reader.end + BlockSize)
      /\ reader'.returned = reader.returned /\ reader'.scratch = reader.scratch
      /\ reader'.inFragmented = reader.inFragmented /\ reader'.state = "reads"
  BY <1>1, <1>4 DEF ReaderType
<1>9. \A ids : IsBeginning(file, fragments, reader.at, ids) =>
                 IsBeginning(file, fragments, reader'.at, ids)
  BY <1>3, <1>8, PassedOnce
<1>10. ASSUME reader.scratch # <<>>
       PROVE  IsBehind(file, fragments, reader', reader.scratch[Len(reader.scratch)])
  <2> DEFINE id == reader.scratch[Len(reader.scratch)]
  <2>1. PICK e \in 1..reader.at :
          /\ file[e] = <<id, Bytes(fragments, id)>>
          /\ reader.at < e + HeaderSize
          /\ reader.at = e \/ reader.eof \/ reader.end - reader.at >= HeaderSize
    BY <1>1, <1>10 DEF LogReaderIsRight, IsBehind
  <2>2. reader.at = e
    BY <1>2, <1>3, <1>4, <2>1
  <2> HIDE DEF id
  <2>3. e \in 1..reader'.at /\ reader'.at < e + HeaderSize
    BY <1>2, <1>3, <1>4, <1>8, <2>2
  <2>5. reader'.eof \/ reader'.end - reader'.at >= HeaderSize
    BY <1>5, <1>8
  <2>4. IsBehind(file, fragments, reader', id)
    BY <2>1, <2>3, <2>5 DEF IsBehind
  <2> QED BY <2>4 DEF id
<1>11. /\ reader'.at <= reader'.end /\ reader'.end <= Len(file)
       /\ reader'.eof => reader'.end = Len(file)
  BY <1>5, <1>8
<1>12. \A i \in 1..Len(reader'.returned) :
         /\ IsBeginning(file, fragments, reader'.at, reader'.returned[i])
         /\ fragments[reader'.returned[i][Len(reader'.returned[i])]].type \in Closing
         /\ i > 1 => fragments[reader'.returned[i - 1][1]].record
                       < fragments[reader'.returned[i][1]].record
  BY <1>1, <1>8, <1>9 DEF LogReaderIsRight
<1>13. reader'.scratch # <<>> =>
         /\ IsBeginning(file, fragments, reader'.at, reader'.scratch)
         /\ IsBehind(file, fragments, reader', reader'.scratch[Len(reader'.scratch)])
         /\ \A i \in 1..Len(reader'.returned) :
              fragments[reader'.returned[i][1]].record < fragments[reader'.scratch[1]].record
  BY <1>1, <1>8, <1>9, <1>10 DEF LogReaderIsRight
<1>14. reader'.inFragmented <=> reader'.scratch # <<>>
  BY <1>1, <1>8 DEF LogReaderIsRight
<1> QED BY <1>7, <1>8, <1>11, <1>12, <1>13, <1>14 DEF LogReaderIsRight

\* The records returned, and one more.
LEMMA OneMoreReturned ==
  ASSUME NEW f, NEW g, NEW at, NEW rs \in Seq(Seq(Nat)), NEW ids \in Seq(Nat),
         \A i \in 1..Len(rs) :
           /\ IsBeginning(f, g, at, rs[i]) /\ g[rs[i][Len(rs[i])]].type \in Closing
           /\ i > 1 => g[rs[i - 1][1]].record < g[rs[i][1]].record,
         IsBeginning(f, g, at, ids), g[ids[Len(ids)]].type \in Closing,
         \A i \in 1..Len(rs) : g[rs[i][1]].record < g[ids[1]].record,
         NEW ts, ts = Append(rs, ids)
  PROVE  \A i \in 1..Len(ts) :
           /\ IsBeginning(f, g, at, ts[i]) /\ g[ts[i][Len(ts[i])]].type \in Closing
           /\ i > 1 => g[ts[i - 1][1]].record < g[ts[i][1]].record
<1>1. /\ Len(rs) \in Nat /\ Len(ts) = Len(rs) + 1 /\ ts[Len(rs) + 1] = ids
      /\ \A i \in 1..Len(rs) : ts[i] = rs[i]
  OBVIOUS
<1> SUFFICES ASSUME NEW i \in 1..Len(ts)
             PROVE  /\ IsBeginning(f, g, at, ts[i]) /\ g[ts[i][Len(ts[i])]].type \in Closing
                    /\ i > 1 => g[ts[i - 1][1]].record < g[ts[i][1]].record
  OBVIOUS
<1>2. CASE i \in 1..Len(rs)
  <2>1. ts[i] = rs[i] /\ (i > 1 => ts[i - 1] = rs[i - 1])
    BY <1>1, <1>2
  <2> QED BY <1>2, <2>1
<1>3. CASE i = Len(rs) + 1
  <2>1. ts[i] = ids /\ (i > 1 => i - 1 \in 1..Len(rs) /\ ts[i - 1] = rs[i - 1])
    BY <1>1, <1>3
  <2> QED BY <2>1
<1>4. i \in 1..Len(rs) \/ i = Len(rs) + 1
  BY <1>1
<1> QED BY <1>2, <1>3, <1>4

\* The reader takes the fragment id, of which the last byte is at to.
Takes(id, to) ==
  /\ id \in 1..Len(fragments) /\ file[reader.at + 1] = <<id, 1>>
  /\ to = reader.at + Bytes(fragments, id) /\ to \in Nat
  /\ reader.at \in Nat /\ reader.at < to /\ to <= reader.end /\ reader.end <= Len(file)
  /\ file[to] = <<id, Bytes(fragments, id)>>

\* A fragment whose header is in front of the reader, whole and with the right
\* checksum, can be taken.
LEMMA TakesHeader ==
  ASSUME LogInvariant, reader.state = "reads", Buffered >= HeaderSize, Header # 0,
         HeaderSize + fragments[Header].length <= Buffered, ChecksumMatches(Header)
  PROVE  Takes(Header, reader.at + HeaderSize + fragments[Header].length)
<1> DEFINE n == HeaderSize + fragments[Header].length
<1>1. /\ Header \in 1..Len(fragments)
      /\ reader.at + 1 \in 1..Len(file) /\ file[reader.at + 1] = <<Header, 1>>
      /\ fragments[Header].length \in Nat
      /\ reader.at \in Nat /\ reader.end \in Nat /\ Len(file) \in Nat
      /\ reader.at <= reader.end /\ reader.end <= Len(file)
  BY HeaderIs
<1>2. HeaderSize \in Nat /\ HeaderSize >= 1
  BY LogAssumption
<1>3. n \in Nat /\ n >= 1 /\ n = Bytes(fragments, Header) /\ n <= reader.end - reader.at
  BY <1>1, <1>2 DEF Bytes, Buffered
<1>4. file[reader.at + n] = <<Header, n>>
  <2>1. n \in 1..n
    BY <1>3
  <2> QED BY <2>1 DEF ChecksumMatches
<1>5. reader.at + HeaderSize + fragments[Header].length = reader.at + n
  BY <1>1, <1>2
<1> HIDE DEF n
<1>6. reader.at + n \in Nat /\ reader.at < reader.at + n /\ reader.at + n <= reader.end
  BY <1>1, <1>3
<1> QED BY <1>1, <1>3, <1>4, <1>5, <1>6 DEF Takes

\* What taking a fragment makes of what was returned and put together.
LEMMA TakenAfter ==
  ASSUME LogInvariant, reader.state = "reads", NEW id, NEW to, Takes(id, to)
  PROVE  /\ Passed(file, fragments, to, id) /\ id \in Nat /\ fragments[id] \in Fragment
         /\ reader.returned \in Seq(Seq(Nat)) /\ reader.scratch \in Seq(Nat)
         /\ \A i \in 1..Len(reader.returned) :
              /\ IsBeginning(file, fragments, to, reader.returned[i])
              /\ fragments[reader.returned[i][Len(reader.returned[i])]].type \in Closing
              /\ i > 1 => fragments[reader.returned[i - 1][1]].record
                            < fragments[reader.returned[i][1]].record
         /\ fragments[id].type \in Opening =>
              \A i \in 1..Len(reader.returned) :
                fragments[reader.returned[i][1]].record < fragments[id].record
         /\ (reader.inFragmented <=> reader.scratch # <<>>)
         /\ reader.inFragmented =>
              /\ IsBeginning(file, fragments, to, reader.scratch)
              /\ \A i \in 1..Len(reader.returned) :
                   fragments[reader.returned[i][1]].record
                     < fragments[reader.scratch[1]].record
         /\ reader.inFragmented /\ fragments[id].type \notin Opening =>
              /\ id = reader.scratch[Len(reader.scratch)] + 1
              /\ IsBeginning(file, fragments, to, Append(reader.scratch, id))
<1>1. /\ reader \in ReaderType /\ LogReaderIsRight(file, fragments, reader) /\ LogTypeOK
      /\ BytesAreInOrder(file, fragments) /\ FragmentsAreInOrder(fragments)
  BY DEF LogInvariant, LogTypeOK, ReaderType
<1>2. /\ file \in Seq(Nat \X Nat) /\ fragments \in Seq(Fragment)
      /\ Len(file) \in Nat /\ Len(fragments) \in Nat /\ HeaderSize \in 1..BlockSize
  BY <1>1, FileTyped
<1>3. reader.returned \in Seq(Seq(Nat)) /\ reader.scratch \in Seq(Nat)
      /\ reader.at \in Nat /\ reader.end \in Nat
  BY <1>1 DEF ReaderType
<1>14. AreTyped(fragments) /\ Len(file) \in Nat
  BY <1>2, FragmentsTyped
<1>4. /\ id \in 1..Len(fragments) /\ id \in Nat /\ id # 0
      /\ file[reader.at + 1] = <<id, 1>> /\ reader.at + 1 <= Len(file)
      /\ to \in Nat /\ to \in 1..to /\ reader.at <= to
      /\ file[to] = <<id, Bytes(fragments, id)>>
  <2>1. /\ id \in 1..Len(fragments) /\ file[reader.at + 1] = <<id, 1>>
        /\ to \in Nat /\ reader.at < to /\ to <= reader.end /\ reader.end <= Len(file)
        /\ file[to] = <<id, Bytes(fragments, id)>>
    BY DEF Takes
  <2>2. Len(file) \in Nat /\ Len(fragments) \in Nat
    BY <1>2
  <2>3. reader.at + 1 <= Len(file) /\ to \in 1..to /\ reader.at <= to
    BY <1>3, <2>1, <2>2
  <2>4. id \in Nat /\ id # 0
    BY <2>1, <2>2
  <2> QED BY <2>1, <2>3, <2>4
<1>5. fragments[id] \in Fragment
  BY <1>2, <1>4
<1>6. Passed(file, fragments, to, id)
  BY <1>4 DEF Passed
<1>7. \A ids : IsBeginning(file, fragments, reader.at, ids) =>
                 IsBeginning(file, fragments, to, ids)
  BY <1>3, <1>4, PassedOnce
<1>8. ASSUME NEW k, Passed(file, fragments, reader.at, k)
      PROVE  k < id
  BY <1>1, <1>3, <1>4, <1>8, <1>14, TakenIsNew
<1>9. \A i \in 1..Len(reader.returned) :
        /\ IsBeginning(file, fragments, to, reader.returned[i])
        /\ fragments[reader.returned[i][Len(reader.returned[i])]].type \in Closing
        /\ i > 1 => fragments[reader.returned[i - 1][1]].record
                      < fragments[reader.returned[i][1]].record
  BY <1>1, <1>7 DEF LogReaderIsRight
<1>10. ASSUME fragments[id].type \in Opening, NEW i \in 1..Len(reader.returned)
       PROVE  fragments[reader.returned[i][1]].record < fragments[id].record
  <2> DEFINE k == reader.returned[i][1]
  <2>1. IsBeginning(file, fragments, reader.at, reader.returned[i])
    BY <1>1 DEF LogReaderIsRight
  <2>2. 1 \in 1..Len(reader.returned[i])
    <3>1. reader.returned[i] \in Seq(Nat)
      BY <1>3
    <3> QED BY <2>1, <3>1 DEF IsBeginning
  <2>3. Passed(file, fragments, reader.at, k)
    BY <2>1, <2>2 DEF IsBeginning
  <2>4. k < id /\ k \in 1..Len(fragments)
    BY <1>8, <2>3 DEF Passed
  <2> HIDE DEF k
  <2>5. fragments[k].record < fragments[id].record
    BY <1>1, <1>4, <1>10, <2>4 DEF FragmentsAreInOrder
  <2> QED BY <2>5 DEF k
<1>11. reader.inFragmented <=> reader.scratch # <<>>
  BY <1>1 DEF LogReaderIsRight
<1>12. reader.inFragmented =>
         /\ IsBeginning(file, fragments, to, reader.scratch)
         /\ \A i \in 1..Len(reader.returned) :
              fragments[reader.returned[i][1]].record
                < fragments[reader.scratch[1]].record
  BY <1>1, <1>7, <1>11 DEF LogReaderIsRight
<1>13. ASSUME reader.inFragmented, fragments[id].type \notin Opening
       PROVE  /\ id = reader.scratch[Len(reader.scratch)] + 1
              /\ IsBeginning(file, fragments, to, Append(reader.scratch, id))
  <2> DEFINE k == reader.scratch[Len(reader.scratch)]
  <2>1. /\ IsBeginning(file, fragments, reader.at, reader.scratch)
        /\ IsBehind(file, fragments, reader, k)
    BY <1>1, <1>11, <1>13 DEF LogReaderIsRight
  <2>2. k \in 1..Len(fragments)
    <3>1. Len(reader.scratch) \in 1..Len(reader.scratch)
      BY <1>3, <2>1 DEF IsBeginning
    <3>2. Passed(file, fragments, reader.at, k)
      BY <2>1, <3>1 DEF IsBeginning
    <3> QED BY <3>2 DEF Passed
  <2> HIDE DEF k
  <2>3. PICK e \in 1..reader.at :
          file[e] = <<k, Bytes(fragments, k)>> /\ reader.at < e + HeaderSize
    BY <2>1 DEF IsBehind
  <2>4. id = k + 1
    BY <1>1, <1>3, <1>4, <1>13, <1>14, <2>2, <2>3, TakenIsNext
  <2>5. fragments[id].record = fragments[k].record
    <3>1. fragments[id - 1].record = fragments[id].record
      BY <1>1, <1>4, <1>13 DEF FragmentsAreInOrder
    <3>2. id - 1 = k
      BY <1>2, <2>2, <2>4
    <3> QED BY <3>1, <3>2
  <2>6. IsBeginning(file, fragments, to, Append(reader.scratch, id))
    BY <1>3, <1>6, <1>12, <1>13, <2>4, <2>5, Continued DEF k
  <2> QED BY <2>4, <2>6 DEF k
<1> QED BY <1>3, <1>4, <1>5, <1>6, <1>9, <1>10, <1>11, <1>12, <1>13

\* The first and the last of a sequence with one member more.
LEMMA AppendedTo ==
  ASSUME NEW S, NEW s \in Seq(S), s # <<>>, NEW x \in S
  PROVE  /\ Append(s, x) \in Seq(S) /\ Append(s, x) # <<>>
         /\ Append(s, x)[Len(Append(s, x))] = x /\ Append(s, x)[1] = s[1]
<1>1. Len(s) \in Nat /\ Len(s) > 0
  OBVIOUS
<1>2. Append(s, x) \in Seq(S) /\ Len(Append(s, x)) = Len(s) + 1
  OBVIOUS
<1>3. Append(s, x)[Len(s) + 1] = x
  OBVIOUS
<1>4. Append(s, x)[1] = s[1]
  BY <1>1
<1>5. Append(s, x) # <<>>
  BY <1>1, <1>2
<1> QED BY <1>2, <1>3, <1>4, <1>5

\* ReadRecord takes a fragment.
LEMMA TakeKeeps ==
  ASSUME LogInvariant, reader.state = "reads", NEW id, NEW to, Takes(id, to),
         to = reader.at + HeaderSize + fragments[id].length, Take(id)
  PROVE  reader' \in ReaderType /\ LogReaderIsRight(file, fragments, reader')
         /\ reader'.state # "waits"
<1> DEFINE x       == fragments[id]
           after   == [reader EXCEPT !.at = @ + HeaderSize + x.length]
           partial == reader.inFragmented /\
                      (\E i \in DOMAIN reader.scratch :
                         fragments[reader.scratch[i]].length > 0)
<1>1. reader \in ReaderType /\ LogReaderIsRight(file, fragments, reader)
  BY DEF LogInvariant, LogTypeOK, ReaderType
<1>2. /\ Passed(file, fragments, to, id) /\ id \in Nat /\ x \in Fragment
      /\ reader.returned \in Seq(Seq(Nat)) /\ reader.scratch \in Seq(Nat)
  BY TakenAfter
<1>3. \A i \in 1..Len(reader.returned) :
        /\ IsBeginning(file, fragments, to, reader.returned[i])
        /\ fragments[reader.returned[i][Len(reader.returned[i])]].type \in Closing
        /\ i > 1 => fragments[reader.returned[i - 1][1]].record
                      < fragments[reader.returned[i][1]].record
  BY TakenAfter
<1>4. x.type \in Opening =>
        \A i \in 1..Len(reader.returned) :
          fragments[reader.returned[i][1]].record < x.record
  BY TakenAfter
<1>5. reader.inFragmented <=> reader.scratch # <<>>
  BY TakenAfter
<1>6. reader.inFragmented =>
        \A i \in 1..Len(reader.returned) :
          fragments[reader.returned[i][1]].record < fragments[reader.scratch[1]].record
  BY TakenAfter
<1>7. reader.inFragmented /\ x.type \notin Opening =>
        IsBeginning(file, fragments, to, Append(reader.scratch, id))
  BY TakenAfter
<1>8. /\ to \in Nat /\ to <= reader.end /\ reader.end <= Len(file)
      /\ file[to] = <<id, Bytes(fragments, id)>> /\ to \in 1..to
  BY DEF Takes
<1>9. reader.eof => reader.end = Len(file)
  BY <1>1 DEF LogReaderIsRight
<1>10. /\ after \in ReaderType /\ after.at = to /\ after.end = reader.end
       /\ after.eof = reader.eof /\ after.returned = reader.returned
       /\ after.scratch = reader.scratch /\ after.inFragmented = reader.inFragmented
       /\ after.state = "reads" /\ after.corruption = reader.corruption
  <2> HIDE DEF x
  <2>1. after = [reader EXCEPT !.at = to]
    <3>1. reader.at + HeaderSize + x.length = to
      BY DEF x
    <3> QED BY <1>1, <3>1 DEF ReaderType
  <2> HIDE DEF after
  <2> QED BY <1>1, <1>8, <2>1 DEF ReaderType
<1>11. \/ /\ x.type = "full"
          /\ reader' = [after EXCEPT !.returned = Append(@, <<id>>), !.corruption = @ \/ partial,
                                     !.scratch = <<>>, !.inFragmented = FALSE]
       \/ /\ x.type = "first"
          /\ reader' = [after EXCEPT !.corruption = @ \/ partial,
                                     !.scratch = Begin(@, id), !.inFragmented = TRUE]
       \/ /\ x.type \in {"middle", "last"} /\ ~reader.inFragmented
          /\ reader' = [after EXCEPT !.corruption = TRUE]
       \/ /\ x.type = "middle" /\ reader.inFragmented
          /\ reader' = [after EXCEPT !.scratch = Append(@, id)]
       \/ /\ x.type = "last" /\ reader.inFragmented
          /\ reader' = [after EXCEPT !.returned = Append(@, Append(reader.scratch, id)),
                                     !.scratch = <<>>, !.inFragmented = FALSE]
  BY DEF Take
<1>13. after.corruption \in BOOLEAN /\ (after.corruption \/ partial) \in BOOLEAN
  <2> HIDE DEF partial
  <2> QED BY <1>10 DEF ReaderType
<1> HIDE DEF after, partial, x
<1>14. <<id>> \in Seq(Nat) /\ Len(<<id>>) = 1 /\ <<id>>[1] = id /\ <<id>> # <<>>
  BY <1>2
<1>15. x.type \in Opening => IsBeginning(file, fragments, to, <<id>>)
  BY <1>2, <1>14 DEF IsBeginning, x
<1>16. ASSUME NEW r, r.at = to, r.end = reader.end
       PROVE  IsBehind(file, fragments, r, id)
  <2>1. to < to + HeaderSize
    BY <1>8, LogAssumption
  <2> QED BY <1>8, <1>16, <2>1 DEF IsBehind
<1>17. CASE /\ x.type = "full"
             /\ reader' = [after EXCEPT !.returned = Append(@, <<id>>),
                                        !.corruption = @ \/ partial,
                                        !.scratch = <<>>, !.inFragmented = FALSE]
  <2>1. reader' = [after EXCEPT !.returned = Append(@, <<id>>),
                                !.corruption = @ \/ partial,
                                !.scratch = <<>>, !.inFragmented = FALSE]
    BY <1>17
  <2>2. Append(reader.returned, <<id>>) \in Seq(Seq(Nat)) /\ <<>> \in Seq(Nat)
    BY <1>2, <1>14
  <2>3. reader' \in ReaderType
    BY <1>10, <1>13, <2>1, <2>2 DEF ReaderType
  <2>4. /\ reader'.at = to /\ reader'.end = reader.end /\ reader'.eof = reader.eof
        /\ reader'.returned = Append(reader.returned, <<id>>) /\ reader'.scratch = <<>>
        /\ reader'.inFragmented = FALSE /\ reader'.state = "reads"
    BY <1>10, <2>1 DEF ReaderType
  <2>5. \A i \in 1..Len(reader'.returned) :
          /\ IsBeginning(file, fragments, to, reader'.returned[i])
          /\ fragments[reader'.returned[i][Len(reader'.returned[i])]].type \in Closing
          /\ i > 1 => fragments[reader'.returned[i - 1][1]].record
                        < fragments[reader'.returned[i][1]].record
    <3>1. x.type \in Opening /\ x.type \in Closing
      BY <1>17 DEF Opening, Closing
    <3>2. fragments[<<id>>[Len(<<id>>)]].type \in Closing
      BY <1>14, <3>1 DEF x
    <3>3. \A i \in 1..Len(reader.returned) :
            fragments[reader.returned[i][1]].record < fragments[<<id>>[1]].record
      BY <1>4, <1>14, <3>1 DEF x
    <3> QED BY <1>2, <1>3, <1>14, <1>15, <2>4, <3>1, <3>2, <3>3, OneMoreReturned
  <2> QED BY <1>8, <1>9, <2>3, <2>4, <2>5 DEF LogReaderIsRight
<1>18. CASE /\ x.type = "first"
             /\ reader' = [after EXCEPT !.corruption = @ \/ partial,
                                        !.scratch = Begin(@, id), !.inFragmented = TRUE]
  <2>1. reader' = [after EXCEPT !.corruption = @ \/ partial,
                                !.scratch = <<id>>, !.inFragmented = TRUE]
    BY <1>18 DEF Begin
  <2>2. reader' \in ReaderType
    BY <1>10, <1>13, <1>14, <2>1 DEF ReaderType
  <2>3. /\ reader'.at = to /\ reader'.end = reader.end /\ reader'.eof = reader.eof
        /\ reader'.returned = reader.returned /\ reader'.scratch = <<id>>
        /\ reader'.inFragmented = TRUE /\ reader'.state = "reads"
    BY <1>10, <2>1 DEF ReaderType
  <2>4. x.type \in Opening
    BY <1>18 DEF Opening
  <2>5. /\ IsBeginning(file, fragments, to, reader'.scratch)
        /\ IsBehind(file, fragments, reader', reader'.scratch[Len(reader'.scratch)])
        /\ \A i \in 1..Len(reader'.returned) :
             fragments[reader'.returned[i][1]].record < fragments[reader'.scratch[1]].record
    BY <1>4, <1>14, <1>15, <1>16, <2>3, <2>4 DEF x
  <2> QED BY <1>3, <1>8, <1>9, <1>14, <2>2, <2>3, <2>5 DEF LogReaderIsRight
<1>19. CASE ~reader.inFragmented /\ reader' = [after EXCEPT !.corruption = TRUE]
  <2>1. reader' = [after EXCEPT !.corruption = TRUE]
    BY <1>19
  <2>2. reader' \in ReaderType
    BY <1>10, <2>1 DEF ReaderType
  <2>3. /\ reader'.at = to /\ reader'.end = reader.end /\ reader'.eof = reader.eof
        /\ reader'.returned = reader.returned /\ reader'.scratch = reader.scratch
        /\ reader'.inFragmented = reader.inFragmented /\ reader'.state = "reads"
    BY <1>10, <2>1 DEF ReaderType
  <2>4. reader.scratch = <<>>
    BY <1>5, <1>19
  <2> QED BY <1>3, <1>5, <1>8, <1>9, <2>2, <2>3, <2>4 DEF LogReaderIsRight
<1>20. CASE /\ x.type = "middle" /\ reader.inFragmented
             /\ reader' = [after EXCEPT !.scratch = Append(@, id)]
  <2> DEFINE s == Append(reader.scratch, id)
  <2>1. reader' = [after EXCEPT !.scratch = Append(@, id)]
    BY <1>20
  <2>2. s \in Seq(Nat) /\ s # <<>> /\ s[Len(s)] = id /\ s[1] = reader.scratch[1]
    <3>1. reader.scratch # <<>>
      BY <1>5, <1>20
    <3>2. s \in Seq(Nat) /\ s # <<>>
      BY <1>2, <3>1, AppendedTo
    <3>3. s[Len(s)] = id /\ s[1] = reader.scratch[1]
      BY <1>2, <3>1, AppendedTo
    <3> QED BY <3>2, <3>3
  <2> HIDE DEF s
  <2>3. reader' = [after EXCEPT !.scratch = s]
    BY <1>10, <2>1 DEF s, ReaderType
  <2>4. reader' \in ReaderType
    BY <1>10, <2>2, <2>3 DEF ReaderType
  <2>5. /\ reader'.at = to /\ reader'.end = reader.end /\ reader'.eof = reader.eof
        /\ reader'.returned = reader.returned /\ reader'.scratch = s
        /\ reader'.inFragmented = reader.inFragmented /\ reader'.state = "reads"
    BY <1>10, <2>3 DEF ReaderType
  <2>6. /\ IsBeginning(file, fragments, to, s)
        /\ IsBehind(file, fragments, reader', s[Len(s)])
        /\ \A i \in 1..Len(reader.returned) :
             fragments[reader.returned[i][1]].record < fragments[s[1]].record
    <3>1. x.type \notin Opening
      BY <1>20 DEF Opening
    <3>2. IsBeginning(file, fragments, to, s)
      BY <1>7, <1>20, <3>1 DEF s
    <3>3. IsBehind(file, fragments, reader', s[Len(s)])
      BY <1>16, <2>2, <2>5
    <3> QED BY <1>6, <1>20, <2>2, <3>2, <3>3
  <2> QED BY <1>3, <1>8, <1>9, <1>20, <2>2, <2>4, <2>5, <2>6 DEF LogReaderIsRight
<1>21. CASE /\ x.type = "last" /\ reader.inFragmented
             /\ reader' = [after EXCEPT !.returned = Append(@, Append(reader.scratch, id)),
                                        !.scratch = <<>>, !.inFragmented = FALSE]
  <2> DEFINE s == Append(reader.scratch, id)
  <2>1. reader' = [after EXCEPT !.returned = Append(@, Append(reader.scratch, id)),
                                !.scratch = <<>>, !.inFragmented = FALSE]
    BY <1>21
  <2>2. s \in Seq(Nat) /\ s[Len(s)] = id /\ s[1] = reader.scratch[1]
    <3>1. reader.scratch # <<>>
      BY <1>5, <1>21
    <3> QED BY <1>2, <3>1, AppendedTo
  <2> HIDE DEF s
  <2>3. reader' = [after EXCEPT !.returned = Append(@, s),
                                !.scratch = <<>>, !.inFragmented = FALSE]
    BY <1>10, <2>1 DEF s
  <2>4. Append(reader.returned, s) \in Seq(Seq(Nat)) /\ <<>> \in Seq(Nat)
    BY <1>2, <2>2
  <2>5. reader' \in ReaderType
    BY <1>10, <2>3, <2>4 DEF ReaderType
  <2>6. /\ reader'.at = to /\ reader'.end = reader.end /\ reader'.eof = reader.eof
        /\ reader'.returned = Append(reader.returned, s) /\ reader'.scratch = <<>>
        /\ reader'.inFragmented = FALSE /\ reader'.state = "reads"
    BY <1>10, <2>3 DEF ReaderType
  <2>7. \A i \in 1..Len(reader'.returned) :
          /\ IsBeginning(file, fragments, to, reader'.returned[i])
          /\ fragments[reader'.returned[i][Len(reader'.returned[i])]].type \in Closing
          /\ i > 1 => fragments[reader'.returned[i - 1][1]].record
                        < fragments[reader'.returned[i][1]].record
    <3>1. x.type \notin Opening /\ x.type \in Closing
      BY <1>21 DEF Opening, Closing
    <3>2. IsBeginning(file, fragments, to, s)
      BY <1>7, <1>21, <3>1 DEF s
    <3>3. fragments[s[Len(s)]].type \in Closing
      BY <2>2, <3>1 DEF x
    <3>4. \A i \in 1..Len(reader.returned) :
            fragments[reader.returned[i][1]].record < fragments[s[1]].record
      BY <1>6, <1>21, <2>2
    <3> QED BY <1>2, <1>3, <2>2, <2>6, <3>2, <3>3, <3>4, OneMoreReturned
  <2> QED BY <1>8, <1>9, <2>5, <2>6, <2>7 DEF LogReaderIsRight
<1> QED BY <1>11, <1>17, <1>18, <1>19, <1>20, <1>21

\* A step of the reader.
LEMMA ReadKeeps ==
  ASSUME LogInvariant, ReadPhysicalRecord
  PROVE  LogInvariant'
<1>1. reader.state = "reads"
      /\ UNCHANGED <<file, fragments, records, writer, durable, failures>>
  BY DEF ReadPhysicalRecord
<1>2. \/ ReadBlock
      \/ End \/ BadRecord
      \/ /\ Buffered >= HeaderSize /\ Header # 0
         /\ HeaderSize + fragments[Header].length <= Buffered
         /\ ChecksumMatches(Header) /\ Take(Header)
  BY DEF ReadPhysicalRecord
<1>3. /\ reader' \in ReaderType /\ LogReaderIsRight(file, fragments, reader')
      /\ reader'.state # "waits"
  <2>1. CASE ReadBlock
    BY <1>1, <2>1, ReadBlockKeeps
  <2>2. CASE End \/ BadRecord
    BY <1>1, <2>2, DropKeeps
  <2>3. CASE /\ Buffered >= HeaderSize /\ Header # 0
             /\ HeaderSize + fragments[Header].length <= Buffered
             /\ ChecksumMatches(Header) /\ Take(Header)
    <3>1. Takes(Header, reader.at + HeaderSize + fragments[Header].length)
      BY <1>1, <2>3, TakesHeader
    <3> QED BY <1>1, <2>3, <3>1, TakeKeeps
  <2> QED BY <1>2, <2>1, <2>2, <2>3
<1>4. LogTypeOK'
  BY <1>1, <1>3 DEF LogInvariant, LogTypeOK, ReaderType
<1>5. LogWriterIsRight'
  BY <1>3 DEF LogWriterIsRight, Writing
<1> QED BY <1>1, <1>3, <1>4, <1>5 DEF LogInvariant

\* Every step keeps the invariant.
LEMMA LogNextKeeps == LogInvariant /\ [LogNext]_logVars => LogInvariant'
<1> SUFFICES ASSUME LogInvariant, [LogNext]_logVars PROVE LogInvariant'
  OBVIOUS
<1>1. CASE \E size \in Sizes : AddRecord(size)
  BY <1>1, AddRecordKeeps
<1>2. CASE \E fails \in BOOLEAN : EmitPhysicalRecord(fails)
  BY <1>2, EmitKeeps
<1>3. CASE Sync
  BY <1>3, SyncKeeps
<1>4. CASE Crash
  BY <1>4, CrashKeeps
<1>5. CASE ReadPhysicalRecord
  BY <1>5, ReadKeeps
<1>6. CASE UNCHANGED logVars
  BY <1>6 DEF logVars, LogInvariant, LogTypeOK, LogWriterIsRight, Writing, Resting
<1> QED BY <1>1, <1>2, <1>3, <1>4, <1>5, <1>6 DEF LogNext

\* The inductive invariant of the log holds in every reachable state, whatever
\* the sizes, the failed appends and the crash.
THEOREM LogInvariance == LogSpec => []LogInvariant
<1> QED BY LogInitInvariant, LogNextKeeps, PTL DEF LogSpec

\* The invariant says of what was returned what RecordsAreWhole says.
LEMMA InvariantRecordsAreWhole == LogInvariant => RecordsAreWhole
<1> SUFFICES ASSUME LogInvariant PROVE RecordsAreWhole
  OBVIOUS
<1>1. reader.returned \in Seq(Seq(Nat)) /\ LogReaderIsRight(file, fragments, reader)
  BY DEF LogInvariant, LogTypeOK
<1> SUFFICES ASSUME NEW i \in DOMAIN reader.returned
             PROVE  LET returned == reader.returned[i]
                        first    == returned[1]
                        last     == returned[Len(returned)]
                    IN  /\ fragments[first].type \in {"full", "first"}
                        /\ fragments[last].type \in {"full", "last"}
                        /\ \A j \in DOMAIN returned : returned[j] = first + j - 1
                        /\ \A j \in DOMAIN returned :
                             fragments[returned[j]].record = fragments[first].record
                        /\ i > 1 => RecordOf(reader.returned[i - 1]) < RecordOf(returned)
  BY DEF RecordsAreWhole
<1>2. i \in 1..Len(reader.returned) /\ reader.returned[i] \in Seq(Nat)
  BY <1>1
<1>3. /\ IsBeginning(file, fragments, reader.at, reader.returned[i])
      /\ fragments[reader.returned[i][Len(reader.returned[i])]].type \in Closing
      /\ i > 1 => fragments[reader.returned[i - 1][1]].record
                    < fragments[reader.returned[i][1]].record
  BY <1>1, <1>2 DEF LogReaderIsRight
<1>4. DOMAIN reader.returned[i] = 1..Len(reader.returned[i])
  BY <1>2
<1> QED BY <1>3, <1>4 DEF IsBeginning, Opening, Closing, RecordOf

\* Records read from a log are whole and in their order, whatever the sizes of
\* blocks and records, and whichever appends fail.
THEOREM RecordsStayWhole == LogSpec => []RecordsAreWhole
<1> QED BY LogInvariance, InvariantRecordsAreWhole, PTL

(***************************************************************************)
(* If no append failed, nothing is lost.                                   *)
(***************************************************************************)
\* The beginnings of the blocks are a block apart.
LEMMA Boundaries ==
  /\ Boundary(0)
  /\ \A p \in Nat : Boundary(p) => Boundary(p + BlockSize)
  /\ \A p, q \in Nat : Boundary(p) /\ Boundary(q) /\ p < q => p + BlockSize <= q
<1>0. BlockSize \in Nat /\ BlockSize >= 1
  BY LogAssumption
<1>1. Boundary(0)
  <2>1. 0 \in 0..0 /\ 0 = 0 * BlockSize
    BY <1>0
  <2> QED BY <2>1 DEF Boundary
<1>2. ASSUME NEW p \in Nat, Boundary(p)
      PROVE  Boundary(p + BlockSize)
  <2>1. PICK b \in 0..p : p = b * BlockSize
    BY <1>2 DEF Boundary
  <2>2. b + 1 \in 0..(p + BlockSize)
    BY <1>0
  <2>3. (b + 1) * BlockSize = b * BlockSize + BlockSize
    BY <1>0
  <2>4. p + BlockSize = (b + 1) * BlockSize
    BY <2>1, <2>3
  <2> QED BY <2>2, <2>4 DEF Boundary
<1>3. ASSUME NEW p \in Nat, NEW q \in Nat, Boundary(p), Boundary(q), p < q
      PROVE  p + BlockSize <= q
  <2>1. PICK b \in 0..p : p = b * BlockSize
    BY <1>3 DEF Boundary
  <2>2. PICK c \in 0..q : q = c * BlockSize
    BY <1>3 DEF Boundary
  <2>3. b \in Nat /\ c \in Nat
    OBVIOUS
  <2>4. CASE c <= b
    <3>1. PICK d \in Nat : b = c + d
      <4>1. b - c \in Nat /\ b = c + (b - c)
        BY <2>3, <2>4
      <4> QED BY <4>1
    <3>2. b * BlockSize = c * BlockSize + d * BlockSize /\ d * BlockSize \in Nat
      BY <1>0, <2>3, <3>1
    <3>3. q <= p
      BY <2>1, <2>2, <3>2
    <3> QED BY <1>3, <3>3
  <2>5. CASE b < c
    <3>1. PICK d \in Nat : c = b + 1 + d
      <4>1. c - b - 1 \in Nat /\ c = b + 1 + (c - b - 1)
        BY <2>3, <2>5
      <4> QED BY <4>1
    <3>2. c * BlockSize = b * BlockSize + BlockSize + d * BlockSize /\ d * BlockSize \in Nat
      BY <1>0, <2>3, <3>1
    <3> QED BY <1>0, <2>1, <2>2, <3>2
  <2> QED BY <2>3, <2>4, <2>5
<1> QED BY <1>1, <1>2, <1>3

\* The bytes of one fragment are next to one another.
LEMMA InPlace ==
  ASSUME NEW f, NEW g, Len(f) \in Nat, AreTyped(g), BytesAreInOrder(f, g),
         NEW p \in 1..Len(f), NEW q \in 1..Len(f), f[p][1] # 0, f[p][1] = f[q][1],
         f[p][2] <= f[q][2]
  PROVE  p - f[p][2] = q - f[q][2]
<1>1. PICK id \in 1..Len(g) : id = f[p][1]
  BY DEF BytesAreInOrder
<1>2. PICK n \in Nat : n = Bytes(g, id)
  BY DEF AreTyped
<1>3. PICK i \in 1..n : i = f[p][2]
  BY <1>1, <1>2 DEF BytesAreInOrder
<1>4. PICK j \in 1..n : j = f[q][2]
  BY <1>1, <1>2 DEF BytesAreInOrder
<1>5. j <= q /\ \A k \in 1..j : f[q - j + k] = <<id, k>>
  BY <1>1, <1>4 DEF BytesAreInOrder
<1>6. i \in 1..j
  BY <1>3, <1>4
<1>7. PICK r \in 1..Len(f) : r = q - j + i
  <2>1. q - j + i \in 1..Len(f)
    BY <1>5, <1>6
  <2> QED BY <2>1
<1>8. f[r] = <<id, i>>
  BY <1>5, <1>6, <1>7
<1>9. f[r][1] = id /\ f[r][2] = i
  BY <1>8
<1>10. id \in Nat /\ id # 0
  BY DEF AreTyped
<1>11. ~ (p < r)
  BY <1>1, <1>3, <1>9, <1>10 DEF BytesAreInOrder
<1>12. ~ (r < p)
  <2>1. f[r][1] # 0 /\ f[p][1] # 0 /\ f[r][1] = f[p][1] /\ f[r][2] = f[p][2]
    BY <1>1, <1>3, <1>9, <1>10
  <2>2. r < p => f[r][1] < f[p][1] \/ f[r][2] < f[p][2]
    BY <2>1 DEF BytesAreInOrder
  <2> QED BY <1>1, <1>3, <1>9, <1>10, <2>1, <2>2
<1>13. p = r
  <2>1. p \in Int /\ r \in Int
    BY <1>7
  <2> QED BY <1>11, <1>12, <2>1
<1>14. p - i = q - j
  <2>1. p \in Int /\ q \in Int /\ i \in Int /\ j \in Int
    OBVIOUS
  <2> QED BY <1>7, <1>13, <2>1
<1> QED BY <1>3, <1>4, <1>14

\* A fragment with a byte behind a cut begins behind the cut.
LEMMA StartsBehind ==
  ASSUME NEW f, NEW g, Len(f) \in Nat, AreTyped(g), BytesAreInOrder(f, g),
         BlocksAreFilled(f, g), NEW at \in Nat, IsAtCut(f, g, at),
         NEW p \in 1..Len(f), at < p, f[p][1] # 0
  PROVE  at <= p - f[p][2]
<1>1. PICK id \in 1..Len(g) : id = f[p][1]
  BY DEF BytesAreInOrder
<1>2. PICK n \in Nat : n = Bytes(g, id)
  BY DEF AreTyped
<1>3. PICK i \in 1..n : i = f[p][2]
  BY <1>1, <1>2 DEF BytesAreInOrder
<1> SUFFICES ASSUME p - i < at PROVE FALSE
  BY <1>3
<1>4. CASE Boundary(at)
  <2>1. at \in (p - i + 1)..(p - i + n - 1)
    BY <1>4
  <2> QED BY <1>1, <1>2, <1>3, <1>4, <2>1 DEF BlocksAreFilled
<1>5. CASE at > 0 /\ f[at][1] # 0 /\ f[at][2] = Bytes(g, f[at][1])
  <2>1. at - (p - i) \in 1..i
    OBVIOUS
  <2>2. f[p - i + (at - (p - i))] = <<id, at - (p - i)>>
    BY <1>1, <1>3, <2>1 DEF BytesAreInOrder
  <2>3. f[at] = <<id, at - (p - i)>>
    <3>1. p - i + (at - (p - i)) = at
      OBVIOUS
    <3> QED BY <2>2, <3>1
  <2>4. n = at - (p - i)
    BY <1>2, <1>5, <2>3
  <2> QED BY <2>4
<1> QED BY <1>4, <1>5 DEF IsAtCut

\* At a cut with room for a header before the end of the block there is the first
\* byte of a fragment.
LEMMA FrontIs ==
  ASSUME NEW f, NEW g, Len(f) \in Nat, AreTyped(g), BytesAreInOrder(f, g),
         BlocksAreFilled(f, g), NEW at \in Nat, NEW end \in Nat, IsAtCut(f, g, at),
         at + HeaderSize <= end, end <= Len(f),
         \A b \in (at + 1)..(end - 1) : ~Boundary(b)
  PROVE  Begins(f, at + 1)
<1>0. HeaderSize \in Nat /\ HeaderSize >= 1
  BY LogAssumption
<1>1. at \in 0..(Len(f) - 1)
  BY <1>0
<1>2. CASE Boundary(at)
  BY <1>1, <1>2 DEF BlocksAreFilled
<1>3. CASE at > 0 /\ f[at][1] # 0 /\ f[at][2] = Bytes(g, f[at][1])
  <2>1. at \in 1..(Len(f) - 1)
    BY <1>1, <1>3
  <2>2. \A b \in (at + 1)..(at + HeaderSize - 1) : ~Boundary(b)
    BY <1>0
  <2> QED BY <1>3, <2>1, <2>2 DEF BlocksAreFilled
<1> QED BY <1>2, <1>3 DEF IsAtCut

\* Behind the first byte of a fragment there are the others, as far as the file goes.
LEMMA GoesOn ==
  ASSUME NEW f, NEW g, Len(f) \in Nat, AreTyped(g), BytesAreInOrder(f, g),
         BlocksAreFilled(f, g), NEW at \in Nat, at + 1 <= Len(f), Begins(f, at + 1),
         NEW id, id = f[at + 1][1]
  PROVE  /\ id \in 1..Len(g)
         /\ \A i \in 1..Bytes(g, id) : at + i <= Len(f) => f[at + i] = <<id, i>>
         /\ \A b \in (at + 1)..(at + Bytes(g, id) - 1) : ~Boundary(b)
<1>1. at + 1 \in 1..Len(f) /\ f[at + 1][1] # 0 /\ f[at + 1][2] = 1
  BY DEF Begins
<1>2. id \in 1..Len(g)
  BY <1>1 DEF BytesAreInOrder
<1>3. PICK n \in Nat : n = Bytes(g, id)
  BY <1>2 DEF AreTyped
<1>4. ASSUME NEW i \in 1..n, at + i <= Len(f)
      PROVE  f[at + i] = <<id, i>>
  <2>1. i - 1 \in 0..(n - 1) /\ at + 1 + (i - 1) <= Len(f)
    BY <1>4
  <2>2. f[at + 1 + (i - 1)] = <<id, 1 + (i - 1)>>
    BY <1>1, <1>3, <2>1 DEF BlocksAreFilled
  <2>3. at + 1 + (i - 1) = at + i /\ 1 + (i - 1) = i
    OBVIOUS
  <2> QED BY <2>2, <2>3
<1>5. ASSUME NEW b \in (at + 1)..(at + n - 1)
      PROVE  ~Boundary(b)
  <2>1. b \in (at + 1 - 1 + 1)..(at + 1 - 1 + n - 1)
    BY <1>3
  <2> QED BY <1>1, <1>3, <2>1 DEF BlocksAreFilled
<1> QED BY <1>2, <1>3, <1>4, <1>5

\* What the invariants say of a file that is read.
IsRead(f, g, r) ==
  /\ Len(f) \in Nat /\ AreTyped(g) /\ BytesAreInOrder(f, g) /\ FragmentsAreInOrder(g)
  /\ BlocksAreFilled(f, g) /\ RecordsAreNumbered(g)
  /\ r.at \in Nat /\ r.end \in Nat /\ r.at <= r.end /\ r.end <= Len(f)
  /\ r.eof => r.end = Len(f)
  /\ IsAtCut(f, g, r.at)
  /\ ~r.eof => Boundary(r.end)
  /\ \A b \in (r.at + 1)..(r.end - 1) : ~Boundary(b)

\* They say so as long as the reader reads.
LEMMA WhileRead ==
  ASSUME LogInvariant, failures = 0, NoFailureInvariant, reader.state = "reads"
  PROVE  IsRead(file, fragments, reader) /\ HeaderSize \in Nat /\ HeaderSize >= 1
<1>1. LogTypeOK /\ LogReaderIsRight(file, fragments, reader)
      /\ BytesAreInOrder(file, fragments) /\ FragmentsAreInOrder(fragments)
  BY DEF LogInvariant
<1>2. Len(file) \in Nat /\ AreTyped(fragments)
  BY <1>1, FileTyped, FragmentsTyped
<1>3. reader.at \in Nat /\ reader.end \in Nat
  BY <1>1 DEF LogTypeOK
<1>4. /\ BlocksAreFilled(file, fragments) /\ RecordsAreNumbered(fragments)
      /\ NothingIsLost(file, fragments, reader)
  BY DEF NoFailureInvariant
<1>5. /\ reader.at <= reader.end /\ reader.end <= Len(file)
      /\ reader.eof => reader.end = Len(file)
  BY <1>1 DEF LogReaderIsRight
<1>6. /\ IsAtCut(file, fragments, reader.at)
      /\ ~reader.eof => Boundary(reader.end)
      /\ \A b \in (reader.at + 1)..(reader.end - 1) : ~Boundary(b)
  BY <1>4 DEF NothingIsLost
<1> QED BY <1>1, <1>2, <1>3, <1>4, <1>5, <1>6, LogAssumption DEF IsRead

\* Where there is room for a header there is one, and what follows is its
\* fragment.
LEMMA HeaderFound ==
  ASSUME IsRead(file, fragments, reader), HeaderSize \in Nat, HeaderSize >= 1,
         Buffered >= HeaderSize
  PROVE  /\ Begins(file, reader.at + 1) /\ Header = file[reader.at + 1][1] /\ Header # 0
         /\ Header \in 1..Len(fragments)
         /\ \A i \in 1..Bytes(fragments, Header) :
              reader.at + i <= Len(file) => file[reader.at + i] = <<Header, i>>
         /\ \A b \in (reader.at + 1)..(reader.at + Bytes(fragments, Header) - 1) : ~Boundary(b)
<1> DEFINE id == file[reader.at + 1][1]
<1>1. /\ reader.at \in Nat /\ reader.end \in Nat /\ Len(file) \in Nat
      /\ reader.end <= Len(file) /\ AreTyped(fragments)
      /\ BytesAreInOrder(file, fragments) /\ BlocksAreFilled(file, fragments)
      /\ IsAtCut(file, fragments, reader.at)
      /\ \A b \in (reader.at + 1)..(reader.end - 1) : ~Boundary(b)
  BY DEF IsRead
<1>2. reader.at + HeaderSize <= reader.end /\ reader.at + 1 <= Len(file)
  BY <1>1 DEF Buffered
<1>3. Begins(file, reader.at + 1)
  BY <1>1, <1>2, FrontIs
<1>4. /\ id \in 1..Len(fragments)
      /\ \A i \in 1..Bytes(fragments, id) :
           reader.at + i <= Len(file) => file[reader.at + i] = <<id, i>>
      /\ \A b \in (reader.at + 1)..(reader.at + Bytes(fragments, id) - 1) : ~Boundary(b)
  BY <1>1, <1>2, <1>3, GoesOn
<1>5. Bytes(fragments, id) \in Nat /\ HeaderSize <= Bytes(fragments, id)
  BY <1>1, <1>4 DEF AreTyped
<1>6. \A i \in 1..HeaderSize : file[reader.at + i] = <<id, i>>
  <2> SUFFICES ASSUME NEW i \in 1..HeaderSize PROVE file[reader.at + i] = <<id, i>>
    OBVIOUS
  <2> HIDE DEF id
  <2>1. i \in 1..Bytes(fragments, id) /\ reader.at + i <= Len(file)
    BY <1>1, <1>2, <1>5
  <2> QED BY <1>4, <2>1
<1>7. Header = id
  BY <1>6 DEF Header
<1>8. id # 0
  BY <1>3 DEF Begins
<1> QED BY <1>3, <1>4, <1>7, <1>8

\* At the end of a block there is no more than a header's room without a fragment.
LEMMA TrailerIs ==
  ASSUME IsRead(file, fragments, reader), HeaderSize \in Nat, HeaderSize >= 1,
         Buffered < HeaderSize, ~reader.eof,
         NEW p \in 1..Len(file), reader.at < p, p <= reader.end
  PROVE  file[p][1] = 0
<1> SUFFICES ASSUME file[p][1] # 0 PROVE FALSE
  OBVIOUS
<1>1. /\ reader.at \in Nat /\ reader.end \in Nat /\ Len(file) \in Nat
      /\ AreTyped(fragments) /\ IsAtCut(file, fragments, reader.at)
      /\ BytesAreInOrder(file, fragments) /\ BlocksAreFilled(file, fragments)
      /\ Boundary(reader.end)
  BY DEF IsRead
<1>2. PICK id \in 1..Len(fragments) : id = file[p][1]
  BY <1>1 DEF BytesAreInOrder
<1>3. PICK n \in Nat : n = Bytes(fragments, id) /\ n >= HeaderSize
  BY <1>1 DEF AreTyped
<1>4. PICK i \in 1..n : i = file[p][2]
  BY <1>1, <1>2, <1>3 DEF BytesAreInOrder
<1>5. reader.at <= p - i
  BY <1>1, <1>4, StartsBehind
<1>6. reader.end \in (p - i + 1)..(p - i + n - 1)
  BY <1>1, <1>3, <1>5 DEF Buffered
<1> QED BY <1>1, <1>2, <1>3, <1>4, <1>6 DEF BlocksAreFilled

\* At the end of the file no fragment behind the reader is whole.
LEMMA RestIsTorn ==
  ASSUME IsRead(file, fragments, reader), HeaderSize \in Nat, HeaderSize >= 1, reader.eof,
         \/ Buffered < HeaderSize
         \/ Buffered >= HeaderSize /\ Buffered < Bytes(fragments, Header),
         NEW e \in 1..Len(file), reader.at < e, NEW id, id # 0,
         file[e] = <<id, Bytes(fragments, id)>>
  PROVE  FALSE
<1>1. /\ reader.at \in Nat /\ reader.end \in Nat /\ Len(file) \in Nat
      /\ AreTyped(fragments) /\ IsAtCut(file, fragments, reader.at)
      /\ BytesAreInOrder(file, fragments) /\ BlocksAreFilled(file, fragments)
      /\ reader.end = Len(file)
  BY DEF IsRead
<1>2. ASSUME NEW q \in 1..Len(file), reader.at < q, NEW k, k # 0,
             file[q] = <<k, Bytes(fragments, k)>>
      PROVE  /\ k \in 1..Len(fragments)
             /\ Bytes(fragments, k) \in Nat /\ Bytes(fragments, k) >= HeaderSize
             /\ Buffered >= Bytes(fragments, k)
  <2>1. k \in 1..Len(fragments) /\ file[q][1] = k /\ file[q][2] = Bytes(fragments, k)
    BY <1>1, <1>2 DEF BytesAreInOrder
  <2>2. PICK n \in Nat : n = Bytes(fragments, k) /\ n >= HeaderSize
    BY <1>1, <2>1 DEF AreTyped
  <2>3. reader.at <= q - n
    BY <1>1, <1>2, <2>1, <2>2, StartsBehind
  <2> QED BY <1>1, <2>1, <2>2, <2>3 DEF Buffered
<1>3. /\ id \in 1..Len(fragments) /\ Bytes(fragments, id) \in Nat
      /\ Bytes(fragments, id) >= HeaderSize /\ Buffered >= Bytes(fragments, id)
  BY <1>2
<1>4. Buffered \in Int
  BY <1>1 DEF Buffered
<1>5. Buffered >= HeaderSize /\ Buffered < Bytes(fragments, Header)
  BY <1>3, <1>4
<1>6. /\ Header = file[reader.at + 1][1] /\ Header # 0 /\ Header \in 1..Len(fragments)
  BY <1>5, HeaderFound
<1>7. Bytes(fragments, Header) \in Nat
  BY <1>1, <1>6 DEF AreTyped
<1>8. id # Header
  BY <1>3, <1>4, <1>5, <1>7
<1>9. PICK q \in 1..Len(file) : reader.at < q /\ file[q] = <<Header, Bytes(fragments, Header)>>
  <2>1. reader.at + 1 \in 1..Len(file) /\ reader.at + 1 < e
    <3>1. reader.at + 1 # e
      BY <1>6, <1>8
    <3> QED BY <1>1, <3>1
  <2>2. file[e][1] = id
    OBVIOUS
  <2>3. Header < id
    BY <1>6, <1>8, <2>1, <2>2 DEF BytesAreInOrder, IsRead
  <2>4. Header \in 1..(id - 1)
    BY <1>1, <1>3, <1>6, <2>3 DEF AreTyped
  <2>5. PICK q \in 1..(e - 1) : file[q] = <<Header, Bytes(fragments, Header)>>
    BY <1>1, <2>2, <2>4 DEF BlocksAreFilled
  <2>6. q \in 1..Len(file) /\ file[q][1] = Header /\ file[q][2] = Bytes(fragments, Header)
    BY <2>5
  <2>7. file[reader.at + 1][2] = 1 /\ Bytes(fragments, Header) >= 1
    BY <1>1, <1>5, <1>6, HeaderFound DEF Begins, AreTyped
  <2>8. ~ (q < reader.at + 1)
    <3>1. q < reader.at + 1 => file[q][1] < file[reader.at + 1][1]
                                 \/ file[q][2] < file[reader.at + 1][2]
      BY <1>1, <1>6, <2>1, <2>6 DEF BytesAreInOrder
    <3>2. Header \in Nat
      BY <1>1, <1>6 DEF AreTyped
    <3> QED BY <1>6, <1>7, <2>6, <2>7, <3>1, <3>2
  <2>9. reader.at < q
    BY <1>1, <2>6, <2>8
  <2> QED BY <2>5, <2>6, <2>9
<1>10. Buffered >= Bytes(fragments, Header)
  BY <1>2, <1>6, <1>9
<1> QED BY <1>4, <1>5, <1>7, <1>10

\* The reader takes the fragments one after the other.
LEMMA TakesTheNext ==
  ASSUME IsRead(file, fragments, reader), HeaderSize \in Nat, HeaderSize >= 1,
         Buffered >= HeaderSize, NEW k \in 0..Len(fragments),
         HasTaken(file, fragments, reader, k)
  PROVE  Header = k + 1
<1>1. /\ reader.at \in Nat /\ reader.end \in Nat /\ Len(file) \in Nat
      /\ reader.end <= Len(file) /\ AreTyped(fragments) /\ Len(fragments) \in Nat
      /\ BlocksAreFilled(file, fragments)
  BY DEF IsRead, AreTyped
<1>2. reader.at + 1 \in 1..Len(file) /\ reader.at + 1 \in (reader.at + 1)..Len(file)
  BY <1>1 DEF Buffered
<1>3. Header = file[reader.at + 1][1] /\ Header # 0 /\ Header \in 1..Len(fragments)
  BY HeaderFound
<1>4. k < Header
  BY <1>2, <1>3 DEF HasTaken
<1> SUFFICES ASSUME k + 1 < Header PROVE FALSE
  BY <1>1, <1>3, <1>4
<1>5. k + 1 \in 1..(Header - 1)
  BY <1>1, <1>3
<1>6. PICK q \in 1..reader.at : file[q] = <<k + 1, Bytes(fragments, k + 1)>>
  <2>1. PICK p \in 1..Len(file) : p = reader.at + 1
    BY <1>2
  <2>2. file[p][1] = Header /\ file[p][1] # 0
    BY <1>3, <2>1
  <2>3. \A j \in 1..(file[p][1] - 1) :
          \E q \in 1..(p - 1) : file[q] = <<j, Bytes(fragments, j)>>
    BY <1>1, <2>2 DEF BlocksAreFilled
  <2>4. PICK q \in 1..(p - 1) : file[q] = <<k + 1, Bytes(fragments, k + 1)>>
    BY <1>5, <2>2, <2>3
  <2>5. q \in 1..reader.at
    BY <1>1, <2>1
  <2> QED BY <2>4, <2>5
<1>7. file[q][1] = k + 1
  BY <1>6
<1>8. k + 1 <= k
  BY <1>6, <1>7 DEF HasTaken
<1> QED BY <1>8

\* What was taken, once it is put together or returned.
LEMMA TakenAdvances ==
  ASSUME IsRead(file, fragments, reader), HeaderSize \in Nat, HeaderSize >= 1,
         NEW k \in 0..Len(fragments), HasTaken(file, fragments, reader, k),
         NEW to, Takes(k + 1, to),
         NEW r, r.at = to,
         r.inFragmented <=> fragments[k + 1].type \notin Closing,
         Len(r.returned) = IF r.inFragmented THEN fragments[k + 1].record - 1
                           ELSE fragments[k + 1].record
  PROVE  k + 1 \in 0..Len(fragments) /\ HasTaken(file, fragments, r, k + 1)
<1> DEFINE id == k + 1
<1>1. /\ reader.at \in Nat /\ reader.end \in Nat /\ Len(file) \in Nat
      /\ reader.end <= Len(file) /\ AreTyped(fragments) /\ Len(fragments) \in Nat
      /\ BytesAreInOrder(file, fragments)
  BY DEF IsRead, AreTyped
<1>2. /\ id \in 1..Len(fragments) /\ file[reader.at + 1] = <<id, 1>>
      /\ to = reader.at + Bytes(fragments, id) /\ to \in Nat
      /\ reader.at < to /\ to <= reader.end
      /\ file[to] = <<id, Bytes(fragments, id)>>
  BY DEF Takes
<1>3. PICK n \in Nat : n = Bytes(fragments, id) /\ n >= 1
  BY <1>1, <1>2 DEF AreTyped
<1>4. to \in 1..Len(file) /\ file[to][1] = id /\ file[to][2] = n /\ id \in Nat /\ id > 0
      /\ id # 0 /\ k < id
  BY <1>1, <1>2, <1>3
<1> HIDE DEF id
<1>5. ASSUME NEW p \in 1..to
      PROVE  file[p][1] <= id
  <2>1. CASE p <= reader.at
    <3>1. file[p][1] <= k
      BY <1>1, <2>1 DEF HasTaken
    <3>2. file[p][1] \in Nat
      <4>1. p \in 1..Len(file)
        BY <1>1, <1>2
      <4>2. file[p][1] # 0 => file[p][1] \in 1..Len(fragments)
        BY <1>1, <4>1 DEF BytesAreInOrder
      <4> QED BY <1>1, <4>2
    <3> QED BY <1>4, <3>1, <3>2
  <2>2. CASE p > reader.at
    <3>1. p \in 1..Len(file)
      BY <1>1, <1>2
    <3>2. CASE p = to
      BY <1>4, <3>2
    <3>3. CASE p < to /\ file[p][1] # 0
      <4>1. file[p][1] < file[to][1] \/ file[p][1] = file[to][1]
        BY <1>1, <1>4, <3>1, <3>3 DEF BytesAreInOrder
      <4>2. file[p][1] \in Nat
        BY <1>1, <3>1, <3>3 DEF BytesAreInOrder
      <4> QED BY <1>4, <4>1, <4>2
    <3>4. CASE file[p][1] = 0
      BY <1>4, <3>4
    <3> QED BY <1>2, <3>2, <3>3, <3>4
  <2> QED BY <1>1, <2>1, <2>2
<1>6. ASSUME NEW p \in (to + 1)..Len(file), file[p][1] # 0
      PROVE  file[p][1] > id
  <2>1. p \in 1..Len(file) /\ to < p
    BY <1>1, <1>2
  <2>2. /\ file[p][1] \in 1..Len(fragments) /\ file[p][2] \in 1..Bytes(fragments, file[p][1])
    BY <1>1, <1>6, <2>1 DEF BytesAreInOrder
  <2>3. id < file[p][1] \/ (id = file[p][1] /\ n < file[p][2])
    BY <1>1, <1>4, <1>6, <2>1 DEF BytesAreInOrder
  <2>4. CASE id = file[p][1] /\ n < file[p][2]
    BY <1>3, <2>2, <2>4
  <2> QED BY <1>1, <2>2, <2>3, <2>4
<1>7. id \in 0..Len(fragments)
  BY <1>1, <1>2
<1>8. HasTaken(file, fragments, r, id)
  BY <1>2, <1>4, <1>5, <1>6 DEF HasTaken, id
<1> QED BY <1>7, <1>8 DEF id

\* Where the record of a fragment begins, and which it is.
LEMMA RecordIs ==
  ASSUME IsRead(file, fragments, reader), NEW k \in 0..Len(fragments),
         HasTaken(file, fragments, reader, k), k + 1 \in 1..Len(fragments)
  PROVE  /\ fragments[k + 1].type \in Opening <=> ~reader.inFragmented
         /\ fragments[k + 1].record = Len(reader.returned) + 1
         /\ Len(reader.returned) \in Nat
<1>1. AreTyped(fragments) /\ RecordsAreNumbered(fragments) /\ FragmentsAreInOrder(fragments)
      /\ Len(fragments) \in Nat
  BY DEF IsRead, AreTyped
<1>2. CASE k = 0
  <2>1. fragments[1].type \in Opening /\ fragments[1].record = 1
    BY <1>1, <1>2 DEF RecordsAreNumbered
  <2>2. ~reader.inFragmented /\ reader.returned = <<>>
    BY <1>2 DEF HasTaken
  <2>3. Len(reader.returned) = 0
    BY <2>2
  <2> QED BY <1>2, <2>1, <2>2, <2>3
<1>3. CASE k > 0
  <2>1. /\ reader.inFragmented <=> fragments[k].type \notin Closing
        /\ Len(reader.returned) = IF reader.inFragmented THEN fragments[k].record - 1
                                  ELSE fragments[k].record
    BY <1>3 DEF HasTaken
  <2>2. k + 1 \in 2..Len(fragments) /\ k + 1 - 1 = k /\ k \in 1..Len(fragments)
    BY <1>1, <1>3
  <2>3. fragments[k].record \in Nat /\ fragments[k].record >= 1
    BY <1>1, <2>2 DEF AreTyped
  <2>4. fragments[k + 1].type \in Opening <=> fragments[k].type \in Closing
    BY <1>1, <2>2 DEF RecordsAreNumbered
  <2>5. fragments[k + 1].type \in Opening => fragments[k + 1].record = fragments[k].record + 1
    BY <1>1, <2>2 DEF RecordsAreNumbered
  <2>6. fragments[k + 1].type \notin Opening => fragments[k + 1].record = fragments[k].record
    <3>1. fragments[k + 1].type \notin Opening =>
            fragments[(k + 1) - 1].record = fragments[k + 1].record
      BY <1>1 DEF FragmentsAreInOrder
    <3> QED BY <2>2, <3>1
  <2>7. Len(reader.returned) \in Nat
    BY <2>1, <2>3
  <2> QED BY <2>1, <2>3, <2>4, <2>5, <2>6, <2>7
<1> QED BY <1>1, <1>2, <1>3

\* The next block: what is left of the last one holds no fragment.
LEMMA ReadBlockLoses ==
  ASSUME LogInvariant, failures = 0, NoFailureInvariant, reader.state = "reads", ReadBlock
  PROVE  NothingIsLost(file, fragments, reader') /\ reader'.state # "ended"
<1> DEFINE end == IF reader.end + BlockSize < Len(file) THEN reader.end + BlockSize
                  ELSE Len(file)
<1>1. IsRead(file, fragments, reader) /\ HeaderSize \in Nat /\ HeaderSize >= 1
  BY WhileRead
<1>2. /\ NothingIsLost(file, fragments, reader) /\ reader \in ReaderType
  BY DEF NoFailureInvariant, LogInvariant, LogTypeOK, ReaderType
<1>3. /\ reader.at \in Nat /\ reader.end \in Nat /\ Len(file) \in Nat /\ BlockSize \in Nat
      /\ reader.at <= reader.end /\ reader.end <= Len(file) /\ BlockSize >= 1
  BY <1>1, LogAssumption DEF IsRead
<1>4. /\ Buffered < HeaderSize /\ ~reader.eof
      /\ reader' = [reader EXCEPT !.at = reader.end, !.end = end,
                                  !.eof = end < reader.end + BlockSize]
  BY DEF ReadBlock
<1>5. /\ reader'.at = reader.end /\ reader'.end = end
      /\ reader'.eof = (end < reader.end + BlockSize) /\ reader'.state = "reads"
      /\ reader'.corruption = reader.corruption /\ reader'.returned = reader.returned
      /\ reader'.inFragmented = reader.inFragmented
  <2> HIDE DEF end
  <2> QED BY <1>2, <1>4 DEF ReaderType
<1>6. Boundary(reader.end) /\ IsAtCut(file, fragments, reader.end)
  BY <1>1, <1>4 DEF IsRead, IsAtCut
<1>7. ~reader'.eof => Boundary(reader'.end)
  <2>1. ~(end < reader.end + BlockSize) => end = reader.end + BlockSize
    BY <1>3
  <2> HIDE DEF end
  <2> QED BY <1>3, <1>5, <1>6, <2>1, Boundaries
<1>8. ASSUME NEW b \in (reader'.at + 1)..(reader'.end - 1)
      PROVE  ~Boundary(b)
  <2>1. b \in Nat /\ reader.end < b /\ b < reader.end + BlockSize
    BY <1>3, <1>5
  <2> QED BY <1>3, <1>6, <2>1, Boundaries
<1>9. PICK k \in 0..Len(fragments) : HasTaken(file, fragments, reader, k)
  BY <1>2 DEF NothingIsLost, ReaderType
<1>10. HasTaken(file, fragments, reader', k)
  <2>1. ASSUME NEW p \in 1..reader.end
        PROVE  file[p][1] <= k
    <3>1. CASE p <= reader.at
      BY <1>3, <1>9, <3>1 DEF HasTaken
    <3>2. CASE p > reader.at
      <4>1. p \in 1..Len(file) /\ reader.at < p /\ p <= reader.end
        BY <1>3, <3>2
      <4>2. file[p][1] = 0
        BY <1>1, <1>4, <4>1, TrailerIs
      <4> QED BY <4>2
    <3> QED BY <1>3, <3>1, <3>2
  <2>2. ASSUME NEW p \in (reader.end + 1)..Len(file), file[p][1] # 0
        PROVE  file[p][1] > k
    <3>1. p \in (reader.at + 1)..Len(file)
      BY <1>3
    <3> QED BY <1>9, <2>2, <3>1 DEF HasTaken
  <2>3. /\ k = 0 => ~reader.inFragmented /\ reader.returned = <<>>
        /\ k > 0 =>
             /\ reader.inFragmented <=> fragments[k].type \notin Closing
             /\ Len(reader.returned) = IF reader.inFragmented THEN fragments[k].record - 1
                                       ELSE fragments[k].record
    BY <1>9 DEF HasTaken
  <2> HIDE DEF end
  <2> QED BY <1>5, <2>1, <2>2, <2>3 DEF HasTaken
<1> HIDE DEF end
<1> QED BY <1>2, <1>5, <1>6, <1>7, <1>8, <1>10 DEF NothingIsLost

\* No record is bad.
LEMMA NoneIsBad ==
  ASSUME LogInvariant, failures = 0, NoFailureInvariant, ReadPhysicalRecord
  PROVE  /\ reader.state = "reads"
         /\ \/ ReadBlock
            \/ /\ End /\ reader.eof
               /\ \/ Buffered < HeaderSize
                  \/ Buffered >= HeaderSize /\ Buffered < Bytes(fragments, Header)
            \/ /\ Buffered >= HeaderSize /\ Header # 0
               /\ HeaderSize + fragments[Header].length <= Buffered
               /\ ChecksumMatches(Header) /\ Take(Header)
<1>1. reader.state = "reads"
  BY DEF ReadPhysicalRecord
<1>2. IsRead(file, fragments, reader) /\ HeaderSize \in Nat /\ HeaderSize >= 1
  BY <1>1, WhileRead
<1>3. /\ reader.at \in Nat /\ reader.end \in Nat /\ Len(file) \in Nat /\ AreTyped(fragments)
      /\ reader.at <= reader.end /\ reader.end <= Len(file)
      /\ ~reader.eof => Boundary(reader.end)
  BY <1>2 DEF IsRead
<1>4. CASE Buffered < HeaderSize
  BY <1>1, <1>3, <1>4, <1>2 DEF ReadPhysicalRecord, Buffered
<1>5. CASE Buffered >= HeaderSize
  <2> DEFINE n == Bytes(fragments, Header)
  <2>1. /\ Header # 0 /\ Header \in 1..Len(fragments)
        /\ \A i \in 1..n : reader.at + i <= Len(file) => file[reader.at + i] = <<Header, i>>
        /\ \A b \in (reader.at + 1)..(reader.at + n - 1) : ~Boundary(b)
    BY <1>2, <1>5, HeaderFound
  <2>2. n \in Nat /\ n = HeaderSize + fragments[Header].length
    BY <1>3, <2>1 DEF AreTyped, Bytes
  <2> HIDE DEF n
  <2>3. Buffered = reader.end - reader.at /\ Buffered \in Int
    BY <1>3 DEF Buffered
  <2>4. CASE ~ (n <= Buffered)
    <3>1. reader.eof
      <4> SUFFICES ASSUME ~reader.eof PROVE FALSE
        OBVIOUS
      <4>1. reader.end \in (reader.at + 1)..(reader.at + n - 1)
        BY <1>2, <1>3, <1>5, <2>2, <2>3, <2>4
      <4> QED BY <1>3, <2>1, <4>1
    <3>2. End
      BY <1>2, <1>5, <2>1, <2>2, <2>3, <2>4, <3>1 DEF ReadPhysicalRecord, ReadBlock
    <3>3. Buffered < n
      BY <2>2, <2>3, <2>4
    <3> QED BY <1>1, <1>5, <3>1, <3>2, <3>3 DEF n
  <2>5. CASE n <= Buffered
    <3>1. ChecksumMatches(Header)
      <4>1. ASSUME NEW i \in 1..n
            PROVE  file[reader.at + i] = <<Header, i>>
        <5>1. reader.at + i <= Len(file)
          BY <1>3, <2>2, <2>3, <2>5
        <5> QED BY <2>1, <5>1
      <4> QED BY <2>2, <4>1 DEF ChecksumMatches
    <3>2. Take(Header)
      BY <1>2, <1>5, <2>1, <2>2, <2>3, <2>5, <3>1 DEF ReadPhysicalRecord, ReadBlock
    <3> QED BY <1>1, <1>5, <2>1, <2>2, <2>5, <3>1, <3>2
  <2> QED BY <2>4, <2>5
<1>6. Buffered \in Int /\ HeaderSize \in Int
  BY <1>2, <1>3 DEF Buffered
<1> QED BY <1>4, <1>5, <1>6

\* At the end all that was synced was returned.
LEMMA EndLoses ==
  ASSUME LogInvariant, failures = 0, NoFailureInvariant, reader.state = "reads", End,
         reader.eof,
         \/ Buffered < HeaderSize
         \/ Buffered >= HeaderSize /\ Buffered < Bytes(fragments, Header)
  PROVE  /\ NothingIsLost(file, fragments, reader') /\ reader'.state = "ended"
         /\ durable.records <= Len(reader'.returned)
<1>1. IsRead(file, fragments, reader) /\ HeaderSize \in Nat /\ HeaderSize >= 1
  BY WhileRead
<1>2. /\ NothingIsLost(file, fragments, reader) /\ reader \in ReaderType /\ LogTypeOK
      /\ SyncedIsThere(file, fragments)
  BY DEF NoFailureInvariant, LogInvariant, LogTypeOK, ReaderType
<1>3. /\ reader'.returned = reader.returned /\ reader'.corruption = reader.corruption
      /\ reader'.state = "ended"
  BY <1>2 DEF End, ReaderType
<1>4. NothingIsLost(file, fragments, reader')
  BY <1>2, <1>3 DEF NothingIsLost
<1>5. PICK k \in 0..Len(fragments) : HasTaken(file, fragments, reader, k)
  BY <1>2 DEF NothingIsLost
<1>6. durable.records <= Len(reader.returned)
  <2>1. durable.records \in Nat /\ durable.bytes \in 0..Len(file)
        /\ Len(reader.returned) \in Nat /\ Len(fragments) \in Nat /\ AreTyped(fragments)
        /\ Len(file) \in Nat /\ reader.at \in Nat /\ reader.returned \in Seq(Seq(Nat))
    <3>1. durable \in [bytes : 0..Len(file), records : 0..records] /\ records \in 0..MaxRecords
          /\ reader.returned \in Seq(Seq(Nat))
      BY <1>2 DEF LogTypeOK
    <3> QED BY <1>1, <3>1, LogAssumption DEF IsRead, AreTyped
  <2>2. CASE durable.records = 0
    BY <2>1, <2>2
  <2>3. CASE durable.records > 0
    <3>1. PICK id \in 1..Len(fragments) :
            /\ fragments[id].record = durable.records /\ fragments[id].type \in Closing
            /\ \E e \in 1..durable.bytes : file[e] = <<id, Bytes(fragments, id)>>
      BY <1>2, <2>3 DEF SyncedIsThere
    <3>2. PICK e \in 1..durable.bytes : file[e] = <<id, Bytes(fragments, id)>>
      BY <3>1
    <3>3. e \in 1..Len(file) /\ id # 0 /\ id \in Nat
      BY <2>1
    <3>4. e <= reader.at
      BY <1>1, <2>1, <3>2, <3>3, RestIsTorn
    <3>5. id <= k
      <4>1. e \in 1..reader.at /\ file[e][1] = id
        BY <2>1, <3>2, <3>3, <3>4
      <4> QED BY <1>5, <4>1 DEF HasTaken
    <3>6. k \in 1..Len(fragments) /\ k > 0 /\ fragments[k].record \in Nat
      BY <2>1, <3>3, <3>5 DEF AreTyped
    <3>7. /\ reader.inFragmented <=> fragments[k].type \notin Closing
          /\ Len(reader.returned) = IF reader.inFragmented THEN fragments[k].record - 1
                                    ELSE fragments[k].record
      BY <1>5, <3>6 DEF HasTaken
    <3>8. FragmentsAreInOrder(fragments) /\ RecordsAreNumbered(fragments)
      BY <1>1 DEF IsRead
    <3>9. CASE id = k
      BY <3>1, <3>6, <3>7, <3>9
    <3>10. CASE id < k
      <4>1. id + 1 \in 2..Len(fragments) /\ id + 1 \in 1..Len(fragments) /\ id + 1 - 1 = id
        BY <2>1, <3>6, <3>10
      <4>2. fragments[id + 1].type \in Opening
        BY <3>1, <3>8, <4>1 DEF RecordsAreNumbered
      <4>3. fragments[id + 1].record = fragments[id].record + 1
        BY <3>8, <4>1, <4>2 DEF RecordsAreNumbered
      <4>4. fragments[id + 1].record <= fragments[k].record
        <5>1. CASE id + 1 = k
          BY <3>6, <5>1
        <5>2. CASE id + 1 < k
          BY <3>6, <3>8, <4>1, <5>2 DEF FragmentsAreInOrder
        <5> QED BY <3>3, <3>6, <3>10, <5>1, <5>2
      <4> QED BY <2>1, <3>1, <3>6, <3>7, <4>3, <4>4
    <3> QED BY <3>3, <3>5, <3>6, <3>9, <3>10
  <2> QED BY <2>1, <2>2, <2>3
<1> QED BY <1>3, <1>4, <1>6

\* Taking a fragment returns the record it ends.
LEMMA TakeLoses ==
  ASSUME LogInvariant, failures = 0, NoFailureInvariant, reader.state = "reads",
         Buffered >= HeaderSize, Header # 0,
         HeaderSize + fragments[Header].length <= Buffered,
         ChecksumMatches(Header), Take(Header)
  PROVE  NothingIsLost(file, fragments, reader') /\ reader'.state # "ended"
<1> DEFINE to == reader.at + HeaderSize + fragments[Header].length
           partial == reader.inFragmented /\
                      (\E i \in DOMAIN reader.scratch :
                         fragments[reader.scratch[i]].length > 0)
           n == Len(reader.returned)
<1>1. IsRead(file, fragments, reader) /\ HeaderSize \in Nat /\ HeaderSize >= 1
  BY WhileRead
<1>2. /\ NothingIsLost(file, fragments, reader) /\ reader \in ReaderType
  BY DEF NoFailureInvariant, LogInvariant, LogTypeOK, ReaderType
<1>3. PICK k \in 0..Len(fragments) : HasTaken(file, fragments, reader, k)
  BY <1>2 DEF NothingIsLost
<1>4. PICK id \in 1..Len(fragments) : id = Header /\ id = k + 1
  <2>1. Header = k + 1 /\ Header \in 1..Len(fragments)
    BY <1>1, <1>3, HeaderFound, TakesTheNext
  <2> QED BY <2>1
<1>5. Takes(id, to)
  BY <1>4, TakesHeader
<1>6. /\ fragments[id].type \in Opening <=> ~reader.inFragmented
      /\ fragments[id].record = n + 1 /\ n \in Nat
  BY <1>1, <1>3, <1>4, RecordIs
<1>7. /\ fragments[id] \in Fragment /\ id \in Nat
      /\ reader.returned \in Seq(Seq(Nat)) /\ reader.scratch \in Seq(Nat)
      /\ reader.inFragmented <=> reader.scratch # <<>>
  BY <1>5, TakenAfter
<1>8. reader.inFragmented /\ fragments[id].type \notin Opening =>
        IsBeginning(file, fragments, to, Append(reader.scratch, id))
  BY <1>5, TakenAfter
<1>9. /\ to \in Nat /\ reader.at < to /\ to <= reader.end /\ reader.at \in Nat
      /\ to = reader.at + Bytes(fragments, id)
      /\ file[to] = <<id, Bytes(fragments, id)>> /\ reader.end \in Nat
  BY <1>1, <1>5 DEF Takes, IsRead
<1>10. \/ /\ fragments[id].type = "full" /\ reader'.inFragmented = FALSE
          /\ reader'.corruption = (reader.corruption \/ partial)
          /\ reader'.returned = Append(reader.returned, <<id>>)
       \/ /\ fragments[id].type = "first" /\ reader'.inFragmented = TRUE
          /\ reader'.corruption = (reader.corruption \/ partial)
          /\ reader'.returned = reader.returned
       \/ /\ fragments[id].type \in {"middle", "last"} /\ ~reader.inFragmented
       \/ /\ fragments[id].type = "middle" /\ reader.inFragmented
          /\ reader'.inFragmented = reader.inFragmented
          /\ reader'.corruption = reader.corruption
          /\ reader'.returned = reader.returned
       \/ /\ fragments[id].type = "last" /\ reader.inFragmented
          /\ reader'.inFragmented = FALSE /\ reader'.corruption = reader.corruption
          /\ reader'.returned = Append(reader.returned, Append(reader.scratch, id))
  <2> HIDE DEF partial
  <2> QED BY <1>2, <1>4 DEF Take, ReaderType, partial
<1>11. /\ reader'.at = to /\ reader'.end = reader.end /\ reader'.eof = reader.eof
       /\ reader'.state = "reads"
  BY <1>2, <1>4 DEF Take, ReaderType
<1>12. ~reader.corruption /\ \A i \in 1..n : fragments[reader.returned[i][1]].record = i
  BY <1>2 DEF NothingIsLost
<1>13. ~partial \/ reader.inFragmented
  OBVIOUS
<1> HIDE DEF partial, to
<1>14. /\ ~reader'.corruption
       /\ \A i \in 1..Len(reader'.returned) : fragments[reader'.returned[i][1]].record = i
       /\ reader'.inFragmented <=> fragments[id].type \notin Closing
       /\ Len(reader'.returned) = IF reader'.inFragmented THEN fragments[id].record - 1
                                  ELSE fragments[id].record
  <2>1. ASSUME NEW s \in Seq(Nat), fragments[s[1]].record = n + 1,
               reader'.returned = Append(reader.returned, s)
        PROVE  /\ Len(reader'.returned) = n + 1
               /\ \A i \in 1..Len(reader'.returned) : fragments[reader'.returned[i][1]].record = i
    <3>1. /\ Len(reader'.returned) = n + 1 /\ reader'.returned[n + 1] = s
          /\ \A i \in 1..n : reader'.returned[i] = reader.returned[i]
      BY <1>7, <2>1
    <3>2. ASSUME NEW i \in 1..Len(reader'.returned)
          PROVE  fragments[reader'.returned[i][1]].record = i
      <4>1. i \in 1..n \/ i = n + 1
        BY <1>6, <3>1
      <4> QED BY <1>12, <2>1, <3>1, <4>1
    <3> QED BY <3>1, <3>2
  <2>2. CASE /\ fragments[id].type = "full" /\ reader'.inFragmented = FALSE
             /\ reader'.corruption = (reader.corruption \/ partial)
             /\ reader'.returned = Append(reader.returned, <<id>>)
    <3>1. ~reader.inFragmented /\ fragments[id].type \in Closing
      BY <1>6, <2>2 DEF Opening, Closing
    <3>2. ~reader'.corruption
      BY <1>12, <1>13, <2>2, <3>1
    <3>3. <<id>> \in Seq(Nat) /\ <<id>>[1] = id
      BY <1>7
    <3> QED BY <1>6, <2>1, <2>2, <3>1, <3>2, <3>3
  <2>3. CASE /\ fragments[id].type = "first" /\ reader'.inFragmented = TRUE
             /\ reader'.corruption = (reader.corruption \/ partial)
             /\ reader'.returned = reader.returned
    <3>1. ~reader.inFragmented /\ fragments[id].type \notin Closing
      BY <1>6, <2>3 DEF Opening, Closing
    <3>2. ~reader'.corruption
      BY <1>12, <1>13, <2>3, <3>1
    <3>3. Len(reader'.returned) = fragments[id].record - 1
      BY <1>6, <2>3
    <3> QED BY <1>12, <2>3, <3>1, <3>2, <3>3
  <2>4. CASE fragments[id].type \in {"middle", "last"} /\ ~reader.inFragmented
    BY <1>6, <2>4 DEF Opening
  <2>5. CASE /\ fragments[id].type = "middle" /\ reader.inFragmented
             /\ reader'.inFragmented = reader.inFragmented
             /\ reader'.corruption = reader.corruption
             /\ reader'.returned = reader.returned
    <3>1. fragments[id].type \notin Closing
      BY <2>5 DEF Closing
    <3> QED BY <1>6, <1>12, <2>5, <3>1
  <2>6. CASE /\ fragments[id].type = "last" /\ reader.inFragmented
             /\ reader'.inFragmented = FALSE /\ reader'.corruption = reader.corruption
             /\ reader'.returned = Append(reader.returned, Append(reader.scratch, id))
    <3> DEFINE s == Append(reader.scratch, id)
    <3>1. fragments[id].type \in Closing /\ fragments[id].type \notin Opening
      BY <2>6 DEF Opening, Closing
    <3>2. s \in Seq(Nat) /\ s[Len(s)] = id /\ Len(s) \in 1..Len(s)
      <4>1. reader.scratch # <<>>
        BY <1>7, <2>6
      <4>2. s \in Seq(Nat) /\ s # <<>>
        BY <1>7, <4>1, AppendedTo
      <4>3. s[Len(s)] = id
        BY <1>7, <4>1, AppendedTo
      <4>4. Len(s) \in 1..Len(s)
        <5> HIDE DEF s
        <5> QED BY <4>2
      <4> QED BY <4>2, <4>3, <4>4
    <3>3. IsBeginning(file, fragments, to, s)
      BY <1>8, <2>6, <3>1
    <3> HIDE DEF s
    <3>4. fragments[s[1]].record = fragments[id].record
      BY <3>2, <3>3 DEF IsBeginning
    <3>5. reader'.returned = Append(reader.returned, s)
      BY <2>6 DEF s
    <3> QED BY <1>6, <1>12, <2>1, <2>6, <3>1, <3>2, <3>4, <3>5
  <2> QED BY <1>10, <2>2, <2>3, <2>4, <2>5, <2>6
<1>15. k + 1 \in 0..Len(fragments) /\ HasTaken(file, fragments, reader', k + 1)
  BY <1>1, <1>3, <1>4, <1>5, <1>11, <1>14, TakenAdvances
<1>16. IsAtCut(file, fragments, reader'.at)
  <2>1. file[to][1] = id /\ id # 0 /\ to > 0
    BY <1>9
  <2> QED BY <1>9, <1>11, <2>1 DEF IsAtCut
<1>17. /\ ~reader'.eof => Boundary(reader'.end)
       /\ \A b \in (reader'.at + 1)..(reader'.end - 1) : ~Boundary(b)
  <2>1. /\ ~reader.eof => Boundary(reader.end)
        /\ \A b \in (reader.at + 1)..(reader.end - 1) : ~Boundary(b)
    BY <1>1 DEF IsRead
  <2>2. \A b \in (to + 1)..(reader.end - 1) : b \in (reader.at + 1)..(reader.end - 1)
    BY <1>9
  <2> QED BY <1>11, <2>1, <2>2
<1> QED BY <1>11, <1>14, <1>15, <1>16, <1>17 DEF NothingIsLost

\* A step of the reader loses nothing.
LEMMA ReadLoses ==
  ASSUME LogInvariant, NoFailureInvariant, ReadPhysicalRecord
  PROVE  NoFailureInvariant'
<1>1. /\ UNCHANGED <<file, fragments, records, writer, durable, failures>>
      /\ reader.state = "reads"
  BY DEF ReadPhysicalRecord
<1> SUFFICES ASSUME failures = 0
             PROVE  /\ NothingIsLost(file, fragments, reader')
                    /\ reader'.state = "ended" => durable.records <= Len(reader'.returned)
                    /\ reader'.state # "waits"
  BY <1>1 DEF NoFailureInvariant, NothingIsMissing, Writing, SyncedIsThere
<1>2. reader'.state # "waits"
  <2>1. reader \in ReaderType
    BY DEF LogInvariant, LogTypeOK, ReaderType
  <2> QED BY <1>1, <2>1 DEF ReadPhysicalRecord, ReadBlock, End, BadRecord, Take, ReaderType
<1>3. CASE ReadBlock
  BY <1>1, <1>2, <1>3, ReadBlockLoses
<1>4. CASE /\ End /\ reader.eof
           /\ \/ Buffered < HeaderSize
              \/ Buffered >= HeaderSize /\ Buffered < Bytes(fragments, Header)
  BY <1>1, <1>2, <1>4, EndLoses
<1>5. CASE /\ Buffered >= HeaderSize /\ Header # 0
           /\ HeaderSize + fragments[Header].length <= Buffered
           /\ ChecksumMatches(Header) /\ Take(Header)
  BY <1>1, <1>2, <1>5, TakeLoses
<1> QED BY <1>3, <1>4, <1>5, NoneIsBad

\* What is kept of a file of which the end is lost.
LEMMA BlocksKept ==
  ASSUME NEW f, NEW g, Len(f) \in Nat, AreTyped(g), BytesAreInOrder(f, g),
         BlocksAreFilled(f, g),
         NEW h, Len(h) \in Nat, Len(h) <= Len(f), \A p \in 1..Len(h) : h[p] = f[p]
  PROVE  BlocksAreFilled(h, g)
<1>1. \A p \in 1..Len(h) : p \in 1..Len(f) /\ h[p] = f[p]
  OBVIOUS
<1>2. ASSUME NEW p \in 1..Len(h), h[p][1] # 0
      PROVE  /\ \A j \in 0..(Bytes(g, h[p][1]) - h[p][2]) : p + j <= Len(h) =>
                  h[p + j] = <<h[p][1], h[p][2] + j>>
             /\ \A b \in (p - h[p][2] + 1)..(p - h[p][2] + Bytes(g, h[p][1]) - 1) :
                  ~Boundary(b)
             /\ \A k \in 1..(h[p][1] - 1) : \E q \in 1..(p - 1) : h[q] = <<k, Bytes(g, k)>>
  <2>1. p \in 1..Len(f) /\ h[p] = f[p] /\ f[p][1] # 0
    BY <1>1, <1>2
  <2>2. PICK id \in 1..Len(g) : id = f[p][1]
    BY <2>1 DEF BytesAreInOrder
  <2>3. PICK n \in Nat : n = Bytes(g, id)
    BY DEF AreTyped
  <2>4. PICK i \in 1..n : i = f[p][2]
    BY <2>1, <2>2, <2>3 DEF BytesAreInOrder
  <2>5. ASSUME NEW j \in 0..(n - i), p + j <= Len(h)
        PROVE  h[p + j] = <<id, i + j>>
    <3>1. p + j \in 1..Len(h) /\ p + j <= Len(f)
      BY <2>5
    <3>2. f[p + j] = <<id, i + j>>
      BY <2>1, <2>2, <2>3, <2>4, <3>1 DEF BlocksAreFilled
    <3> QED BY <1>1, <3>1, <3>2
  <2>6. \A b \in (p - i + 1)..(p - i + n - 1) : ~Boundary(b)
    BY <2>1, <2>2, <2>3, <2>4 DEF BlocksAreFilled
  <2>7. ASSUME NEW k \in 1..(id - 1)
        PROVE  \E q \in 1..(p - 1) : h[q] = <<k, Bytes(g, k)>>
    <3>1. PICK q \in 1..(p - 1) : f[q] = <<k, Bytes(g, k)>>
      BY <2>1, <2>2 DEF BlocksAreFilled
    <3>2. q \in 1..Len(h)
      OBVIOUS
    <3> QED BY <1>1, <3>1, <3>2
  <2> QED BY <2>1, <2>2, <2>3, <2>4, <2>5, <2>6, <2>7
<1>3. ASSUME NEW p \in 0..(Len(h) - 1), Boundary(p)
      PROVE  Begins(h, p + 1)
  <2>1. p \in 0..(Len(f) - 1) /\ p + 1 \in 1..Len(h)
    OBVIOUS
  <2>2. Begins(f, p + 1)
    BY <1>3, <2>1 DEF BlocksAreFilled
  <2> QED BY <1>1, <2>1, <2>2 DEF Begins
<1>4. ASSUME NEW p \in 1..(Len(h) - 1), h[p][1] # 0, h[p][2] = Bytes(g, h[p][1])
      PROVE  Begins(h, p + 1) \/ \E b \in (p + 1)..(p + HeaderSize - 1) : Boundary(b)
  <2>1. p \in 1..(Len(f) - 1) /\ p \in 1..Len(h) /\ p + 1 \in 1..Len(h)
    OBVIOUS
  <2>2. h[p] = f[p] /\ h[p + 1] = f[p + 1]
    BY <1>1, <2>1
  <2>3. Begins(f, p + 1) \/ \E b \in (p + 1)..(p + HeaderSize - 1) : Boundary(b)
    BY <1>4, <2>1, <2>2 DEF BlocksAreFilled
  <2> QED BY <2>2, <2>3 DEF Begins
<1> QED BY <1>2, <1>3, <1>4 DEF BlocksAreFilled

\* The file has every fragment to its end.
AllAreThere(f, g) == \A id \in 1..Len(g) : \E p \in 1..Len(f) : f[p] = <<id, Bytes(g, id)>>

\* A fragment of which there is a byte is there to its end.
LEMMA RestIsThere ==
  ASSUME NEW f, NEW g, Len(f) \in Nat, AreTyped(g), BytesAreInOrder(f, g),
         AllAreThere(f, g), NEW p \in 1..Len(f), NEW id \in 1..Len(g), id = f[p][1],
         NEW n \in Nat, n = Bytes(g, id), NEW i \in 1..n, i = f[p][2]
  PROVE  p + (n - i) <= Len(f)
<1>1. PICK q \in 1..Len(f) : f[q] = <<id, n>>
  BY DEF AllAreThere
<1>2. f[q][1] = id /\ f[q][2] = n /\ id # 0 /\ i <= n
  BY <1>1 DEF AreTyped
<1>3. p - i = q - n
  BY <1>2, InPlace
<1> QED BY <1>3

\* A fragment fills its place in a block.
LEMMA BlocksEmitted ==
  ASSUME NEW f, NEW g, Len(f) \in Nat, AreTyped(g), BytesAreInOrder(f, g),
         BlocksAreFilled(f, g), AllAreThere(f, g),
         NEW G, NEW n \in Nat, n >= 1, Len(G) = Len(g) + 1, Bytes(G, Len(g) + 1) = n,
         \A k \in 1..Len(g) : Bytes(G, k) = Bytes(g, k),
         NEW h, NEW t, IsEmitted(h, f, t, Len(g) + 1, n),
         NEW start \in Nat, NEW base \in Nat, Len(f) + t = base + start, Boundary(base),
         start + n <= BlockSize, BlockSize \in Nat, HeaderSize \in Nat,
         t = 0 \/ (start = 0 /\ t < HeaderSize), HeaderSize <= BlockSize
  PROVE  BlocksAreFilled(h, G) /\ AllAreThere(h, G)
<1>0. PICK id \in Nat : id = Len(g) + 1 /\ id >= 1
  BY DEF AreTyped
<1>1. PICK s \in Nat : s = Len(f) + t
  BY DEF IsEmitted
<1>2. t \in Nat /\ Len(f) <= s /\ Len(h) = s + n /\ Len(h) \in Nat
  BY <1>1 DEF IsEmitted
<1>3. /\ \A p \in 1..Len(f) : h[p] = f[p]
      /\ \A p \in (Len(f) + 1)..s : h[p] = <<0, 0>>
      /\ \A i \in 1..n : h[s + i] = <<id, i>>
  BY <1>0, <1>1 DEF IsEmitted
<1>4. s = base + start /\ Boundary(base)
  BY <1>1
<1>5. ASSUME NEW b \in (s + 1)..(s + n - 1)
      PROVE  ~Boundary(b)
  <2>1. b \in Nat /\ base < b /\ b < base + BlockSize
    BY <1>4
  <2> QED BY <1>4, <2>1, Boundaries
<1>6. ASSUME NEW p \in Nat, Len(f) <= p, p < s
      PROVE  ~Boundary(p)
  <2>1. p < base /\ base < p + BlockSize
    BY <1>1, <1>2, <1>4, <1>6
  <2> QED BY <1>4, <2>1, Boundaries
<1>7. ASSUME NEW p \in 1..Len(h), h[p][1] # 0
      PROVE  /\ \A j \in 0..(Bytes(G, h[p][1]) - h[p][2]) : p + j <= Len(h) =>
                  h[p + j] = <<h[p][1], h[p][2] + j>>
             /\ \A b \in (p - h[p][2] + 1)..(p - h[p][2] + Bytes(G, h[p][1]) - 1) :
                  ~Boundary(b)
             /\ \A k \in 1..(h[p][1] - 1) : \E q \in 1..(p - 1) : h[q] = <<k, Bytes(G, k)>>
  <2>1. CASE p \in 1..Len(f)
    <3>1. h[p] = f[p] /\ f[p][1] # 0
      BY <1>3, <1>7, <2>1
    <3>2. PICK k \in 1..Len(g) : k = f[p][1]
      BY <2>1, <3>1 DEF BytesAreInOrder
    <3>3. PICK m \in Nat : m = Bytes(g, k) /\ m = Bytes(G, k)
      BY <3>2 DEF AreTyped
    <3>4. PICK i \in 1..m : i = f[p][2]
      BY <2>1, <3>1, <3>2, <3>3 DEF BytesAreInOrder
    <3>5. p + (m - i) <= Len(f)
      BY <2>1, <3>2, <3>3, <3>4, RestIsThere
    <3>6. ASSUME NEW j \in 0..(m - i)
          PROVE  h[p + j] = <<k, i + j>>
      <4>1. p + j \in 1..Len(f) /\ p + j <= Len(f)
        BY <2>1, <3>5
      <4>2. f[p + j] = <<k, i + j>>
        BY <2>1, <3>1, <3>2, <3>3, <3>4, <4>1 DEF BlocksAreFilled
      <4> QED BY <1>3, <4>1, <4>2
    <3>7. \A b \in (p - i + 1)..(p - i + m - 1) : ~Boundary(b)
      BY <2>1, <3>1, <3>2, <3>3, <3>4 DEF BlocksAreFilled
    <3>8. ASSUME NEW l \in 1..(k - 1)
          PROVE  \E q \in 1..(p - 1) : h[q] = <<l, Bytes(G, l)>>
      <4>1. PICK q \in 1..(p - 1) : f[q] = <<l, Bytes(g, l)>>
        BY <2>1, <3>1, <3>2 DEF BlocksAreFilled
      <4>2. q \in 1..Len(f) /\ l \in 1..Len(g)
        BY <1>0, <2>1
      <4> QED BY <1>3, <4>1, <4>2
    <3> QED BY <3>1, <3>2, <3>3, <3>4, <3>6, <3>7, <3>8
  <2>2. CASE p \in (Len(f) + 1)..s
    BY <1>3, <1>7, <2>2
  <2>3. CASE p > s
    <3>1. PICK i \in 1..n : p = s + i
      <4>1. p - s \in 1..n /\ p = s + (p - s)
        BY <1>2, <2>3
      <4> QED BY <4>1
    <3>2. h[p] = <<id, i>> /\ h[p][1] = id /\ h[p][2] = i /\ Bytes(G, id) = n
      BY <1>0, <1>3, <3>1
    <3>3. ASSUME NEW j \in 0..(n - i)
          PROVE  h[p + j] = <<id, i + j>>
      <4>1. i + j \in 1..n /\ p + j = s + (i + j)
        BY <3>1
      <4> QED BY <1>3, <4>1
    <3>4. ASSUME NEW b \in (p - i + 1)..(p - i + n - 1)
          PROVE  ~Boundary(b)
      <4>1. b \in (s + 1)..(s + n - 1)
        BY <3>1
      <4> QED BY <1>5, <4>1
    <3>5. ASSUME NEW l \in 1..(id - 1)
          PROVE  \E q \in 1..(p - 1) : h[q] = <<l, Bytes(G, l)>>
      <4>1. l \in 1..Len(g)
        BY <1>0
      <4>2. PICK q \in 1..Len(f) : f[q] = <<l, Bytes(g, l)>>
        BY <4>1 DEF AllAreThere
      <4>3. q \in 1..(p - 1)
        BY <1>2, <2>3
      <4> QED BY <1>3, <4>1, <4>2, <4>3
    <3>6. \A j \in 0..(Bytes(G, h[p][1]) - h[p][2]) : p + j <= Len(h) =>
            h[p + j] = <<h[p][1], h[p][2] + j>>
      BY <3>2, <3>3
    <3>7. \A b \in (p - h[p][2] + 1)..(p - h[p][2] + Bytes(G, h[p][1]) - 1) : ~Boundary(b)
      BY <3>2, <3>4
    <3>8. \A l \in 1..(h[p][1] - 1) : \E q \in 1..(p - 1) : h[q] = <<l, Bytes(G, l)>>
      BY <3>2, <3>5
    <3> QED BY <3>6, <3>7, <3>8
  <2>4. p \in 1..Len(f) \/ p \in (Len(f) + 1)..s \/ p > s
    BY <1>2
  <2> QED BY <2>1, <2>2, <2>3, <2>4
<1>8. ASSUME NEW p \in 0..(Len(h) - 1), Boundary(p)
      PROVE  Begins(h, p + 1)
  <2>1. CASE p < Len(f)
    <3>1. p \in 0..(Len(f) - 1) /\ p + 1 \in 1..Len(f)
      BY <2>1
    <3>2. Begins(f, p + 1)
      BY <1>8, <3>1 DEF BlocksAreFilled
    <3> QED BY <1>3, <3>1, <3>2 DEF Begins
  <2>2. CASE p = s
    <3>1. h[s + 1] = <<id, 1>>
      BY <1>3
    <3> QED BY <1>0, <2>2, <3>1 DEF Begins
  <2>3. CASE Len(f) <= p /\ p < s
    BY <1>6, <1>8, <2>3
  <2>4. CASE s < p
    <3>1. p \in (s + 1)..(s + n - 1)
      BY <1>2, <2>4
    <3> QED BY <1>5, <1>8, <3>1
  <2> QED BY <1>2, <2>1, <2>2, <2>3, <2>4
<1>9. ASSUME NEW p \in 1..(Len(h) - 1), h[p][1] # 0, h[p][2] = Bytes(G, h[p][1])
      PROVE  Begins(h, p + 1) \/ \E b \in (p + 1)..(p + HeaderSize - 1) : Boundary(b)
  <2>1. CASE p < Len(f)
    <3>1. p \in 1..(Len(f) - 1) /\ p \in 1..Len(f) /\ p + 1 \in 1..Len(f)
      BY <2>1
    <3>2. h[p] = f[p] /\ h[p + 1] = f[p + 1]
      BY <1>3, <3>1
    <3>3. f[p][1] \in 1..Len(g)
      BY <1>9, <3>1, <3>2 DEF BytesAreInOrder
    <3>4. f[p][1] # 0 /\ f[p][2] = Bytes(g, f[p][1])
      BY <1>9, <3>2, <3>3
    <3>5. Begins(f, p + 1) \/ \E b \in (p + 1)..(p + HeaderSize - 1) : Boundary(b)
      BY <3>1, <3>4 DEF BlocksAreFilled
    <3> QED BY <3>2, <3>5 DEF Begins
  <2>2. CASE p = Len(f) /\ t = 0
    <3>1. h[s + 1] = <<id, 1>> /\ p = s
      BY <1>1, <1>3, <2>2
    <3> QED BY <1>0, <3>1 DEF Begins
  <2>3. CASE p = Len(f) /\ t # 0
    <3>1. s \in (p + 1)..(p + HeaderSize - 1)
      BY <1>1, <1>2, <2>3
    <3>2. base = s
      BY <1>1, <1>4, <2>3
    <3> QED BY <1>4, <3>1, <3>2
  <2>4. CASE p \in (Len(f) + 1)..s
    BY <1>3, <1>9, <2>4
  <2>5. CASE p > s
    <3>1. PICK i \in 1..n : p = s + i /\ i < n
      <4>1. p - s \in 1..n /\ p = s + (p - s) /\ p - s < n
        BY <1>2, <2>5
      <4> QED BY <4>1
    <3>2. h[p][1] = id /\ h[p][2] = i
      BY <1>3, <3>1
    <3> QED BY <1>0, <1>9, <3>1, <3>2
  <2> QED BY <1>2, <2>1, <2>2, <2>3, <2>4, <2>5
<1>10. AllAreThere(h, G)
  <2> SUFFICES ASSUME NEW k \in 1..Len(G) PROVE \E p \in 1..Len(h) : h[p] = <<k, Bytes(G, k)>>
    BY DEF AllAreThere
  <2>1. CASE k \in 1..Len(g)
    <3>1. PICK p \in 1..Len(f) : f[p] = <<k, Bytes(g, k)>>
      BY <2>1 DEF AllAreThere
    <3>2. p \in 1..Len(h)
      BY <1>2
    <3> QED BY <1>3, <2>1, <3>1, <3>2
  <2>2. CASE k = id
    <3>1. s + n \in 1..Len(h) /\ n \in 1..n
      BY <1>2
    <3> QED BY <1>0, <1>3, <2>2, <3>1
  <2> QED BY <1>0, <2>1, <2>2
<1> QED BY <1>7, <1>8, <1>9, <1>10 DEF BlocksAreFilled

\* A fragment that goes on with the last record, or begins the one after it.
LEMMA NumberedOnwards ==
  ASSUME NEW g, RecordsAreNumbered(g), NEW x, NEW G, IsAppended(G, g, x),
         Len(g) = 0 => x.type \in Opening /\ x.record = 1,
         Len(g) > 0 => /\ x.type \in Opening <=> g[Len(g)].type \in Closing
                       /\ x.type \in Opening => x.record = g[Len(g)].record + 1
  PROVE  RecordsAreNumbered(G)
<1>1. PICK n \in Nat : n = Len(g)
  BY DEF IsAppended
<1>2. Len(G) = n + 1 /\ G[n + 1] = x /\ \A k \in 1..n : G[k] = g[k]
  BY <1>1 DEF IsAppended
<1>3. G[1].type \in Opening /\ G[1].record = 1
  <2>1. CASE n = 0
    BY <1>1, <1>2, <2>1
  <2>2. CASE n > 0
    <3>1. G[1] = g[1]
      BY <1>2, <2>2
    <3> QED BY <1>1, <2>2, <3>1 DEF RecordsAreNumbered
  <2> QED BY <2>1, <2>2
<1>4. ASSUME NEW id \in 2..(n + 1)
      PROVE  /\ G[id].type \in Opening <=> G[id - 1].type \in Closing
             /\ G[id].type \in Opening => G[id].record = G[id - 1].record + 1
  <2>1. CASE id \in 2..n
    <3>1. G[id] = g[id] /\ G[id - 1] = g[id - 1]
      BY <1>2, <2>1
    <3> QED BY <1>1, <2>1, <3>1 DEF RecordsAreNumbered
  <2>2. CASE id = n + 1
    <3>1. G[id] = x /\ G[id - 1] = g[n] /\ n > 0
      BY <1>2, <2>2
    <3> QED BY <1>1, <3>1
  <2> QED BY <2>1, <2>2
<1> QED BY <1>2, <1>3, <1>4 DEF RecordsAreNumbered

\* Before its first step the reader has lost nothing of any file.
LEMMA NothingReadYet ==
  ASSUME NEW f, Len(f) \in Nat, \A p \in 1..Len(f) : f[p][1] \in Nat,
         NEW g, Len(g) \in Nat, NEW r, r.at = 0, r.end = 0, ~r.inFragmented,
         r.returned = <<>>, ~r.corruption
  PROVE  NothingIsLost(f, g, r)
<1>1. Boundary(0)
  BY Boundaries
<1>2. \A i \in 1..Len(r.returned) : g[r.returned[i][1]].record = i
  OBVIOUS
<1>3. IsAtCut(f, g, r.at)
  BY <1>1 DEF IsAtCut
<1>4. \A b \in (r.at + 1)..(r.end - 1) : ~Boundary(b)
  OBVIOUS
<1>5. HasTaken(f, g, r, 0)
  <2>1. \A p \in 1..r.at : f[p][1] <= 0
    OBVIOUS
  <2>2. \A p \in (r.at + 1)..Len(f) : f[p][1] # 0 => f[p][1] > 0
    OBVIOUS
  <2> QED BY <2>1, <2>2 DEF HasTaken
<1>6. 0 \in 0..Len(g)
  OBVIOUS
<1> QED BY <1>1, <1>2, <1>3, <1>4, <1>5, <1>6 DEF NothingIsLost

\* And so it is while there is a writer.
LEMMA WhileWriting ==
  ASSUME LogInvariant, failures = 0, NoFailureInvariant, Writing
  PROVE  /\ reader \in ReaderType /\ reader.state = "waits"
         /\ reader.at = 0 /\ reader.end = 0 /\ ~reader.inFragmented
         /\ reader.returned = <<>> /\ ~reader.corruption
<1>1. reader \in ReaderType /\ LogReaderIsRight(file, fragments, reader)
      /\ NothingIsLost(file, fragments, reader)
  BY DEF LogInvariant, LogTypeOK, ReaderType, NoFailureInvariant
<1>2. reader.state = "waits" /\ reader.at \in Nat
  BY <1>1 DEF Writing, ReaderType
<1>3. reader.end = 0 /\ reader.returned = <<>> /\ ~reader.inFragmented /\ reader.at <= reader.end
  BY <1>1, <1>2 DEF LogReaderIsRight
<1>4. ~reader.corruption
  BY <1>1 DEF NothingIsLost
<1> QED BY <1>1, <1>2, <1>3, <1>4

\* What the type invariant says for the lemmas about files and fragments.
LEMMA LogIs ==
  ASSUME LogInvariant
  PROVE  /\ file \in Seq(Nat \X Nat) /\ fragments \in Seq(Fragment)
         /\ Len(file) \in Nat /\ Len(fragments) \in Nat /\ AreTyped(fragments)
         /\ BytesAreInOrder(file, fragments) /\ FragmentsAreInOrder(fragments)
         /\ \A p \in 1..Len(file) : file[p][1] \in Nat
         /\ BlockSize \in Nat /\ HeaderSize \in Nat /\ HeaderSize <= BlockSize
         /\ HeaderSize >= 1
         /\ records \in Nat /\ failures \in Nat
         /\ durable.bytes \in Nat /\ durable.bytes <= Len(file) /\ durable.records \in Nat
         /\ writer.begin \in BOOLEAN /\ writer.blockOffset \in Nat
         /\ writer.left = -1 \/ writer.left \in Nat
<1>1. LogTypeOK /\ BytesAreInOrder(file, fragments) /\ FragmentsAreInOrder(fragments)
  BY DEF LogInvariant
<1>2. /\ file \in Seq(Nat \X Nat) /\ fragments \in Seq(Fragment)
      /\ Len(file) \in Nat /\ Len(fragments) \in Nat
  BY <1>1, FileTyped
<1>3. AreTyped(fragments)
  BY <1>2, FragmentsTyped
<1>4. \A p \in 1..Len(file) : file[p][1] \in Nat
  BY <1>2
<1>5. BlockSize \in Nat /\ HeaderSize \in Nat /\ HeaderSize <= BlockSize /\ HeaderSize >= 1
  BY LogAssumption
<1>6. records \in Nat /\ failures \in Nat
  BY <1>1, LogAssumption DEF LogTypeOK
<1>7. durable.bytes \in Nat /\ durable.bytes <= Len(file) /\ durable.records \in Nat
  <2>1. durable \in [bytes : 0..Len(file), records : 0..records]
    BY <1>1 DEF LogTypeOK
  <2> QED BY <1>2, <1>6, <2>1
<1>8. writer.begin \in BOOLEAN /\ writer.blockOffset \in Nat
      /\ (writer.left = -1 \/ writer.left \in Nat)
  <2>1. writer \in [left : {-1} \cup Nat, begin : BOOLEAN, blockOffset : 0..BlockSize]
    BY <1>1 DEF LogTypeOK
  <2> QED BY <1>5, <2>1
<1> QED BY <1>1, <1>2, <1>3, <1>4, <1>5, <1>6, <1>7, <1>8

\* At the start nothing is lost.
LEMMA NothingIsLostAtFirst == LogInit => NoFailureInvariant
<1> SUFFICES ASSUME LogInit PROVE NoFailureInvariant
  OBVIOUS
<1>1. /\ file = <<>> /\ fragments = <<>> /\ records = 0
      /\ writer = [left |-> -1, begin |-> FALSE, blockOffset |-> 0]
      /\ durable = [bytes |-> 0, records |-> 0]
      /\ reader = [state |-> "waits", at |-> 0, end |-> 0, eof |-> FALSE, scratch |-> <<>>,
                   inFragmented |-> FALSE, corruption |-> FALSE, returned |-> <<>>]
  BY DEF LogInit
<1>2. Len(file) = 0 /\ Len(fragments) = 0
  BY <1>1
<1>3. BlocksAreFilled(file, fragments)
  BY <1>2 DEF BlocksAreFilled
<1>4. RecordsAreNumbered(fragments)
  BY <1>2 DEF RecordsAreNumbered
<1>5. NothingIsMissing
  <2>1. Boundary(0)
    BY Boundaries
  <2>2. writer.blockOffset <= Len(file) /\ Len(file) - writer.blockOffset = 0
    BY <1>1, <1>2
  <2>3. Resting /\ records = 0
    BY <1>1 DEF Resting
  <2> QED BY <1>2, <2>1, <2>2, <2>3 DEF NothingIsMissing
<1>6. SyncedIsThere(file, fragments)
  BY <1>1 DEF SyncedIsThere
<1>7. NothingIsLost(file, fragments, reader)
  <2>1. /\ reader.at = 0 /\ reader.end = 0 /\ ~reader.inFragmented
        /\ reader.returned = <<>> /\ ~reader.corruption
    BY <1>1
  <2>2. /\ Len(file) \in Nat /\ Len(fragments) \in Nat
        /\ \A p \in 1..Len(file) : file[p][1] \in Nat
    BY <1>2
  <2> QED BY <2>1, <2>2, NothingReadYet
<1> QED BY <1>1, <1>3, <1>4, <1>5, <1>6, <1>7 DEF NoFailureInvariant

\* AddRecord: the record before it has its last fragment.
LEMMA AddRecordLoses ==
  ASSUME LogInvariant, NoFailureInvariant, NEW size \in Sizes, AddRecord(size)
  PROVE  NoFailureInvariant'
<1>1. /\ UNCHANGED <<file, fragments, durable, failures, reader>> /\ Writing /\ Resting
      /\ records' = records + 1 /\ writer' = [writer EXCEPT !.left = size, !.begin = TRUE]
  BY DEF AddRecord
<1>2. writer \in [left : {-1} \cup Nat, begin : BOOLEAN, blockOffset : 0..BlockSize]
      /\ size \in Nat /\ records \in Nat /\ Len(fragments) \in Nat
  BY LogAssumption, LogIs DEF LogInvariant, LogTypeOK
<1>3. writer'.left = size /\ writer'.begin = TRUE /\ writer'.blockOffset = writer.blockOffset
  BY <1>1, <1>2
<1>4. ~Resting'
  BY <1>2, <1>3 DEF Resting
<1> SUFFICES ASSUME failures = 0
             PROVE  NothingIsMissing'
  BY <1>1 DEF NoFailureInvariant, SyncedIsThere
<1>5. NothingIsMissing
  BY DEF NoFailureInvariant
<1>6. writer'.blockOffset <= Len(file') /\ Boundary(Len(file') - writer'.blockOffset)
  BY <1>1, <1>3, <1>5 DEF NothingIsMissing
<1>7. \A id \in 1..Len(fragments') :
        \E p \in 1..Len(file') : file'[p] = <<id, Bytes(fragments', id)>>
  BY <1>1, <1>5 DEF NothingIsMissing
<1>8. Len(fragments) = 0 => records' = 1
  BY <1>1, <1>5 DEF NothingIsMissing
<1>9. Len(fragments) > 0 =>
        /\ fragments[Len(fragments)].type \in Closing
        /\ fragments[Len(fragments)].record = records
  BY <1>1, <1>5 DEF NothingIsMissing
<1>10. records' - 1 = records
  BY <1>1, <1>2
<1> QED BY <1>1, <1>3, <1>4, <1>6, <1>7, <1>8, <1>9, <1>10 DEF NothingIsMissing

\* Sync: the last record has its last fragment.
LEMMA SyncLoses ==
  ASSUME LogInvariant, NoFailureInvariant, Sync
  PROVE  NoFailureInvariant'
<1>1. /\ UNCHANGED <<file, fragments, records, writer, failures, reader>>
      /\ Writing /\ Resting /\ durable' = [bytes |-> Len(file), records |-> records]
  BY DEF Sync
<1> SUFFICES ASSUME failures = 0
             PROVE  SyncedIsThere(file, fragments)' /\ reader'.state # "ended"
  BY <1>1 DEF NoFailureInvariant, NothingIsMissing, Writing, Resting
<1>2. NothingIsMissing /\ Len(fragments) \in Nat
  BY LogIs DEF NoFailureInvariant
<1>3. ASSUME records > 0
      PROVE  \E id \in 1..Len(fragments) :
               /\ fragments[id].record = records /\ fragments[id].type \in Closing
               /\ \E e \in 1..Len(file) : file[e] = <<id, Bytes(fragments, id)>>
  <2>1. Len(fragments) > 0
    BY <1>1, <1>2, <1>3 DEF NothingIsMissing
  <2>2. Len(fragments) \in 1..Len(fragments)
    BY <1>2, <2>1
  <2>3. /\ fragments[Len(fragments)].type \in Closing
        /\ fragments[Len(fragments)].record = records
    BY <1>1, <1>2, <2>1 DEF NothingIsMissing
  <2>4. \E e \in 1..Len(file) :
          file[e] = <<Len(fragments), Bytes(fragments, Len(fragments))>>
    BY <1>1, <1>2, <2>2 DEF NothingIsMissing
  <2> QED BY <2>2, <2>3, <2>4
<1>4. durable'.bytes = Len(file) /\ durable'.records = records
  BY <1>1
<1>5. SyncedIsThere(file, fragments)'
  BY <1>1, <1>3, <1>4 DEF SyncedIsThere
<1> QED BY <1>1, <1>5 DEF Writing

\* A turn of AddRecord's loop puts its fragment where the reader will look for it.
LEMMA EmitLoses ==
  ASSUME LogInvariant, NoFailureInvariant, NEW fails \in BOOLEAN, EmitPhysicalRecord(fails)
  PROVE  NoFailureInvariant'
<1>1. PICK h, x, t, start : Emits(fails, h, x, t, start)
  BY Emission
<1>2. UNCHANGED <<records, durable, reader>> /\ Writing /\ ~Resting
  BY DEF EmitPhysicalRecord
<1>3. /\ file \in Seq(Nat \X Nat) /\ fragments \in Seq(Fragment)
      /\ Len(file) \in Nat /\ Len(fragments) \in Nat /\ AreTyped(fragments)
      /\ BytesAreInOrder(file, fragments)
      /\ BlockSize \in Nat /\ HeaderSize \in Nat /\ HeaderSize <= BlockSize /\ HeaderSize >= 1
      /\ records \in Nat /\ failures \in Nat
      /\ durable.bytes \in Nat /\ durable.bytes <= Len(file)
      /\ writer.begin \in BOOLEAN /\ writer.blockOffset \in Nat
      /\ writer.left = -1 \/ writer.left \in Nat
  BY LogIs
<1>4. writer.left \in Nat
  BY <1>2, <1>3 DEF Resting
<1> SUFFICES ASSUME failures' = 0 PROVE NoFailureInvariant'
  BY DEF NoFailureInvariant
<1>5. ~fails /\ file' = h /\ failures = 0
  BY <1>1, <1>3 DEF Emits
<1>6. /\ x \in Fragment /\ x.record = records /\ (x.type \in Opening <=> writer.begin)
      /\ (x.type \in Closing <=> x.length = writer.left)
      /\ fragments' = Append(fragments, x)
      /\ IsEmitted(h, file, t, Len(fragments) + 1, HeaderSize + x.length)
      /\ x.length <= writer.left /\ start \in Nat /\ start + HeaderSize + x.length <= BlockSize
  BY <1>1 DEF Emits
<1>7. x.length \in Nat
  <2>1. x \in Fragment
    BY <1>6
  <2> QED BY <2>1, <1>3 DEF Fragment
<1>8. PICK n \in Nat : n = HeaderSize + x.length /\ n >= 1
  BY <1>3, <1>7
<1>9. /\ t \in Nat /\ Len(h) = Len(file) + t + n /\ \A p \in 1..Len(file) : h[p] = file[p]
      /\ IsEmitted(h, file, t, Len(fragments) + 1, n) /\ start + n <= BlockSize
  <2>1. IsEmitted(h, file, t, Len(fragments) + 1, n)
    BY <1>6, <1>8
  <2>2. start + n <= BlockSize
    BY <1>3, <1>6, <1>7, <1>8
  <2> QED BY <2>1, <2>2 DEF IsEmitted
<1>10. /\ fragments' \in Seq(Fragment) /\ Len(fragments') = Len(fragments) + 1
       /\ fragments'[Len(fragments) + 1] = x
       /\ \A id \in 1..Len(fragments) : fragments'[id] = fragments[id]
       /\ IsAppended(fragments', fragments, x)
  <2>1. IsAppended(fragments', fragments, x)
    BY <1>3, <1>6, AppendIs
  <2>2. fragments' \in Seq(Fragment)
    BY <1>3, <1>6
  <2> QED BY <2>1, <2>2 DEF IsAppended
<1>11. /\ writer'.begin = FALSE /\ writer'.blockOffset = start + n
       /\ writer'.left = IF x.length = writer.left THEN -1 ELSE writer.left - x.length
  <2>1. writer' = [left        |-> IF x.length = writer.left \/ fails THEN -1
                                   ELSE writer.left - x.length,
                   begin       |-> FALSE,
                   blockOffset |-> start + HeaderSize + x.length]
    BY <1>1 DEF Emits
  <2>2. start + HeaderSize + x.length = start + n
    BY <1>3, <1>6, <1>7, <1>8
  <2> QED BY <1>5, <2>1, <2>2
<1>12. /\ BlocksAreFilled(file, fragments) /\ RecordsAreNumbered(fragments)
       /\ NothingIsMissing /\ SyncedIsThere(file, fragments)
       /\ NothingIsLost(file, fragments, reader)
  BY <1>5 DEF NoFailureInvariant
<1>13. /\ writer.blockOffset <= Len(file) /\ Boundary(Len(file) - writer.blockOffset)
       /\ AllAreThere(file, fragments)
       /\ Len(fragments) = 0 => records = 1 /\ writer.begin
       /\ Len(fragments) > 0 =>
            /\ fragments[Len(fragments)].type \in Closing <=> writer.begin
            /\ writer.begin => fragments[Len(fragments)].record = records - 1
  BY <1>2, <1>12 DEF NothingIsMissing, AllAreThere
<1>14. PICK base \in Nat : Len(file) + t = base + start /\ Boundary(base)
  <2>1. PICK b \in Nat : b = Len(file) - writer.blockOffset /\ Boundary(b)
    <3>1. Len(file) - writer.blockOffset \in Nat
      BY <1>3, <1>13
    <3> QED BY <1>13, <3>1
  <2>2. CASE t = 0 /\ start = writer.blockOffset
    <3>1. Len(file) + t = b + start
      BY <1>3, <2>1, <2>2
    <3> QED BY <2>1, <3>1
  <2>3. CASE t = BlockSize - writer.blockOffset /\ start = 0
    <3>1. b + BlockSize \in Nat
      BY <1>3
    <3>2. Boundary(b + BlockSize)
      BY <2>1, Boundaries
    <3>3. Len(file) + t = b + BlockSize + start
      BY <1>3, <2>1, <2>3
    <3> QED BY <3>1, <3>2, <3>3
  <2> QED BY <1>1, <2>2, <2>3 DEF Emits
<1>15. t = 0 \/ (start = 0 /\ t < HeaderSize)
  BY <1>1 DEF Emits
<1>16. /\ Bytes(fragments', Len(fragments) + 1) = n
       /\ \A k \in 1..Len(fragments) : Bytes(fragments', k) = Bytes(fragments, k)
  BY <1>8, <1>10 DEF Bytes
<1>17. BlocksAreFilled(file', fragments') /\ AllAreThere(file', fragments')
  <2>1. start <= Len(file) + t
    BY <1>3, <1>6, <1>9, <1>14
  <2>2. /\ Len(file) \in Nat /\ AreTyped(fragments) /\ BytesAreInOrder(file, fragments)
        /\ BlocksAreFilled(file, fragments) /\ AllAreThere(file, fragments)
        /\ Len(fragments') = Len(fragments) + 1
        /\ BlockSize \in Nat /\ HeaderSize \in Nat /\ HeaderSize <= BlockSize
    BY <1>3, <1>10, <1>12, <1>13
  <2>3. BlocksAreFilled(h, fragments') /\ AllAreThere(h, fragments')
    <3>1. /\ start \in Nat /\ start <= Len(file) + t /\ n >= 1 /\ start + n <= BlockSize
          /\ IsEmitted(h, file, t, Len(fragments) + 1, n)
      BY <1>6, <1>8, <1>9, <2>1
    <3> QED BY <1>14, <1>15, <1>16, <2>2, <3>1, BlocksEmitted
  <2> QED BY <1>5, <2>3
<1>18. RecordsAreNumbered(fragments')
  <2>1. Len(fragments) = 0 => x.type \in Opening /\ x.record = 1
    BY <1>6, <1>13
  <2>2. Len(fragments) > 0 =>
          /\ x.type \in Opening <=> fragments[Len(fragments)].type \in Closing
          /\ x.type \in Opening => x.record = fragments[Len(fragments)].record + 1
    <3>1. records = (records - 1) + 1
      BY <1>3
    <3> QED BY <1>6, <1>13, <3>1
  <2> QED BY <1>10, <1>12, <2>1, <2>2, NumberedOnwards
<1>19. NothingIsMissing'
  <2>1. PICK l \in Nat : l = Len(fragments') /\ l > 0 /\ fragments'[l] = x
    BY <1>3, <1>10
  <2>2. x.type \in Closing <=> Resting'
    <3>1. x.length # writer.left => writer.left - x.length \in Nat
      BY <1>4, <1>6, <1>7
    <3> QED BY <1>6, <1>11, <3>1 DEF Resting
  <2>3. writer'.blockOffset <= Len(file') /\ Boundary(Len(file') - writer'.blockOffset)
    <3>1. Len(h) = base + start + n /\ start \in Nat
      <4>1. Len(file) \in Nat /\ t \in Nat /\ Len(h) = Len(file) + t + n /\ start \in Nat
        BY <1>3, <1>6, <1>9
      <4> QED BY <1>14, <4>1
    <3>2. Len(file') = base + start + n /\ writer'.blockOffset = start + n
      BY <1>5, <1>11, <3>1
    <3>3. writer'.blockOffset <= Len(file') /\ Len(file') - writer'.blockOffset = base
      BY <3>1, <3>2
    <3> QED BY <1>14, <3>3
  <2>4. \A id \in 1..Len(fragments') :
          \E p \in 1..Len(file') : file'[p] = <<id, Bytes(fragments', id)>>
    BY <1>17 DEF AllAreThere
  <2>5. /\ Len(fragments') # 0
        /\ fragments'[Len(fragments')].type \in Closing <=> Resting' \/ writer'.begin
    BY <1>11, <2>1, <2>2
  <2>6. fragments'[Len(fragments')].record =
          IF ~Resting' /\ writer'.begin THEN records' - 1 ELSE records'
    BY <1>2, <1>6, <1>11, <2>1
  <2> QED BY <2>3, <2>4, <2>5, <2>6 DEF NothingIsMissing
<1>20. SyncedIsThere(file, fragments)'
  <2> SUFFICES ASSUME durable.records > 0
               PROVE  \E id \in 1..Len(fragments') :
                        /\ fragments'[id].record = durable.records
                        /\ fragments'[id].type \in Closing
                        /\ \E e \in 1..durable.bytes : file'[e] = <<id, Bytes(fragments', id)>>
    BY <1>2 DEF SyncedIsThere
  <2>1. PICK id \in 1..Len(fragments) :
          /\ fragments[id].record = durable.records /\ fragments[id].type \in Closing
          /\ \E e \in 1..durable.bytes : file[e] = <<id, Bytes(fragments, id)>>
    BY <1>12 DEF SyncedIsThere
  <2>2. PICK e \in 1..durable.bytes : file[e] = <<id, Bytes(fragments, id)>>
    BY <2>1
  <2>3. e \in 1..Len(file) /\ id \in 1..Len(fragments')
    BY <1>3, <1>10
  <2>4. file'[e] = <<id, Bytes(fragments', id)>>
    BY <1>5, <1>9, <1>16, <2>2, <2>3
  <2> QED BY <1>10, <2>1, <2>3, <2>4
<1>21. NothingIsLost(file', fragments', reader') /\ reader'.state # "ended"
  <2>1. /\ reader.state = "waits" /\ reader.at = 0 /\ reader.end = 0 /\ ~reader.inFragmented
        /\ reader.returned = <<>> /\ ~reader.corruption
    BY <1>2, <1>5, WhileWriting
  <2>2. /\ Len(file') \in Nat /\ Len(fragments') \in Nat
        /\ \A p \in 1..Len(file') : file'[p][1] \in Nat
    <3>1. h \in Seq((0..(Len(fragments) + 1)) \X (0..BlockSize))
      BY <1>1 DEF Emits
    <3> QED BY <1>3, <1>5, <1>10, <3>1
  <2>3. NothingIsLost(file', fragments', reader)
    BY <2>1, <2>2, NothingReadYet
  <2> QED BY <1>2, <2>1, <2>3
<1> QED BY <1>17, <1>18, <1>19, <1>20, <1>21 DEF NoFailureInvariant

\* A crash takes no more than what was written behind the last Sync.
LEMMA CrashLoses ==
  ASSUME LogInvariant, NoFailureInvariant, Crash
  PROVE  NoFailureInvariant'
<1>1. /\ UNCHANGED <<fragments, records, writer, durable, failures>> /\ Writing
      /\ reader' = [reader EXCEPT !.state = "reads"]
  BY DEF Crash
<1> SUFFICES ASSUME failures = 0 PROVE NoFailureInvariant'
  BY <1>1 DEF NoFailureInvariant
<1>2. /\ file \in Seq(Nat \X Nat) /\ Len(file) \in Nat /\ Len(fragments) \in Nat
      /\ AreTyped(fragments) /\ BytesAreInOrder(file, fragments)
      /\ durable.bytes \in Nat /\ durable.bytes <= Len(file)
  BY LogIs
<1>3. PICK n \in durable.bytes..Len(file) : file' = SubSeq(file, 1, n)
  BY DEF Crash
<1>4. /\ file' \in Seq(Nat \X Nat) /\ Len(file') = n /\ n \in Nat /\ n <= Len(file)
      /\ \A p \in 1..n : file'[p] = file[p]
  BY <1>2, <1>3
<1>5. /\ BlocksAreFilled(file, fragments) /\ RecordsAreNumbered(fragments)
      /\ SyncedIsThere(file, fragments)
  BY DEF NoFailureInvariant
<1>6. BlocksAreFilled(file', fragments)
  <2>1. /\ Len(file') \in Nat /\ Len(file') <= Len(file)
        /\ \A p \in 1..Len(file') : file'[p] = file[p]
    BY <1>4
  <2> QED BY <1>2, <1>5, <2>1, BlocksKept
<1>7. SyncedIsThere(file, fragments)'
  <2>1. \A e \in 1..durable.bytes : file'[e] = file[e]
    BY <1>2, <1>3, <1>4
  <2> QED BY <1>1, <1>5, <2>1 DEF SyncedIsThere
<1>8. /\ reader \in ReaderType /\ reader.at = 0 /\ reader.end = 0 /\ ~reader.inFragmented
      /\ reader.returned = <<>> /\ ~reader.corruption
  BY <1>1, WhileWriting
<1>9. /\ reader'.at = 0 /\ reader'.end = 0 /\ ~reader'.inFragmented
      /\ reader'.returned = <<>> /\ ~reader'.corruption /\ reader'.state = "reads"
  BY <1>1, <1>8 DEF ReaderType
<1>10. NothingIsLost(file', fragments, reader')
  <2>1. Len(file') \in Nat /\ \A p \in 1..Len(file') : file'[p][1] \in Nat
    BY <1>4
  <2> QED BY <1>2, <1>9, <2>1, NothingReadYet
<1>11. NothingIsMissing'
  BY <1>9 DEF NothingIsMissing, Writing
<1> QED BY <1>1, <1>5, <1>6, <1>7, <1>9, <1>10, <1>11 DEF NoFailureInvariant

\* No step loses anything.
LEMMA NextLoses == LogInvariant /\ NoFailureInvariant /\ [LogNext]_logVars => NoFailureInvariant'
<1> SUFFICES ASSUME LogInvariant, NoFailureInvariant, [LogNext]_logVars
             PROVE  NoFailureInvariant'
  OBVIOUS
<1>1. CASE \E size \in Sizes : AddRecord(size)
  BY <1>1, AddRecordLoses
<1>2. CASE \E fails \in BOOLEAN : EmitPhysicalRecord(fails)
  BY <1>2, EmitLoses
<1>3. CASE Sync
  BY <1>3, SyncLoses
<1>4. CASE Crash
  BY <1>4, CrashLoses
<1>5. CASE ReadPhysicalRecord
  BY <1>5, ReadLoses
<1>6. CASE UNCHANGED logVars
  BY <1>6 DEF logVars, NoFailureInvariant, NothingIsMissing, SyncedIsThere, Writing, Resting
<1> QED BY <1>1, <1>2, <1>3, <1>4, <1>5, <1>6 DEF LogNext

\* And at the end the records synced are among those returned.
LEMMA NothingLostIsRead == NoFailureInvariant /\ LogTypeOK => LogIsRead
<1> SUFFICES ASSUME NoFailureInvariant, LogTypeOK, reader.state = "ended", failures = 0
             PROVE  /\ ~reader.corruption
                    /\ \A i \in DOMAIN reader.returned : RecordOf(reader.returned[i]) = i
                    /\ durable.records <= Len(reader.returned)
  BY DEF LogIsRead
<1>1. NothingIsLost(file, fragments, reader) /\ durable.records <= Len(reader.returned)
  BY DEF NoFailureInvariant
<1>2. DOMAIN reader.returned = 1..Len(reader.returned)
  <2>1. reader.returned \in Seq(Seq(Nat))
    BY DEF LogTypeOK
  <2> QED BY <2>1
<1> QED BY <1>1, <1>2 DEF NothingIsLost, RecordOf

\* If no append failed, a crash loses no record that was synced: the reader returns
\* the first, the second and so on, without a gap, up to the last one synced or
\* beyond, and reports no corruption.
THEOREM LogStaysReadable == LogSpec => []LogIsRead
<1>1. LogSpec => []NoFailureInvariant
  BY LogInvariance, NothingIsLostAtFirst, NextLoses, PTL DEF LogSpec
<1>2. LogInvariant /\ NoFailureInvariant => LogIsRead
  BY NothingLostIsRead DEF LogInvariant
<1> QED BY <1>1, <1>2, LogInvariance, PTL

==============================================================================
