-------------------------- MODULE MapAnnotationsProofs --------------------------
(***************************************************************************)
(* Theorems about MapAnnotations, for every finite set of users and every  *)
(* bound: types, and what the Twitter filter does keep off the map.        *)
(***************************************************************************)
EXTENDS MapAnnotations, FiniteSetTheorems, TLAPS

\* FilterHolds is about the map.  What keeps it is about the images too: none
\* is on its way for a user the filter leaves out, unless it was at the change.
LeftOut(u) == filter /\ u \notin friends \cup late

FilterInv == \A u \in Users : LeftOut(u) => ~OnTheMap(u) /\ ~OnTheWay(u)

IInv == TypeOK /\ FilterInv

------------------------------------------------------------------------------
(***************************************************************************)
(* Blocks.                                                                 *)
(***************************************************************************)
LEMMA EventIsBlock ==
  ASSUME NEW kind \in {"added", "changed", "marker"}, NEW u \in Users, NEW record \in Record
  PROVE  Event(kind, u, record) \in Block
BY DEF Event, Block

\* The kinds of blocks, and what each carries.
LEMMA BlockParts ==
  ASSUME NEW b \in Block
  PROVE  /\ b.user \in Users
         /\ b.kind \in {"added", "changed", "marker"} => b.record \in Record
BY DEF Block

\* A set that is finite has a sequence of its elements.
LEMMA SetToSeqType ==
  ASSUME NEW S, IsFiniteSet(S)
  PROVE  SetToSeq(S) \in Seq(S)
<1>1. Cardinality(S) \in Nat /\ ExistsBijection(1..Cardinality(S), S)
  BY FS_CardinalityType
<1>2. \E f \in [1..Cardinality(S) -> S] : IsInjective(f)
  BY <1>1 DEF ExistsBijection, Bijection, Injection
<1>3. SetToSeq(S) \in [1..Cardinality(S) -> S]  BY <1>2 DEF SetToSeq
<1> QED  BY <1>1, <1>3

\* A new observer is told of children that exist, and of nothing else.
LEMMA InitialEventsType ==
  ASSUME NEW children \in [Users -> Record \cup {Absent}]
  PROVE  /\ InitialEvents(children) \in Seq(Block)
         /\ \A i \in DOMAIN InitialEvents(children) : InitialEvents(children)[i].kind = "added"
<1> DEFINE existing == SetToSeq({u \in Users : children[u] # Absent})
<1>1. existing \in Seq({u \in Users : children[u] # Absent})
  <2>1. IsFiniteSet({u \in Users : children[u] # Absent})
    BY UsersAssumption, FS_Subset
  <2> QED  BY <2>1, SetToSeqType
<1>2. InitialEvents(children)
        = [i \in DOMAIN existing |-> Event("added", existing[i], children[existing[i]])]
  BY DEF InitialEvents
<1> HIDE DEF existing
<1>3. Len(existing) \in Nat /\ DOMAIN existing = 1..Len(existing)  BY <1>1
<1>4. \A i \in DOMAIN existing :
        existing[i] \in Users /\ children[existing[i]] \in Record
  BY <1>1, <1>3
<1>5. \A i \in DOMAIN existing :
        Event("added", existing[i], children[existing[i]]) \in Block
  BY <1>4, EventIsBlock
<1> QED  BY <1>2, <1>3, <1>5 DEF Event

------------------------------------------------------------------------------
(***************************************************************************)
(* Steps.                                                                  *)
(***************************************************************************)
LEMMA InitInv == Init => IInv
<1> SUFFICES ASSUME Init PROVE IInv  OBVIOUS
<1> USE DEF Init
<1>1. /\ mainQueue \in Seq(Block)
      /\ \A i \in DOMAIN mainQueue : mainQueue[i].kind = "added"
  BY InitialEventsType
<1>2. TypeOK
  BY <1>1, BoundsAssumption, ValuesAssumption DEF TypeOK
<1>3. \A u \in Users : ~OnTheMap(u) /\ ~OnTheWay(u)
  BY <1>1, ValuesAssumption DEF OnTheMap, OnTheWay
<1> QED  BY <1>2, <1>3 DEF IInv, FilterInv

\* A step that keeps the filter, its friends and the excused, and puts nobody
\* on the map or on the way whom the filter leaves out.
LEMMA SameFilter ==
  ASSUME FilterInv, UNCHANGED <<filter, friends, late>>,
         \A u \in Users : LeftOut(u) /\ ~OnTheMap(u) /\ ~OnTheWay(u)
                            => ~OnTheMap(u)' /\ ~OnTheWay(u)'
  PROVE  FilterInv'
BY DEF FilterInv, LeftOut

\* Appending typed blocks keeps the queue typed.
LEMMA AppendToQueue ==
  ASSUME NEW S, NEW q \in Seq(S), NEW e \in S
  PROVE  /\ q \o <<e>> \in Seq(S)
         /\ \A i \in DOMAIN (q \o <<e>>) :
              (i \in DOMAIN q /\ (q \o <<e>>)[i] = q[i]) \/ (q \o <<e>>)[i] = e
OBVIOUS

\* Blocks other than markers bring nobody nearer.
LEMMA NoMarkerQueued ==
  ASSUME TypeOK, NEW blocks \in Seq(Block), Enqueue(blocks), UNCHANGED downloads,
         \A i \in DOMAIN blocks : blocks[i].kind # "marker",
         NEW u \in Users, ~OnTheWay(u)
  PROVE  ~OnTheWay(u)'
<1>1. mainQueue' = mainQueue \o blocks /\ mainQueue \in Seq(Block)
  BY DEF Enqueue, TypeOK
<1>2. \A i \in DOMAIN mainQueue' :
        \/ i \in DOMAIN mainQueue /\ mainQueue'[i] = mainQueue[i]
        \/ i - Len(mainQueue) \in DOMAIN blocks
           /\ mainQueue'[i] = blocks[i - Len(mainQueue)]
  BY <1>1
<1> QED  BY <1>2 DEF OnTheWay

\* Nor does running the block at the head of the queue.
LEMMA FewerBlocks ==
  ASSUME TypeOK, NEW kinds, Handle(kinds)
  PROVE  /\ Head(mainQueue) \in Block
         /\ mainQueue' \in Seq(Block)
         /\ \A i \in DOMAIN mainQueue' :
              i + 1 \in DOMAIN mainQueue /\ mainQueue'[i] = mainQueue[i + 1]
         /\ 1 \in DOMAIN mainQueue /\ Head(mainQueue) = mainQueue[1]
BY DEF Handle, TypeOK

\* What addUserMarker asks for passes the filter.
LEMMA AddsVisible ==
  ASSUME TypeOK, NEW u \in Users, NEW record \in Record, AddUserMarker(u, record)
  PROVE  /\ downloads' \in [Users -> [Spots -> 0..MaxDownloads]]
         /\ \A v \in Users, spot \in Spots :
              downloads'[v][spot] > 0 => downloads[v][spot] > 0 \/ (v = u /\ (filter => u \in friends))
<1>1. CASE tracked[u] # NoLocation \/ ~Visible(u, record)
  BY <1>1 DEF AddUserMarker, TypeOK
<1>2. CASE ~(tracked[u] # NoLocation \/ ~Visible(u, record))
  <2>1. record.location \in Spots /\ (filter => u \in friends)
    BY <1>2 DEF Visible, Record
  <2>2. /\ downloads[u][record.location] < MaxDownloads
        /\ downloads[u][record.location] \in 0..MaxDownloads
        /\ downloads' = [downloads EXCEPT ![u][record.location] = @ + 1]
    BY <1>2, <2>1 DEF AddUserMarker, TypeOK
  <2>3. downloads[u][record.location] + 1 \in 0..MaxDownloads
    BY <2>2, BoundsAssumption
  <2> QED  BY <2>1, <2>2, <2>3 DEF TypeOK
<1> QED  BY <1>1, <1>2

------------------------------------------------------------------------------
(***************************************************************************)
(* Firebase's events.                                                      *)
(***************************************************************************)
LEMMA EventSteps ==
  ASSUME IInv,
         (\E u \in Users, record \in Record : RecordWritten(u, record))
           \/ \E u \in Users : RecordRemoved(u)
  PROVE  IInv'
<1> USE DEF IInv
<1>1. PICK blocks \in Seq(Block) :
        /\ records' \in [Users -> Record \cup {Absent}]
        /\ Enqueue(blocks)
        /\ \A i \in DOMAIN blocks : blocks[i].kind # "marker"
        /\ UNCHANGED <<filter, friends, observers, downloads, tracked, stray, late>>
  <2>1. ASSUME NEW u \in Users, NEW record \in Record, RecordWritten(u, record)
        PROVE  \E blocks \in Seq(Block) :
                 /\ records' \in [Users -> Record \cup {Absent}]
                 /\ Enqueue(blocks)
                 /\ \A i \in DOMAIN blocks : blocks[i].kind # "marker"
                 /\ UNCHANGED <<filter, friends, observers, downloads, tracked, stray, late>>
    <3>1. observers \in Nat  BY BoundsAssumption DEF TypeOK
    <3>2. /\ [i \in 1..observers |-> Event("added", u, record)] \in Seq(Block)
          /\ <<Event("changed", u, record)>> \in Seq(Block)
      BY <2>1, <3>1, EventIsBlock
    <3>3. records' \in [Users -> Record \cup {Absent}]
      BY <2>1 DEF RecordWritten, TypeOK
    <3>4. /\ \A i \in DOMAIN [j \in 1..observers |-> Event("added", u, record)] :
               [j \in 1..observers |-> Event("added", u, record)][i].kind # "marker"
          /\ \A i \in DOMAIN <<Event("changed", u, record)>> :
               <<Event("changed", u, record)>>[i].kind # "marker"
      BY DEF Event
    <3>5. CASE records[u] = Absent
      BY <2>1, <3>2, <3>3, <3>4, <3>5 DEF RecordWritten
    <3>6. CASE records[u] # Absent
      BY <2>1, <3>2, <3>3, <3>4, <3>6 DEF RecordWritten
    <3> QED  BY <3>5, <3>6
  <2>2. ASSUME NEW u \in Users, RecordRemoved(u)
        PROVE  \E blocks \in Seq(Block) :
                 /\ records' \in [Users -> Record \cup {Absent}]
                 /\ Enqueue(blocks)
                 /\ \A i \in DOMAIN blocks : blocks[i].kind # "marker"
                 /\ UNCHANGED <<filter, friends, observers, downloads, tracked, stray, late>>
    <3>1. <<Event("removed", u, Absent)>> \in Seq(Block)  BY <2>2 DEF Event, Block
    <3>2. records' \in [Users -> Record \cup {Absent}]
      BY <2>2 DEF RecordRemoved, TypeOK
    <3>3. \A i \in DOMAIN <<Event("removed", u, Absent)>> :
            <<Event("removed", u, Absent)>>[i].kind # "marker"
      BY DEF Event
    <3> QED  BY <2>2, <3>1, <3>2, <3>3 DEF RecordRemoved
  <2> QED  BY <2>1, <2>2
<1>2. TypeOK'
  <2>1. mainQueue' \in Seq(Block)  BY <1>1 DEF Enqueue, TypeOK
  <2> QED  BY <1>1, <2>1 DEF TypeOK
<1>3. \A v \in Users : ~OnTheMap(v) /\ ~OnTheWay(v) => ~OnTheMap(v)' /\ ~OnTheWay(v)'
  BY <1>1, NoMarkerQueued DEF OnTheMap
<1> QED  BY <1>1, <1>2, <1>3, SameFilter

------------------------------------------------------------------------------
(***************************************************************************)
(* The blocks of the main queue.                                           *)
(***************************************************************************)
LEMMA AddedStep ==
  ASSUME IInv, ChildAdded PROVE IInv'
<1> USE DEF IInv
<1> DEFINE b == Head(mainQueue)
<1>1. b \in Block /\ b.kind = "added" /\ Handle({"added"})
  BY FewerBlocks DEF ChildAdded, Handle
<1>2. b.user \in Users /\ b.record \in Record  BY <1>1, BlockParts
<1>3. AddUserMarker(b.user, b.record) /\ UNCHANGED <<tracked, stray>>  BY DEF ChildAdded
<1> HIDE DEF b
<1>4. TypeOK'
  BY <1>1, <1>2, <1>3, FewerBlocks, AddsVisible DEF TypeOK, Handle
<1>5. \A v \in Users : LeftOut(v) /\ ~OnTheMap(v) /\ ~OnTheWay(v)
                          => ~OnTheMap(v)' /\ ~OnTheWay(v)'
  <2> TAKE v \in Users
  <2> HAVE LeftOut(v) /\ ~OnTheMap(v) /\ ~OnTheWay(v)
  <2>1. ~OnTheMap(v)'  BY <1>3 DEF OnTheMap
  <2>2. \A spot \in Spots : ~(downloads'[v][spot] > 0)
    BY <1>2, <1>3, AddsVisible DEF OnTheWay, LeftOut
  <2>3. ~OnTheWay(v)'  BY <1>1, <2>2, FewerBlocks DEF OnTheWay
  <2> QED  BY <2>1, <2>3
<1> QED  BY <1>1, <1>4, <1>5, SameFilter DEF Handle

\* An event of a changed record keeps the invariant.
LEMMA ChangedStep ==
  ASSUME IInv, ChildChanged PROVE IInv'
<1> USE DEF IInv
<1> DEFINE b == Head(mainQueue)
<1>1. b \in Block /\ b.kind = "changed" /\ Handle({"changed"})
  BY FewerBlocks DEF ChildChanged, Handle
<1>2. b.user \in Users /\ b.record \in Record  BY <1>1, BlockParts
<1>3. /\ UNCHANGED stray
      /\ \/ /\ b.record.location = NoLocation \/ tracked[b.user] # NoLocation
            /\ tracked' = [tracked EXCEPT ![b.user] = b.record.location]
            /\ UNCHANGED downloads
         \/ AddUserMarker(b.user, b.record) /\ UNCHANGED tracked
  BY DEF ChildChanged
<1> HIDE DEF b
<1>4. /\ downloads' \in [Users -> [Spots -> 0..MaxDownloads]]
      /\ tracked' \in [Users -> Spots \cup {NoLocation}]
  BY <1>2, <1>3, AddsVisible DEF TypeOK, Record
<1>5. TypeOK'
  BY <1>1, <1>3, <1>4, FewerBlocks DEF TypeOK, Handle
<1>6. \A v \in Users : LeftOut(v) /\ ~OnTheMap(v) /\ ~OnTheWay(v)
                          => ~OnTheMap(v)' /\ ~OnTheWay(v)'
  <2> TAKE v \in Users
  <2> HAVE LeftOut(v) /\ ~OnTheMap(v) /\ ~OnTheWay(v)
  <2>1. ~OnTheMap(v)'  BY <1>2, <1>3 DEF OnTheMap, TypeOK
  <2>2. \A spot \in Spots : ~(downloads'[v][spot] > 0)
    BY <1>2, <1>3, AddsVisible DEF OnTheWay, LeftOut
  <2>3. ~OnTheWay(v)'  BY <1>1, <2>2, FewerBlocks DEF OnTheWay
  <2> QED  BY <2>1, <2>3
<1> QED  BY <1>1, <1>5, <1>6, SameFilter DEF Handle

\* An event of a removed record keeps the invariant.
LEMMA RemovedStep ==
  ASSUME IInv, ChildRemoved PROVE IInv'
<1> USE DEF IInv
<1>1. Head(mainQueue) \in Block /\ Handle({"removed"})
  BY FewerBlocks DEF ChildRemoved
<1>2. TypeOK'
  BY <1>1, FewerBlocks, BlockParts DEF TypeOK, Handle, ChildRemoved
<1>3. \A v \in Users : ~OnTheMap(v) /\ ~OnTheWay(v) => ~OnTheMap(v)' /\ ~OnTheWay(v)'
  BY <1>1, FewerBlocks DEF OnTheMap, OnTheWay, ChildRemoved, TypeOK
<1> QED  BY <1>1, <1>2, <1>3, SameFilter DEF Handle

\* The user of a marker was on the way, hence is not one the filter leaves out.
LEMMA MarkerStep ==
  ASSUME IInv, MarkerReady PROVE IInv'
<1> USE DEF IInv
<1> DEFINE b == Head(mainQueue)
<1>1. b \in Block /\ b.kind = "marker" /\ Handle({"marker"})
  BY FewerBlocks DEF MarkerReady, Handle
<1>2. b.user \in Users /\ b.record \in Record  BY <1>1, BlockParts
<1>3. /\ tracked' = [tracked EXCEPT ![b.user] = b.record.location]
      /\ stray' = IF tracked[b.user] = NoLocation THEN stray
                  ELSE stray \cup {<<b.user, tracked[b.user]>>}
      /\ UNCHANGED downloads
  BY DEF MarkerReady
<1>4. OnTheWay(b.user)  BY <1>1, FewerBlocks DEF OnTheWay
<1> HIDE DEF b
<1>5. TypeOK'
  BY <1>1, <1>2, <1>3, FewerBlocks DEF TypeOK, Handle, Record
<1>6. \A v \in Users : LeftOut(v) /\ ~OnTheMap(v) /\ ~OnTheWay(v)
                          => ~OnTheMap(v)' /\ ~OnTheWay(v)'
  BY <1>1, <1>2, <1>3, <1>4, FewerBlocks DEF OnTheMap, OnTheWay, TypeOK
<1> QED  BY <1>1, <1>5, <1>6, SameFilter DEF Handle

------------------------------------------------------------------------------
(***************************************************************************)
(* Downloads and the filter.                                               *)
(***************************************************************************)
LEMMA DownloadStep ==
  ASSUME IInv, NEW u \in Users, NEW spot \in Spots,
         DownloadSucceeded(u, spot) \/ DownloadFailed(u, spot)
  PROVE  IInv'
<1> USE DEF IInv
<1> DEFINE block == Event("marker", u, [avatar |-> TRUE, location |-> spot])
<1>1. /\ downloads[u][spot] > 0
      /\ downloads' = [downloads EXCEPT ![u][spot] = @ - 1]
      /\ UNCHANGED <<records, filter, friends, observers, tracked, stray, late>>
  BY DEF DownloadSucceeded, DownloadFailed, Downloaded
<1>2. block \in Block /\ block.user = u
  BY EventIsBlock DEF Record, Event
<1>3. mainQueue' = mainQueue \/ mainQueue' = mainQueue \o <<block>>
  BY DEF DownloadSucceeded, DownloadFailed, Enqueue
<1> HIDE DEF block
<1>4. mainQueue \in Seq(Block)  BY DEF TypeOK
<1>5. /\ mainQueue \o <<block>> \in Seq(Block)
      /\ \A i \in DOMAIN (mainQueue \o <<block>>) :
           \/ i \in DOMAIN mainQueue /\ (mainQueue \o <<block>>)[i] = mainQueue[i]
           \/ (mainQueue \o <<block>>)[i] = block
  BY <1>2, <1>4, AppendToQueue, Zenon
<1>6. /\ mainQueue' \in Seq(Block)
      /\ \A i \in DOMAIN mainQueue' :
           (i \in DOMAIN mainQueue /\ mainQueue'[i] = mainQueue[i]) \/ mainQueue'[i] = block
  <2>1. CASE mainQueue' = mainQueue  BY <1>4, <2>1, Zenon
  <2>2. CASE mainQueue' = mainQueue \o <<block>>  BY <1>5, <2>2, Zenon
  <2> QED  BY <1>3, <2>1, <2>2
<1>7. downloads' \in [Users -> [Spots -> 0..MaxDownloads]]
  <2>1. downloads[u][spot] - 1 \in 0..MaxDownloads
    BY <1>1, BoundsAssumption DEF TypeOK
  <2> QED  BY <1>1, <2>1 DEF TypeOK
<1>8. TypeOK'  BY <1>1, <1>6, <1>7 DEF TypeOK
<1>9. \A v \in Users : ~OnTheMap(v) /\ ~OnTheWay(v) => ~OnTheMap(v)' /\ ~OnTheWay(v)'
  <2> TAKE v \in Users
  <2> HAVE ~OnTheMap(v) /\ ~OnTheWay(v)
  <2>1. v # u  BY <1>1 DEF OnTheWay
  <2>2. \A s \in Spots : ~(downloads'[v][s] > 0)
    BY <1>1, <2>1 DEF OnTheWay, TypeOK
  <2>3. ~OnTheWay(v)'  BY <1>2, <1>6, <2>1, <2>2 DEF OnTheWay
  <2> QED  BY <1>1, <2>3 DEF OnTheMap
<1> QED  BY <1>1, <1>8, <1>9, SameFilter

\* A new filter empties the map and excuses whoever is on the way.
LEMMA FilterStep ==
  ASSUME IInv, (\E ids \in SUBSET (Users \cup {Stranger}) : FilterSetUp(ids)) \/ FilterToggled
  PROVE  IInv'
<1> USE DEF IInv
<1>1. FetchUsers /\ filter' \in BOOLEAN /\ friends' \in SUBSET (Users \cup {Stranger})
  BY DEF FilterSetUp, FilterToggled, TypeOK
<1>2. /\ InitialEvents(records) \in Seq(Block)
      /\ \A i \in DOMAIN InitialEvents(records) :
           InitialEvents(records)[i].kind # "marker"
  BY InitialEventsType DEF TypeOK
<1>3. Enqueue(InitialEvents(records)) /\ UNCHANGED downloads  BY <1>1 DEF FetchUsers
<1>4. mainQueue' \in Seq(Block)  BY <1>2, <1>3 DEF Enqueue, TypeOK
<1>5. observers' \in 1..MaxObservers  BY <1>1, BoundsAssumption DEF FetchUsers, TypeOK
<1>6. TypeOK'  BY <1>1, <1>4, <1>5 DEF FetchUsers, TypeOK
<1>7. \A u \in Users : ~OnTheMap(u)'
  BY <1>1 DEF FetchUsers, OnTheMap
<1>8. \A u \in Users : u \notin late' => ~OnTheWay(u)'
  BY <1>1, <1>2, <1>3, NoMarkerQueued DEF FetchUsers
<1> QED  BY <1>6, <1>7, <1>8 DEF FilterInv, LeftOut

------------------------------------------------------------------------------
(***************************************************************************)
(* The theorems.                                                           *)
(***************************************************************************)
LEMMA NextInv == IInv /\ [Next]_vars => IInv'
<1> SUFFICES ASSUME IInv, [Next]_vars PROVE IInv'  OBVIOUS
<1>1. CASE UNCHANGED vars
  BY <1>1 DEF vars, IInv, TypeOK, FilterInv, LeftOut, OnTheMap, OnTheWay
<1>2. CASE Next
  BY <1>2, EventSteps, AddedStep, ChangedStep, RemovedStep, MarkerStep, DownloadStep,
     FilterStep DEF Next
<1> QED  BY <1>1, <1>2

\* The invariant holds in every state of every behaviour.
THEOREM Invariance == Spec => []IInv
BY InitInv, NextInv, PTL DEF Spec

\* Every variable keeps its type, whatever arrives in which order.
THEOREM TypeCorrect == Spec => []TypeOK
<1>1. IInv => TypeOK  BY DEF IInv
<1> QED  BY <1>1, Invariance, PTL

\* No annotation of somebody the filter leaves out, unless the image was on its
\* way when the filter changed.
THEOREM FilterAlwaysHolds == Spec => []FilterHolds
<1>1. IInv => FilterHolds  BY DEF IInv, FilterInv, FilterHolds, LeftOut
<1> QED  BY <1>1, Invariance, PTL
================================================================================
