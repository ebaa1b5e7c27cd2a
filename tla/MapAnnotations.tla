---------------------------- MODULE MapAnnotations ----------------------------
(***************************************************************************)
(* The pins of MapViewController: the observers it adds to users/ in the   *)
(* Firebase database, the images it downloads, and the annotations it puts *)
(* on the map when they arrive.                                            *)
(*                                                                         *)
(* Firebase tells its observers of changes in order, through blocks of the *)
(* main queue; a download ends in its own time and queues the block that   *)
(* shows the pin.  The handler of an event and the pin it asks for are     *)
(* therefore two steps with anything in between.                           *)
(***************************************************************************)
EXTENDS Integers, FiniteSets, SequencesExt

CONSTANTS
  Users,         \* the children of users/
  Spots,         \* the places a user can be shown at
  NoLocation,    \* latitude or longitude missing, or no annotation
  Absent,        \* no such child
  Stranger,      \* somebody on Twitter who does not use the app
  MaxQueue,      \* bound on the blocks waiting in the main queue
  MaxDownloads,  \* bound on the downloads in flight for one user and spot
  MaxObservers   \* bound on the ChildAdded observers, hence on filter changes

Record == [avatar : BOOLEAN, location : Spots \cup {NoLocation}]

ASSUME ValuesAssumption ==
  NoLocation \notin Spots /\ Absent \notin Record /\ Stranger \notin Users
ASSUME UsersAssumption == IsFiniteSet(Users)
ASSUME BoundsAssumption ==
  MaxQueue \in Nat /\ MaxDownloads \in Nat /\ MaxObservers \in Nat \ {0}

VARIABLES
  records,       \* users/ as this instance has been told
  filter,        \* DDFTwitterFriendFilter
  friends,       \* DDFTwitterFriends, whom one follows; never empty once set up
  observers,     \* how many ChildAdded observers there are: none is ever removed
  mainQueue,     \* events and finished downloads, not yet handled
  downloads,     \* how many images are being downloaded, by user and location
  tracked,       \* userAnnotations: where the user's annotation is on the map
  stray,         \* annotations on the map that userAnnotations has lost
  late           \* history: users on their way when the filter changed last

vars ==
  <<records, filter, friends, observers, mainQueue, downloads, tracked, stray, late>>

Block == [kind : {"added", "changed", "marker"}, user : Users, record : Record]
           \cup [kind : {"removed"}, user : Users, record : {Absent}]

TypeOK ==
  /\ records \in [Users -> Record \cup {Absent}]
  /\ filter \in BOOLEAN
  /\ friends \in SUBSET (Users \cup {Stranger})
  /\ observers \in 1..MaxObservers
  /\ mainQueue \in Seq(Block)
  /\ downloads \in [Users -> [Spots -> 0..MaxDownloads]]
  /\ tracked \in [Users -> Spots \cup {NoLocation}]
  /\ stray \in SUBSET (Users \X Spots)
  /\ late \in SUBSET Users

Event(kind, u, record) == [kind |-> kind, user |-> u, record |-> record]

\* Mutant: no guard on children that do not exist.
InitialEventsOfAll(children) ==
  LET all == SetToSeq(Users)
  IN  [i \in DOMAIN all |-> Event("added", all[i], children[all[i]])]

\* What a new observer is told first: every child there is.
InitialEvents(children) ==
  LET existing == SetToSeq({u \in Users : children[u] # Absent})
  IN  [i \in DOMAIN existing |-> Event("added", existing[i], children[existing[i]])]

\* viewDidLoad has run; the settings are those of an earlier process.
Init ==
  /\ records \in [Users -> Record \cup {Absent}]
  /\ filter \in BOOLEAN
  /\ friends \in SUBSET (Users \cup {Stranger})
  /\ filter => friends # {}
  /\ observers = 1
  /\ mainQueue = InitialEvents(records)
  /\ downloads = [u \in Users |-> [spot \in Spots |-> 0]]
  /\ tracked = [u \in Users |-> NoLocation]
  /\ stray = {}
  /\ late = {}

------------------------------------------------------------------------------
(***************************************************************************)
(* Firebase tells of a change, also of one in another field of the record. *)
(***************************************************************************)
Enqueue(blocks) ==
  /\ Len(mainQueue) + Len(blocks) <= MaxQueue
  /\ mainQueue' = mainQueue \o blocks

RecordWritten(u, record) ==
  /\ records' = [records EXCEPT ![u] = record]
  /\ Enqueue(IF records[u] = Absent
             THEN [i \in 1..observers |-> Event("added", u, record)]
             ELSE <<Event("changed", u, record)>>)
  /\ UNCHANGED <<filter, friends, observers, downloads, tracked, stray, late>>

RecordRemoved(u) ==
  /\ records[u] # Absent
  /\ records' = [records EXCEPT ![u] = Absent]
  /\ Enqueue(<<Event("removed", u, Absent)>>)
  /\ UNCHANGED <<filter, friends, observers, downloads, tracked, stray, late>>

------------------------------------------------------------------------------
(***************************************************************************)
(* The blocks of the main queue.                                           *)
(***************************************************************************)
\* Mutant: the filter is not asked.
VisibleToAll(u, record) == record.avatar /\ record.location # NoLocation

Visible(u, record) ==
  /\ record.avatar /\ record.location # NoLocation
  /\ filter => u \in friends

\* addUserMarker: a second call finds no annotation until a download has ended.
AddUserMarker(u, record) ==
  IF tracked[u] # NoLocation \/ ~Visible(u, record)
  THEN UNCHANGED downloads
  ELSE /\ downloads[u][record.location] < MaxDownloads
       /\ downloads' = [downloads EXCEPT ![u][record.location] = @ + 1]

Handle(kinds) ==
  /\ mainQueue # <<>>
  /\ Head(mainQueue).kind \in kinds
  /\ mainQueue' = Tail(mainQueue)
  /\ UNCHANGED <<records, filter, friends, observers, late>>

ChildAdded ==
  /\ Handle({"added"})
  /\ AddUserMarker(Head(mainQueue).user, Head(mainQueue).record)
  /\ UNCHANGED <<tracked, stray>>

\* Mutant: an annotation that exists is left where it is.
ChildChangedKeepsPlace ==
  /\ Handle({"changed"})
  /\ LET u == Head(mainQueue).user  record == Head(mainQueue).record
     IN  IF record.location = NoLocation
         THEN tracked' = [tracked EXCEPT ![u] = NoLocation] /\ UNCHANGED downloads
         ELSE AddUserMarker(u, record) /\ UNCHANGED tracked
  /\ UNCHANGED stray

\* Mutant: a hidden user keeps the annotation.
ChildChangedNeverHides ==
  /\ Handle({"changed"})
  /\ LET u == Head(mainQueue).user  record == Head(mainQueue).record
     IN  IF tracked[u] # NoLocation /\ record.location # NoLocation
         THEN tracked' = [tracked EXCEPT ![u] = record.location] /\ UNCHANGED downloads
         ELSE AddUserMarker(u, record) /\ UNCHANGED tracked
  /\ UNCHANGED stray

\* An annotation is moved, whatever the filter says by now.
ChildChanged ==
  /\ Handle({"changed"})
  /\ LET u == Head(mainQueue).user  record == Head(mainQueue).record
     IN  IF record.location = NoLocation \/ tracked[u] # NoLocation
         THEN tracked' = [tracked EXCEPT ![u] = record.location] /\ UNCHANGED downloads
         ELSE AddUserMarker(u, record) /\ UNCHANGED tracked
  /\ UNCHANGED stray

ChildRemoved ==
  /\ Handle({"removed"})
  /\ tracked' = [tracked EXCEPT ![Head(mainQueue).user] = NoLocation]
  /\ UNCHANGED <<downloads, stray>>

\* The block of a finished download asks nothing: not whether the user is
\* still shown there, nor whether there is an annotation to be replaced.
MarkerReady ==
  /\ Handle({"marker"})
  /\ LET u == Head(mainQueue).user
     IN  /\ tracked' = [tracked EXCEPT ![u] = Head(mainQueue).record.location]
         /\ stray' = IF tracked[u] = NoLocation THEN stray ELSE stray \cup {<<u, tracked[u]>>}
  /\ UNCHANGED downloads

------------------------------------------------------------------------------
Downloaded(u, spot) ==
  /\ downloads[u][spot] > 0
  /\ downloads' = [downloads EXCEPT ![u][spot] = @ - 1]
  /\ UNCHANGED <<records, filter, friends, observers, tracked, stray, late>>

DownloadSucceeded(u, spot) ==
  /\ Downloaded(u, spot)
  /\ Enqueue(<<Event("marker", u, [avatar |-> TRUE, location |-> spot])>>)

DownloadFailed(u, spot) == Downloaded(u, spot) /\ UNCHANGED mainQueue

\* An image asked for, or arrived and not shown yet.
OnTheWay(u) ==
  \/ \E spot \in Spots : downloads[u][spot] > 0
  \/ \E i \in DOMAIN mainQueue : mainQueue[i].kind = "marker" /\ mainQueue[i].user = u

\* fetchUsers, on every change of the filter: one observer more.
FetchUsers ==
  /\ observers < MaxObservers
  /\ observers' = observers + 1
  /\ tracked' = [u \in Users |-> NoLocation]
  /\ stray' = {}
  /\ late' = {u \in Users : OnTheWay(u)}
  /\ Enqueue(InitialEvents(records))
  /\ UNCHANGED <<records, downloads>>

FilterSetUp(ids) ==
  /\ ids # {}
  /\ filter' = TRUE /\ friends' = ids
  /\ FetchUsers

FilterToggled ==
  /\ friends # {}
  /\ filter' = ~filter
  /\ UNCHANGED friends
  /\ FetchUsers

------------------------------------------------------------------------------
Next ==
  \/ \E u \in Users, record \in Record : RecordWritten(u, record)
  \/ \E u \in Users : RecordRemoved(u)
  \/ ChildAdded \/ ChildChanged \/ ChildRemoved \/ MarkerReady
  \/ \E u \in Users, spot \in Spots : DownloadSucceeded(u, spot) \/ DownloadFailed(u, spot)
  \/ \E ids \in SUBSET (Users \cup {Stranger}) : FilterSetUp(ids)
  \/ FilterToggled

Spec == Init /\ [][Next]_vars

\* The main queue is served, downloads end, and do not fail for ever.
Fairness ==
  /\ SF_vars(ChildAdded \/ ChildChanged \/ ChildRemoved \/ MarkerReady)
  /\ \A u \in Users, spot \in Spots : SF_vars(DownloadSucceeded(u, spot))

FairSpec == Spec /\ Fairness

------------------------------------------------------------------------------
(***************************************************************************)
(* Properties.                                                             *)
(***************************************************************************)

\* The filter holds but for the images on their way when it changed: nobody
\* else's annotation is on the map while the filter leaves them out, whatever
\* was added, moved or asked for under an earlier filter (addUserMarker).
OnTheMap(u) == tracked[u] # NoLocation \/ \E spot \in Spots : <<u, spot>> \in stray

FilterHolds ==
  filter => \A u \in Users : OnTheMap(u) => u \in friends \cup late

\* A user who shares writes the record again and again (storeLocation).
KeepsWriting(u) == []<><<RecordWritten(u, records[u])>>_vars

\* A user who stays at one place, and keeps saying so, ends up with the
\* annotation of userAnnotations there, through late and failed downloads.
StaysAt(u, spot) ==
  /\ records[u] = [avatar |-> TRUE, location |-> spot]
  /\ filter => u \in friends

SharedUsersAreTracked ==
  \A u \in Users, spot \in Spots :
    <>[]StaysAt(u, spot) /\ KeepsWriting(u) => <>[](tracked[u] = spot)

\* A user who hides, and whose record changes now and then in other fields,
\* ends up without an annotation in userAnnotations.
IsHidden(u) == records[u] # Absent /\ records[u].location = NoLocation

HiddenUsersAreDropped ==
  \A u \in Users : <>[]IsHidden(u) /\ KeepsWriting(u) => <>[](tracked[u] = NoLocation)

(***************************************************************************)
(* What the code says and does not do.                                     *)
(***************************************************************************)

\* "Could be that lat/long has also been removed to hide location"
\* (viewDidLoad): once everything is handled, no hidden user is on the map.
Quiet == mainQueue = <<>> /\ \A u \in Users : ~OnTheWay(u)

HiddenUsersAreNotShown ==
  Quiet => \A u \in Users : IsHidden(u) => ~OnTheMap(u)
==============================================================================
