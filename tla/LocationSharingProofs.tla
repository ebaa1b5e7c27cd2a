------------------------ MODULE LocationSharingProofs ------------------------
(***************************************************************************)
(* Theorems about LocationSharing, for every set of users and spots, every *)
(* bound and every geometry.                                               *)
(*                                                                         *)
(* The inductive invariant has one half per concern: the subscriptions     *)
(* (RequestInv) and the user, the database and the settings (UserInv).     *)
(***************************************************************************)
EXTENDS LocationSharing, FiniteSetTheorems, TLAPS

------------------------------------------------------------------------------
(***************************************************************************)
(* What the operations of LocationManager return and preserve.             *)
(***************************************************************************)
\* A manager the program can have: the array of requests is finite.
Live(m) == m \in Manager /\ IsFiniteSet(m.requests)

\* Accuracies are 1 to 5: among any of them, and 0, one is the largest.
LEMMA LargestExists ==
  ASSUME NEW S, S \subseteq 0..5, S # {}
  PROVE  \E a \in S : \A b \in S : b <= a
<1>1. CASE 5 \in S  BY <1>1
<1>2. CASE 5 \notin S /\ 4 \in S  BY <1>2
<1>3. CASE 5 \notin S /\ 4 \notin S /\ 3 \in S  BY <1>3
<1>4. CASE 5 \notin S /\ 4 \notin S /\ 3 \notin S /\ 2 \in S  BY <1>4
<1>5. CASE 5 \notin S /\ 4 \notin S /\ 3 \notin S /\ 2 \notin S /\ 1 \in S  BY <1>5
<1>6. CASE 5 \notin S /\ 4 \notin S /\ 3 \notin S /\ 2 \notin S /\ 1 \notin S
  <2>1. ASSUME NEW x \in S  PROVE x = 0
    <3>1. x \in {0, 1, 2, 3, 4, 5}  OBVIOUS
    <3> QED  BY <3>1, <1>6
  <2>2. PICK a \in S : a = 0  BY <2>1
  <2> QED  BY <2>1, <2>2
<1>7. QED  BY <1>1, <1>2, <1>3, <1>4, <1>5, <1>6

\* The highest accuracy asked bounds what the subscriptions ask for, and is 0
\* or asked by one of them.
LEMMA MaximumIsLargest ==
  ASSUME NEW R, R \subseteq Request
  PROVE  LET max == MaximumDesiredAccuracy(R)
             subs == OfKind(R, "subscription")
         IN  /\ max \in 0..5
             /\ \A r \in subs : r.accuracy <= max
             /\ max = 0 \/ \E r \in subs : r.accuracy = max
<1> DEFINE asked == {r.accuracy : r \in OfKind(R, "subscription")}
           S     == asked \cup {0}
<1>1. S \subseteq 0..5 /\ S # {}  BY DEF Request, OfKind
<1>2. \E a \in S : \A b \in S : b <= a  BY <1>1, LargestExists
<1>3. MaximumDesiredAccuracy(R) = CHOOSE a \in S : \A b \in asked : b <= a
  BY DEF MaximumDesiredAccuracy
<1>4. /\ MaximumDesiredAccuracy(R) \in S
      /\ \A b \in asked : b <= MaximumDesiredAccuracy(R)
  <2> HIDE DEF S
  <2>1. asked \subseteq S  BY DEF S
  <2>2. \E a \in S : \A b \in asked : b <= a  BY <1>2, <2>1
  <2> HIDE DEF asked
  <2> QED  BY <1>3, <2>2
<1>5. QED  BY <1>1, <1>4 DEF OfKind

\* Every copy of a block is a block.
LEMMA CopiesAreBlocks ==
  ASSUME NEW b \in Block, NEW n \in Nat
  PROVE  [i \in 1..n |-> b] \in Seq(Block)
<1> QED  OBVIOUS

\* Dispatching appends to the main queue and changes nothing else; a success
\* is only ever dispatched with a location.
LEMMA DispatchedFrame ==
  ASSUME NEW m, Live(m), NEW n \in Nat, NEW p,
         Succeeds(m, p) => m.location \in Spots
  PROVE  LET d == Dispatched(m, n, p)
         IN  /\ Live(d)
             /\ d.requests = m.requests /\ d.updating = m.updating
             /\ d.monitoring = m.monitoring /\ d.desired = m.desired
             /\ HardwareFollows(m) => HardwareFollows(d)
<1> DEFINE b == [kind |-> "location", location |-> m.location, ok |-> Succeeds(m, p)]
<1>1. b \in Block  BY DEF Block, Live, Manager, Succeeds
<1>2. [i \in 1..n |-> b] \in Seq(Block)  BY <1>1, CopiesAreBlocks
<1>3. m.mainQueue \o [i \in 1..n |-> b] \in Seq(Block)
  BY <1>2 DEF Live, Manager
<1>4. Dispatched(m, n, p) = [m EXCEPT !.mainQueue = m.mainQueue \o [i \in 1..n |-> b]]
  BY DEF Dispatched
<1> HIDE DEF b
<1>5. QED  BY <1>3, <1>4 DEF Live, Manager, HardwareFollows

\* Removing a request keeps CoreLocation in step with the requests that remain.
LEMMA RemovePreserves ==
  ASSUME NEW m, Live(m), NEW r \in m.requests
  PROVE  LET left == RemoveLocationRequest(m, r)
         IN  /\ Live(left)
             /\ left.requests = m.requests \ {r}
             /\ HardwareFollows(m) => HardwareFollows(left)
<1> DEFINE rest == m.requests \ {r}
           max  == MaximumDesiredAccuracy(rest)
           left == RemoveLocationRequest(m, r)
           subs == OfKind(rest, "subscription")
<1>1. r \in Request /\ rest \subseteq Request /\ m.requests \subseteq Request
  BY DEF Live, Manager
<1>2. IsFiniteSet(rest)  BY FS_RemoveElement DEF Live
<1>3. /\ max \in 0..5
      /\ \A q \in subs : q.accuracy <= max
      /\ max = 0 \/ \E q \in subs : q.accuracy = max
  BY <1>1, MaximumIsLargest
<1> HIDE DEF max
<1>4. CASE r.kind = "subscription"
  <2>1. left = [m EXCEPT !.requests = rest,
                         !.desired  = IF max = 0 THEN @ ELSE max,
                         !.updating = @ /\ subs # {}]
    BY <1>4 DEF RemoveLocationRequest, UpdateWithMaximumDesiredAccuracy, Live, Manager, max
  <2>2. Live(left) /\ left.requests = rest
    BY <2>1, <1>1, <1>2, <1>3 DEF Live, Manager
  <2>3. ASSUME HardwareFollows(m)
        PROVE  HardwareFollows(left)
    <3>1. /\ left.requests = rest
          /\ left.desired = IF max = 0 THEN m.desired ELSE max
          /\ left.updating = (m.updating /\ subs # {})
          /\ left.monitoring = m.monitoring
      BY <2>1 DEF Live, Manager
    <3>2. left.updating <=> subs # {}
      BY <3>1, <2>3, <1>1, <1>4 DEF HardwareFollows, OfKind, Live, Manager
    <3>3. \A q \in subs : q.accuracy \in 1..5
      BY <1>1 DEF OfKind, Request
    <3>4. subs # {} => /\ \A q \in subs : q.accuracy <= left.desired
                       /\ \E q \in subs : q.accuracy = left.desired
      <4>1. CASE max # 0
        BY <4>1, <3>1, <1>3
      <4>2. CASE max = 0
        <5> HIDE DEF subs, left
        <5>1. subs = {}  BY <4>2, <1>3, <3>3
        <5> QED  BY <5>1
      <4> QED  BY <4>1, <4>2
    <3>5. OfKind(rest, "significantChanges") # {} => left.monitoring
      BY <3>1, <2>3 DEF HardwareFollows, OfKind
    <3> QED  BY <3>1, <3>2, <3>4, <3>5 DEF HardwareFollows
  <2> QED  BY <2>2, <2>3
<1>5. CASE r.kind # "subscription"
  <2>1. left = [m EXCEPT !.requests   = rest,
                         !.monitoring = @ /\ OfKind(rest, "significantChanges") # {}]
    BY <1>5 DEF RemoveLocationRequest, Live, Manager
  <2>2. Live(left) /\ left.requests = rest
    BY <2>1, <1>1, <1>2 DEF Live, Manager
  <2>3. ASSUME HardwareFollows(m)
        PROVE  HardwareFollows(left)
    BY <2>1, <2>3, <1>1, <1>5 DEF HardwareFollows, OfKind, Live, Manager, Request
  <2> QED  BY <2>2, <2>3
<1>6. QED  BY <1>4, <1>5

\* Identifiers are handed out once, so a cancellation removes one request.
UniqueIDs(m) == \A q, r \in m.requests : q.id = r.id => q = r

\* Cancelling a request keeps the manager's invariants.
LEMMA CancelPreserves ==
  ASSUME NEW m, Live(m), UniqueIDs(m), NEW id
  PROVE  LET left == CancelLocationRequest(m, id)
         IN  /\ Live(left)
             /\ left.requests = {r \in m.requests : r.id # id}
             /\ HardwareFollows(m) => HardwareFollows(left)
<1>1. CASE \E r \in m.requests : r.id = id
  <2>1. PICK r \in m.requests : r = CHOOSE q \in m.requests : q.id = id
    BY <1>1
  <2>2. r.id = id /\ CancelLocationRequest(m, id) = RemoveLocationRequest(m, r)
    BY <1>1, <2>1 DEF CancelLocationRequest
  <2>3. m.requests \ {r} = {q \in m.requests : q.id # id}
    BY <2>2 DEF UniqueIDs
  <2> QED  BY <2>2, <2>3, RemovePreserves
<1>2. CASE ~\E r \in m.requests : r.id = id
  <2>1. m.requests = {q \in m.requests : q.id # id}  BY <1>2
  <2> QED  BY <1>2, <2>1 DEF CancelLocationRequest
<1>3. QED  BY <1>1, <1>2

\* A report to every subscription keeps them.
LEMMA ProcessPreserves ==
  ASSUME NEW m, Live(m), NEW p
  PROVE  LET d == ProcessLocationRequests(m, p)
         IN  /\ Live(d)
             /\ d.requests = m.requests
             /\ HardwareFollows(m) => HardwareFollows(d)
<1>1. Cardinality(m.requests) \in Nat  BY FS_CardinalityType DEF Live
<1>2. CASE m.location = NoLocation
  BY <1>2 DEF ProcessLocationRequests
<1>3. CASE m.location # NoLocation
  <2>1. m.location \in Spots  BY <1>3 DEF Live, Manager
  <2> QED  BY <1>1, <1>3, <2>1, DispatchedFrame DEF ProcessLocationRequests
<1>4. QED  BY <1>2, <1>3

\* A denied request was never among the live ones: removing it changes none of
\* them, and what CoreLocation runs still follows them.
LEMMA RefusedPreserves ==
  ASSUME NEW m, Live(m), NEW r \in Request, r \notin m.requests, HardwareFollows(m)
  PROVE  LET d == CompleteLocationRequest(m, r, "denied")
         IN  Live(d) /\ d.requests = m.requests /\ HardwareFollows(d)
<1> DEFINE max  == MaximumDesiredAccuracy(m.requests)
           left == RemoveLocationRequest(m, r)
           subs == OfKind(m.requests, "subscription")
<1>1. m.requests \ {r} = m.requests /\ m.requests \subseteq Request
  BY DEF Live, Manager
<1>2. /\ max \in 0..5
      /\ \A q \in subs : q.accuracy <= max
      /\ max = 0 \/ \E q \in subs : q.accuracy = max
  BY <1>1, MaximumIsLargest
<1> HIDE DEF max
<1>3. /\ Live(left)
      /\ left.requests = m.requests
      /\ left.updating = (m.updating /\ (r.kind = "subscription" => subs # {}))
      /\ left.monitoring = (m.monitoring /\
            (r.kind = "subscription" \/ OfKind(m.requests, "significantChanges") # {}))
      /\ left.desired = IF r.kind = "subscription" /\ max # 0 THEN max ELSE m.desired
  BY <1>1, <1>2 DEF RemoveLocationRequest, UpdateWithMaximumDesiredAccuracy, Live, Manager, max
<1>4. \A q \in subs : q.accuracy \in 1..5
  BY <1>1 DEF OfKind, Request
<1>5. subs # {} => max # 0  BY <1>2, <1>4
<1>6. HardwareFollows(left)
  <2>1. left.updating <=> subs # {}  BY <1>3 DEF HardwareFollows
  <2>2. subs # {} => /\ \A q \in subs : q.accuracy <= left.desired
                     /\ \E q \in subs : q.accuracy = left.desired
    <3>1. CASE r.kind = "subscription"  BY <3>1, <1>2, <1>3, <1>5
    <3>2. CASE r.kind # "subscription"  BY <3>2, <1>3 DEF HardwareFollows
    <3> QED  BY <3>1, <3>2
  <2>3. OfKind(m.requests, "significantChanges") # {} => left.monitoring
    BY <1>3 DEF HardwareFollows
  <2> QED  BY <1>3, <2>1, <2>2, <2>3 DEF HardwareFollows
<1>7. QED
  BY <1>3, <1>6, DispatchedFrame DEF CompleteLocationRequest, Succeeds

\* A new request starts what it needs and raises the accuracy if it must.
LEMMA AddPreserves ==
  ASSUME NEW m, Live(m), NEW r \in Request, r \notin m.requests, HardwareFollows(m), NEW p
  PROVE  LET d == AddLocationRequest(m, r, p)
         IN  /\ Live(d)
             /\ d.requests \in {m.requests, m.requests \cup {r}}
             /\ HardwareFollows(d)
<1> DEFINE max    == MaximumDesiredAccuracy(m.requests)
           wanted == IF r.accuracy > max THEN r.accuracy ELSE max
           others == OfKind(m.requests, r.kind)
           subs   == OfKind(m.requests, "subscription")
           all    == m.requests \cup {r}
           started == IF r.kind = "subscription"
                      THEN [UpdateWithMaximumDesiredAccuracy(m, wanted)
                              EXCEPT !.updating = @ \/ others = {}]
                      ELSE [m EXCEPT !.monitoring = @ \/ others = {}]
           added  == [started EXCEPT !.requests = @ \cup {r}]
<1>1. all \subseteq Request /\ m.requests \subseteq Request /\ IsFiniteSet(all)
  BY FS_AddElement DEF Live, Manager
<1>2. /\ max \in 0..5
      /\ \A q \in subs : q.accuracy <= max
      /\ max = 0 \/ \E q \in subs : q.accuracy = max
  BY <1>1, MaximumIsLargest
<1>3. /\ r.accuracy \in 0..5
      /\ r.kind \in {"subscription", "significantChanges"}
      /\ r.accuracy = 0 <=> r.kind = "significantChanges"
  BY DEF Request, Kinds
<1>4. AddLocationRequest(m, r, p) = IF p = "denied"
                                    THEN CompleteLocationRequest(m, r, p)
                                    ELSE ProcessLocationRequests(added, p)
  BY DEF AddLocationRequest
<1> HIDE DEF max
<1>5. CASE p = "denied"
  BY <1>4, <1>5, RefusedPreserves
<1>6. CASE p # "denied"
  <2>1. Live(added) /\ added.requests = all /\ HardwareFollows(added)
    <3>1. CASE r.kind = "subscription"
      <4>1. wanted \in 1..5  BY <3>1, <1>2, <1>3
      <4>9. UpdateWithMaximumDesiredAccuracy(m, wanted) = [m EXCEPT !.desired = wanted]
        BY <4>1 DEF UpdateWithMaximumDesiredAccuracy
      <4>10. added = [m EXCEPT !.requests = all, !.desired = wanted,
                               !.updating = @ \/ subs = {}]
        BY <3>1, <4>9 DEF Live, Manager
      <4> HIDE DEF added, wanted
      <4>2. Live(added) /\ added.requests = all
        <5>1. wanted \in 0..5  BY <4>1
        <5>2. (m.updating \/ subs = {}) \in BOOLEAN  OBVIOUS
        <5> HIDE DEF subs, all
        <5> QED  BY <5>1, <5>2, <4>10, <1>1 DEF Live, Manager
      <4>3. OfKind(all, "subscription") = subs \cup {r}  BY <3>1 DEF OfKind
      <4>4. OfKind(all, "significantChanges") = OfKind(m.requests, "significantChanges")
        BY <3>1 DEF OfKind
      <4>5. \A q \in subs \cup {r} : q.accuracy \in 0..5 /\ q.accuracy <= wanted
        BY <1>1, <1>2, <1>3 DEF OfKind, Request, wanted
      <4>6. \E q \in subs \cup {r} : q.accuracy = wanted
        BY <1>2, <1>3, <4>1 DEF wanted
      <4>7. /\ added.updating = (m.updating \/ subs = {})
            /\ added.desired = wanted /\ added.monitoring = m.monitoring
        BY <4>1, <4>10 DEF Live, Manager
      <4>8. m.updating <=> subs # {}  BY DEF HardwareFollows
      <4> HIDE DEF subs, all
      <4> QED  BY <4>2, <4>3, <4>4, <4>5, <4>6, <4>7, <4>8 DEF HardwareFollows
    <3>2. CASE r.kind = "significantChanges"
      <4>1. added = [m EXCEPT !.requests = all, !.monitoring = @ \/ others = {}]
        BY <3>2 DEF Live, Manager
      <4> HIDE DEF added
      <4>2. Live(added) /\ added.requests = all
        <5>1. (m.monitoring \/ others = {}) \in BOOLEAN  OBVIOUS
        <5> HIDE DEF others, all
        <5> QED  BY <5>1, <4>1, <1>1 DEF Live, Manager
      <4>3. OfKind(all, "subscription") = subs  BY <3>2 DEF OfKind
      <4>4. /\ added.updating = m.updating /\ added.desired = m.desired
            /\ added.monitoring = (m.monitoring \/ others = {})
        BY <4>1 DEF Live, Manager
      <4>5. others # {} => m.monitoring  BY <3>2 DEF HardwareFollows
      <4> QED  BY <4>2, <4>3, <4>4, <4>5 DEF HardwareFollows
    <3> QED  BY <1>3, <3>1, <3>2
  <2>2. AddLocationRequest(m, r, p) = ProcessLocationRequests(added, p)
    BY <1>4, <1>6
  <2> HIDE DEF added, all
  <2>3. /\ Live(AddLocationRequest(m, r, p))
        /\ AddLocationRequest(m, r, p).requests = all
        /\ HardwareFollows(AddLocationRequest(m, r, p))
    BY <2>1, <2>2, ProcessPreserves
  <2> QED  BY <2>3 DEF all
<1>7. QED  BY <1>5, <1>6

\* Completing every request keeps them.
LEMMA CompleteAllPreserves ==
  ASSUME NEW m, Live(m), HardwareFollows(m)
  PROVE  LET d == CompleteAllLocationRequests(m, "denied")
         IN  Live(d) /\ d.requests = {} /\ HardwareFollows(d)
<1> DEFINE none == [m EXCEPT
             !.requests   = {},
             !.updating   = @ /\ OfKind(m.requests, "subscription") = {},
             !.monitoring = @ /\ OfKind(m.requests, "significantChanges") = {}]
<1>1. Live(none) /\ none.requests = {}
  BY FS_EmptySet DEF Live, Manager
<1>2. ~none.updating
  BY DEF HardwareFollows, Live, Manager
<1>3. OfKind({}, "subscription") = {} /\ OfKind({}, "significantChanges") = {}
  BY DEF OfKind
<1>4. HardwareFollows(none)  BY <1>1, <1>2, <1>3 DEF HardwareFollows
<1>5. Cardinality(m.requests) \in Nat  BY FS_CardinalityType DEF Live
<1>6. CompleteAllLocationRequests(m, "denied")
        = Dispatched(none, Cardinality(m.requests), "denied")
  BY DEF CompleteAllLocationRequests
<1> HIDE DEF none
<1>7. QED  BY <1>1, <1>4, <1>5, <1>6, DispatchedFrame DEF Succeeds

\* A report of CoreLocation, of a location or of the significant-changes service, keeps them.
LEMMA ReportsPreserve ==
  ASSUME NEW m, Live(m), HardwareFollows(m), NEW spot \in Spots, NEW p
  PROVE  LET d == DidUpdateLocations(m, spot, p)
         IN  Live(d) /\ d.requests = m.requests /\ HardwareFollows(d)
<1> DEFINE located == [m EXCEPT !.failed = FALSE, !.location = spot]
<1>1. Live(located) /\ located.requests = m.requests /\ HardwareFollows(located)
  BY DEF Live, Manager, HardwareFollows
<1>2. DidUpdateLocations(m, spot, p) = ProcessLocationRequests(located, p)
  BY DEF DidUpdateLocations
<1> HIDE DEF located
<1> QED  BY <1>1, <1>2, ProcessPreserves

\* A failure of CoreLocation keeps them.
LEMMA ErrorPreserves ==
  ASSUME NEW m, Live(m), HardwareFollows(m), NEW p
  PROVE  LET d == DidFailWithError(m, p)
         IN  Live(d) /\ d.requests = m.requests /\ HardwareFollows(d)
<1> DEFINE erring == [m EXCEPT !.failed = TRUE]
<1>1. Live(erring) /\ erring.requests = m.requests /\ HardwareFollows(erring)
  BY DEF Live, Manager, HardwareFollows
<1>2. Cardinality(m.requests) \in Nat  BY FS_CardinalityType DEF Live
<1>3. DidFailWithError(m, p) = Dispatched(erring, Cardinality(m.requests), p)
  BY DEF DidFailWithError
<1>4. ~Succeeds(erring, p)  BY DEF Succeeds, Live, Manager
<1> HIDE DEF erring
<1> QED  BY <1>1, <1>2, <1>3, <1>4, DispatchedFrame

\* A change of the permission keeps them.
LEMMA PermissionPreserves ==
  ASSUME NEW m, Live(m), HardwareFollows(m), NEW p
  PROVE  LET d == DidChangeAuthorizationStatus(m, p)
         IN  Live(d) /\ d.requests \subseteq m.requests /\ HardwareFollows(d)
<1> QED  BY CompleteAllPreserves DEF DidChangeAuthorizationStatus

\* They hold of a new manager.
LEMMA NewManagerIsLive ==
  ASSUME NEW b \in BOOLEAN
  PROVE  Live(NewManager(b)) /\ HardwareFollows(NewManager(b))
<1>1. QED  BY FS_EmptySet DEF NewManager, Live, Manager, HardwareFollows, OfKind

------------------------------------------------------------------------------
(***************************************************************************)
(* The requests of LocationSharing's current user.                         *)
(***************************************************************************)
\* A manager that follows its requests and can cancel each by its identifier.
Good(m) == Live(m) /\ HardwareFollows(m) /\ UniqueIDs(m)

\* A dead process has no request; without this, a launch could register for
\* significant changes next to a request that no handle names.
RequestInv ==
  /\ RequestsTypeOK
  /\ Good(loc)
  /\ SignificantIsTracked
  /\ app = "dead" => loc.requests = {}

\* Where somebody was signed in when the screen came up: the screens in use, and
\* the two stages of signing in that lead to them.
Signed == InUse \cup {"completing", "asking"}

\* Who was signed in there still is, or has been deleted by the server.
SignedHasUser ==
  app # "dead" /\ screen \in Signed => currentUser \in Users \/ orphaned

UserInv ==
  /\ AppTypeOK
  /\ FuzzingDisplaces
  /\ SignedHasUser
  /\ DisabledHidesDecider

IInv == UserInv /\ RequestInv

------------------------------------------------------------------------------
(***************************************************************************)
(* The subscriptions.                                                      *)
(***************************************************************************)
LEMMA InitRequests == Init => RequestInv
<1> SUFFICES ASSUME Init PROVE RequestInv  OBVIOUS
<1>1. loc = NewManager(FALSE)  BY DEF Init
<1>2. Live(loc) /\ HardwareFollows(loc)  BY <1>1, NewManagerIsLive
<1>3. loc.requests = {}  BY <1>1 DEF NewManager
<1>4. UniqueIDs(loc) /\ SignificantIsTracked
  BY <1>3 DEF UniqueIDs, SignificantIsTracked, OfKind
<1>5. RequestsTypeOK  BY <1>2 DEF Init, RequestsTypeOK, Live
<1> QED  BY <1>2, <1>3, <1>4, <1>5 DEF RequestInv, Good

\* A subset of the requests keeps its identifiers unique.
LEMMA FewerRequests ==
  ASSUME NEW m, NEW n, UniqueIDs(m), n.requests \subseteq m.requests
  PROVE  UniqueIDs(n)
<1> QED  BY DEF UniqueIDs

\* stopLocationUpdates leaves no significant-changes request behind.
LEMMA StoppedIsGood ==
  ASSUME RequestInv
  PROVE  Good(Stopped) /\ OfKind(Stopped.requests, "significantChanges") = {}
<1> DEFINE once == CancelLocationRequest(loc, locationRequestID)
<1>1. Good(loc)  BY DEF RequestInv
<1>2. /\ Live(once) /\ HardwareFollows(once)
      /\ once.requests = {r \in loc.requests : r.id # locationRequestID}
  BY <1>1, CancelPreserves DEF Good
<1>3. UniqueIDs(once)  BY <1>1, <1>2, FewerRequests DEF Good
<1>4. Stopped = CancelLocationRequest(once, significantRequestID)  BY DEF Stopped
<1> HIDE DEF once
<1>5. /\ Live(Stopped) /\ HardwareFollows(Stopped)
      /\ Stopped.requests = {r \in once.requests : r.id # significantRequestID}
  BY <1>2, <1>3, <1>4, CancelPreserves
<1>6. UniqueIDs(Stopped)  BY <1>3, <1>5, FewerRequests
<1>7. OfKind(Stopped.requests, "significantChanges") = {}
  BY <1>2, <1>5 DEF RequestInv, SignificantIsTracked, OfKind
<1> QED  BY <1>5, <1>6, <1>7 DEF Good

\* A new request with an identifier that no live request has.
LEMMA FreshRequestIsGood ==
  ASSUME NEW m, Good(m), NEW r \in Request, NEW p,
         \A q \in m.requests : q.id # r.id
  PROVE  LET d == AddLocationRequest(m, r, p)
         IN  Good(d) /\ d.requests \subseteq m.requests \cup {r}
<1>1. r \notin m.requests  OBVIOUS
<1>2. LET d == AddLocationRequest(m, r, p)
      IN  Live(d) /\ HardwareFollows(d) /\ d.requests \in {m.requests, m.requests \cup {r}}
  BY <1>1, AddPreserves DEF Good
<1> QED  BY <1>2 DEF Good, UniqueIDs

\* A new request's identifier is no live request's.
LEMMA FreshIsFresh ==
  ASSUME NEW m, NEW held, Fresh(m, held) # {}
  PROVE  LET id == CHOOSE i \in Fresh(m, held) : TRUE
         IN  id \in RequestIDs /\ \A q \in m.requests : q.id # id
<1> DEFINE id == CHOOSE i \in Fresh(m, held) : TRUE
<1>1. id \in Fresh(m, held)  OBVIOUS
<1> HIDE DEF id
<1>2. id \in RequestIDs /\ \A q \in m.requests : q.id # id  BY <1>1 DEF Fresh
<1> QED  BY <1>2 DEF id

\* A standard subscription on top of m, whatever handle it overwrites.
LEMMA FetchIsGood ==
  ASSUME NEW m, Good(m),
         NEW location \in RequestIDs \cup {NoRequest},
         NEW significant \in RequestIDs \cup {NoRequest},
         \A r \in OfKind(m.requests, "significantChanges") : r.id = significant,
         disabled' \in BOOLEAN, accuracy' \in 1..5,
         FetchLocationChanges(m, location, significant)
  PROVE  RequestsTypeOK' /\ Good(loc)' /\ SignificantIsTracked'
<1> DEFINE id == CHOOSE i \in Fresh(m, {location, significant}) : TRUE
           r  == [id |-> id, kind |-> "subscription", accuracy |-> accuracy']
<1>1. CASE disabled'
  <2>1. loc' = m /\ locationRequestID' = location /\ significantRequestID' = significant
    BY <1>1 DEF FetchLocationChanges
  <2> QED  BY <2>1 DEF RequestsTypeOK, Good, Live, SignificantIsTracked
<1>2. CASE ~disabled'
  <2>1. /\ Fresh(m, {location, significant}) # {}
        /\ locationRequestID' = id /\ significantRequestID' = significant
        /\ loc' = AddLocationRequest(m, r, permission)
    BY <1>2 DEF FetchLocationChanges
  <2>2. id \in RequestIDs /\ \A q \in m.requests : q.id # id
    BY <2>1, FreshIsFresh
  <2> HIDE DEF id
  <2>3. r \in Request /\ r.id = id /\ r.kind = "subscription"  BY <2>2 DEF Request, Kinds
  <2> HIDE DEF r
  <2>4. Good(loc') /\ loc'.requests \subseteq m.requests \cup {r}
    BY <2>1, <2>2, <2>3, FreshRequestIsGood
  <2>5. SignificantIsTracked'
    BY <2>1, <2>3, <2>4 DEF SignificantIsTracked, OfKind
  <2> QED  BY <2>1, <2>2, <2>4, <2>5 DEF RequestsTypeOK, Good, Live
<1> QED  BY <1>1, <1>2

\* A significant-changes subscription on top of an m that has none.
LEMMA FetchSignificantIsGood ==
  ASSUME NEW m, Good(m),
         NEW location \in RequestIDs \cup {NoRequest},
         NEW significant \in RequestIDs \cup {NoRequest},
         OfKind(m.requests, "significantChanges") = {},
         disabled' \in BOOLEAN,
         FetchSignificantLocationChanges(m, location, significant)
  PROVE  RequestsTypeOK' /\ Good(loc)' /\ SignificantIsTracked'
<1> DEFINE id == CHOOSE i \in Fresh(m, {location, significant}) : TRUE
           r  == [id |-> id, kind |-> "significantChanges", accuracy |-> 0]
<1>1. CASE disabled'
  <2>1. loc' = m /\ locationRequestID' = location /\ significantRequestID' = significant
    BY <1>1 DEF FetchSignificantLocationChanges
  <2> QED  BY <2>1 DEF RequestsTypeOK, Good, Live, SignificantIsTracked
<1>2. CASE ~disabled'
  <2>1. /\ Fresh(m, {location, significant}) # {}
        /\ locationRequestID' = location /\ significantRequestID' = id
        /\ loc' = AddLocationRequest(m, r, permission)
    BY <1>2 DEF FetchSignificantLocationChanges
  <2>2. id \in RequestIDs /\ \A q \in m.requests : q.id # id
    BY <2>1, FreshIsFresh
  <2> HIDE DEF id
  <2>3. r \in Request /\ r.id = id  BY <2>2 DEF Request, Kinds
  <2> HIDE DEF r
  <2>4. Good(loc') /\ loc'.requests \subseteq m.requests \cup {r}
    BY <2>1, <2>2, <2>3, FreshRequestIsGood
  <2>5. SignificantIsTracked'
    BY <2>1, <2>3, <2>4 DEF SignificantIsTracked, OfKind
  <2> QED  BY <2>1, <2>2, <2>4, <2>5 DEF RequestsTypeOK, Good, Live
<1> QED  BY <1>1, <1>2

\* What an action does that only changes the blocks waiting.
LEMMA QueueOnly ==
  ASSUME RequestInv, NEW q \in Seq(Block), loc' = [loc EXCEPT !.mainQueue = q],
         UNCHANGED handles, app' = "dead" => app = "dead"
  PROVE  RequestInv'
<1>1. /\ Live(loc') /\ loc'.requests = loc.requests
      /\ HardwareFollows(loc')
  BY DEF RequestInv, Good, Live, Manager, HardwareFollows
<1> QED  BY <1>1 DEF RequestInv, RequestsTypeOK, Good, Live, UniqueIDs,
                     SignificantIsTracked, handles

\* What an action does that reports to the live requests or ends some.
LEMMA FewerIsGood ==
  ASSUME RequestInv, Live(loc'), HardwareFollows(loc'),
         loc'.requests \subseteq loc.requests,
         UNCHANGED handles, app' = "dead" => app = "dead"
  PROVE  RequestInv'
<1>1. Good(loc')  BY FewerRequests DEF RequestInv, Good
<1> QED  BY <1>1 DEF RequestInv, RequestsTypeOK, Good, Live,
                     SignificantIsTracked, OfKind, handles

\* The end of the process leaves no request.
LEMMA DeathIsGood ==
  ASSUME RequestInv, NEW m \in Manager, Die(m)
  PROVE  RequestInv'
<1>1. m.monitoring \in BOOLEAN /\ loc' = NewManager(m.monitoring)
  BY DEF Manager, Die
<1>2. Live(loc') /\ HardwareFollows(loc') /\ loc'.requests = {}
  BY <1>1, NewManagerIsLive DEF NewManager
<1> QED  BY <1>2 DEF Die, RequestInv, RequestsTypeOK, Good, Live, UniqueIDs,
                     SignificantIsTracked, OfKind

\* A handler that raises leaves none either, having stopped them or not.
LEMMA RaisingIsGood ==
  ASSUME RequestInv, NEW m \in {loc, Stopped}, RaiseWithoutUser(m)
  PROVE  RequestInv'
<1>1. m \in Manager  BY StoppedIsGood DEF RequestInv, RequestsTypeOK, Good, Live
<1> QED  BY <1>1, DeathIsGood DEF RaiseWithoutUser

\* Stopping the subscriptions keeps the invariant of the requests.
LEMMA StoppedRequests ==
  ASSUME RequestInv, loc' = Stopped, app' # "dead",
         locationRequestID' = NoRequest, significantRequestID' = NoRequest
  PROVE  RequestInv'
<1> QED  BY StoppedIsGood DEF RequestInv, RequestsTypeOK, Good, Live, SignificantIsTracked

\* What an action does that leaves the subscriptions alone.
LEMMA RequestsUntouched ==
  ASSUME RequestInv, UNCHANGED <<loc, handles>>, app' = "dead" => app = "dead"
  PROVE  RequestInv'
<1> QED  BY DEF RequestInv, RequestsTypeOK, Good, SignificantIsTracked, handles

\* The steps of the system and of the application delegate keep it,
LEMMA SystemKeepsRequests == IInv /\ SystemNext => RequestInv'
<1> SUFFICES ASSUME IInv, SystemNext PROVE RequestInv'  OBVIOUS
<1>i. RequestInv /\ disabled \in BOOLEAN /\ accuracy \in 1..5 /\ loc \in Manager
  BY DEF IInv, UserInv, AppTypeOK, RequestInv, RequestsTypeOK
<1>1. ASSUME NEW forLocation \in BOOLEAN, DidFinishLaunching(forLocation)
      PROVE  RequestInv'
  <2>1. Good(loc) /\ loc.requests = {} /\ OfKind(loc.requests, "significantChanges") = {}
    BY <1>1, <1>i DEF DidFinishLaunching, RequestInv, OfKind
  <2>2. UNCHANGED <<disabled, accuracy>> /\ app' = "inactive"
    BY <1>1 DEF DidFinishLaunching, defaults
  <2>3. CASE currentUser = NoUser
    BY <1>1, <1>i, <2>2, <2>3, RequestsUntouched DEF DidFinishLaunching
  <2>4. CASE currentUser # NoUser /\ forLocation
    <3>1. FetchSignificantLocationChanges(loc, NoRequest, NoRequest)
      BY <1>1, <2>4 DEF DidFinishLaunching
    <3> QED  BY <3>1, <2>1, <2>2, <1>i, FetchSignificantIsGood DEF RequestInv
  <2>5. CASE currentUser # NoUser /\ ~forLocation
    <3>1. FetchLocationChanges(loc, NoRequest, NoRequest)
      BY <1>1, <2>5 DEF DidFinishLaunching
    <3> QED  BY <3>1, <2>1, <2>2, <1>i, FetchIsGood DEF RequestInv
  <2> QED  BY <2>3, <2>4, <2>5
<1>2. CASE ApplicationDidBecomeActive
  <2>1. /\ UNCHANGED <<disabled, accuracy>> /\ app' = "active"
        /\ FetchLocationChanges(Stopped, NoRequest, NoRequest)
    BY <1>2 DEF ApplicationDidBecomeActive, ResetLocationUpdates, defaults
  <2> QED  BY <2>1, <1>i, StoppedIsGood, FetchIsGood DEF RequestInv
<1>3. CASE ApplicationWillResignActive
  <2>1. /\ UNCHANGED <<disabled, accuracy>> /\ app' = "inactive"
        /\ FetchSignificantLocationChanges(Stopped, NoRequest, NoRequest)
    BY <1>3 DEF ApplicationWillResignActive, defaults
  <2> QED  BY <2>1, <1>i, StoppedIsGood, FetchSignificantIsGood DEF RequestInv
<1>4. CASE Killed
  BY <1>4, <1>i, DeathIsGood DEF Killed
<1>5. ASSUME NEW spot \in Spots, LocationReported(spot)
      PROVE  RequestInv'
  <2>1. loc' = DidUpdateLocations(loc, spot, permission) /\ UNCHANGED <<app, handles>>
    BY <1>5 DEF LocationReported
  <2>2. Live(loc') /\ HardwareFollows(loc') /\ loc'.requests = loc.requests
    BY <2>1, <1>i, ReportsPreserve DEF RequestInv, Good
  <2> QED  BY <2>1, <2>2, <1>i, FewerIsGood
<1>6. CASE ErrorReported
  <2>1. loc' = DidFailWithError(loc, permission) /\ UNCHANGED <<app, handles>>
    BY <1>6 DEF ErrorReported
  <2>2. Live(loc') /\ HardwareFollows(loc') /\ loc'.requests = loc.requests
    BY <2>1, <1>i, ErrorPreserves DEF RequestInv, Good
  <2> QED  BY <2>1, <2>2, <1>i, FewerIsGood
<1>7. ASSUME NEW p \in Settable, PermissionChanged(p)
      PROVE  RequestInv'
  <2>1. UNCHANGED <<app, handles>>
    BY <1>7 DEF PermissionChanged
  <2>2. Live(loc') /\ HardwareFollows(loc') /\ loc'.requests \subseteq loc.requests
    BY <1>7, <1>i, PermissionPreserves DEF PermissionChanged, RequestInv, Good
  <2> QED  BY <2>1, <2>2, <1>i, FewerIsGood
<1>8. CASE MinutePasses
  BY <1>8, <1>i, RequestsUntouched DEF MinutePasses
<1>9. CASE RunLocationBlock
  <2>1. Tail(loc.mainQueue) \in Seq(Block)
    BY <1>9, <1>i DEF RunLocationBlock, Manager
  <2>2. /\ loc' = [loc EXCEPT !.mainQueue = Tail(loc.mainQueue)]
        /\ UNCHANGED <<app, handles>>
    BY <1>9 DEF RunLocationBlock
  <2> QED  BY <2>1, <2>2, <1>i, QueueOnly
<1>10. ASSUME NEW u \in Users, ZoneReadAnswered(u)
       PROVE  RequestInv'
  <2> DEFINE b == [kind |-> "zoneCheck", location |-> records[u].location, ok |-> TRUE]
  <2>1. b \in Block  BY DEF IInv, UserInv, AppTypeOK, Record, Block
  <2>2. Append(loc.mainQueue, b) \in Seq(Block)
    BY <2>1, <1>i DEF Manager
  <2>3. /\ loc' = [loc EXCEPT !.mainQueue = Append(loc.mainQueue, b)]
        /\ UNCHANGED <<app, handles>>
    BY <1>10 DEF ZoneReadAnswered
  <2> HIDE DEF b
  <2> QED  BY <2>2, <2>3, <1>i, QueueOnly
<1>11. CASE RunZoneCheckBlock
  <2>1. CASE Die(loc)  BY <2>1, <1>i, DeathIsGood
  <2>2. CASE ~Die(loc)
    <3>1. Tail(loc.mainQueue) \in Seq(Block)
      BY <1>11, <1>i DEF RunZoneCheckBlock, Manager
    <3>2. /\ loc' = [loc EXCEPT !.mainQueue = Tail(loc.mainQueue)]
          /\ UNCHANGED <<app, handles>>
      BY <1>11, <2>2 DEF RunZoneCheckBlock
    <3> QED  BY <3>1, <3>2, <1>i, QueueOnly
  <2> QED  BY <2>1, <2>2
<1> QED
  BY <1>1, <1>2, <1>3, <1>4, <1>5, <1>6, <1>7, <1>8, <1>9, <1>10, <1>11 DEF SystemNext

\* so do those of the sign-in,
LEMMA SignInKeepsRequests == IInv /\ SignInNext => RequestInv'
<1> SUFFICES ASSUME IInv, SignInNext PROVE RequestInv'  OBVIOUS
<1>i. RequestInv /\ accuracy \in 1..5
  BY DEF IInv, UserInv, AppTypeOK
<1>1. ASSUME NEW from, NEW to, SignInStep(from, to)
      PROVE  RequestInv'
  BY <1>1, <1>i, RequestsUntouched DEF SignInStep
<1>2. CASE ShareMyLocation
  <2>1. /\ disabled' = FALSE /\ UNCHANGED <<accuracy, app>> /\ app # "dead"
        /\ FetchLocationChanges(loc, locationRequestID, significantRequestID)
    BY <1>2 DEF ShareMyLocation, Asked, Decide
  <2> QED  BY <2>1, <1>i, FetchIsGood DEF RequestInv, RequestsTypeOK, SignificantIsTracked
<1>3. CASE DontShareLocation
  <2>1. CASE RaiseWithoutUser(loc)  BY <2>1, <1>i, RaisingIsGood
  <2>2. CASE ~RaiseWithoutUser(loc)
    BY <1>3, <2>2, <1>i, RequestsUntouched DEF DontShareLocation
  <2> QED  BY <2>1, <2>2
<1>4. CASE RaiseWithoutUser(loc)
  BY <1>4, <1>i, RaisingIsGood
<1> QED
  BY <1>1, <1>2, <1>3, <1>4 DEF SignInNext, CredentialsReceived, SignInFailed, SignInSucceeded,
                          SignInRejected, ProfileStored

\* those of the screens,
LEMMA ScreensKeepRequests == IInv /\ ScreenNext => RequestInv'
<1> SUFFICES ASSUME IInv, ScreenNext PROVE RequestInv'  OBVIOUS
<1>1. RequestInv  BY DEF IInv
<1>2. UNCHANGED <<loc, handles, app>>
  BY DEF ScreenNext, OpenSettings, CloseSettings, CoverSettings, UncoverSettings,
         SettingsDismissed, ScreenStep
<1> QED  BY <1>1, <1>2, RequestsUntouched

\* and those of the settings.
LEMMA SettingsKeepRequests == IInv /\ SettingsNext => RequestInv'
<1> SUFFICES ASSUME IInv, SettingsNext PROVE RequestInv'  OBVIOUS
<1>i. RequestInv /\ disabled \in BOOLEAN /\ accuracy \in 1..5
  BY DEF IInv, UserInv, AppTypeOK
<1>1. CASE EnableLocation
  <2>1. /\ disabled' = FALSE /\ UNCHANGED <<accuracy, app>> /\ app # "dead"
        /\ FetchLocationChanges(loc, locationRequestID, significantRequestID)
    BY <1>1 DEF EnableLocation, OnMap, Decide
  <2> QED  BY <2>1, <1>i, FetchIsGood DEF RequestInv, RequestsTypeOK, SignificantIsTracked
<1>2. CASE DisableLocation
  <2>1. CASE RaiseWithoutUser(Stopped)  BY <2>1, <1>i, RaisingIsGood
  <2>2. CASE ~RaiseWithoutUser(Stopped)
    BY <1>2, <2>2, <1>i, StoppedRequests DEF DisableLocation, OnMap
  <2> QED  BY <2>1, <2>2
<1>3. ASSUME NEW a \in Accuracies, SelectAccuracy(a)
      PROVE  RequestInv'
  <2>1. /\ disabled' \in BOOLEAN /\ accuracy' \in 1..5 /\ app' # "dead"
        /\ FetchLocationChanges(Stopped, NoRequest, NoRequest)
    BY <1>3, <1>i, AccuraciesAssumption DEF SelectAccuracy, Tapped, ResetLocationUpdates
  <2> QED  BY <2>1, <1>i, StoppedIsGood, FetchIsGood DEF RequestInv
<1>4. ASSUME NEW z \in Zones, SaveZone(z)
      PROVE  RequestInv'
  <2>1. CASE RaiseWithoutUser(loc)  BY <2>1, <1>i, RaisingIsGood
  <2>2. CASE ~RaiseWithoutUser(loc)
    BY <1>4, <2>2, <1>i, RequestsUntouched DEF SaveZone
  <2> QED  BY <2>1, <2>2
<1>5. CASE DeleteZone
  BY <1>5, <1>i, RequestsUntouched DEF DeleteZone
<1>6. ASSUME NEW settings, ChangeFuzzing(settings)
      PROVE  RequestInv'
  BY <1>6, <1>i, RequestsUntouched DEF ChangeFuzzing
<1>7. CASE SignOutUser
  BY <1>7, <1>i, RequestsUntouched DEF SignOutUser
<1>8. CASE DeleteUser
  <2>1. CASE RaiseWithoutUser(Stopped)  BY <2>1, <1>i, RaisingIsGood
  <2>2. CASE ~RaiseWithoutUser(Stopped)
    BY <1>8, <2>2, <1>i, StoppedRequests DEF DeleteUser, Tapped
  <2> QED  BY <2>1, <2>2
<1>9. CASE DeletionSucceeded
  BY <1>9, <1>i, RequestsUntouched DEF DeletionSucceeded
<1>10. CASE DeletionFailed
  BY <1>10, <1>i, RequestsUntouched DEF DeletionFailed
<1>11. CASE AccountDeleted
  BY <1>11, <1>i, RequestsUntouched DEF AccountDeleted
<1> QED
  BY <1>1, <1>2, <1>3, <1>4, <1>5, <1>6, <1>7, <1>8, <1>9, <1>10, <1>11
  DEF SettingsNext, FuzzSwitchChanged, RadiusSliderChanged, DistanceSegmentChanged
------------------------------------------------------------------------------
(***************************************************************************)
(* The user, the database and the settings.                                *)
(***************************************************************************)
LEMMA InitUser == Init => UserInv
<1> SUFFICES ASSUME Init PROVE UserInv  OBVIOUS
<1>1. records \in [Users -> Record]  BY DEF Init, Record, Absent
<1>2. fuzz \in FuzzSettings /\ FuzzingDisplaces
  BY DEF Init, FuzzSettings, FuzzingDisplaces
<1>3. permission \in Permissions  BY SystemAssumption DEF Init
<1>4. AppTypeOK
  <2>1. accuracy \in 1..5  BY DEF Init, DefaultAccuracy
  <2>2. zone \in SUBSET Spots /\ deleted \in SUBSET Users /\ zoneReads \in SUBSET Users
    BY DEF Init
  <2>3. screen \in Screens /\ app \in {"dead", "inactive", "active"}
    BY DEF Init, Screens, InUse
  <2> QED  BY <1>1, <1>2, <1>3, <2>1, <2>2, <2>3 DEF Init, AppTypeOK
<1> QED  BY <1>2, <1>4 DEF Init, UserInv, SignedHasUser, DisabledHidesDecider

\* Removing a location touches one record only.
LEMMA HiddenIsHidden ==
  ASSUME NEW u \in Users, records \in [Users -> Record]
  PROVE  /\ Hidden(u) \in [Users -> Record]
         /\ Hidden(u)[u].location = NoLocation
         /\ \A v \in Users : v # u => Hidden(u)[v] = records[v]
<1> QED  BY DEF Hidden, Record

\* What storeLocation writes: nothing while sharing is disabled, and never
\* the record of anybody but the current user.
LEMMA StoreWrites ==
  ASSUME UserInv, NEW spot \in Spots, StoreLocation(spot)
  PROVE  /\ records' \in [Users -> Record] /\ recent' \in BOOLEAN
         /\ fuzz' \in FuzzSettings
         /\ fuzz'.enabled = fuzz.enabled /\ fuzz'.radius = fuzz.radius
         /\ fuzz'.distance = fuzz.distance
         /\ disabled => records' = records
         /\ \A u \in Users : u # currentUser => records'[u] = records[u]
<1>1. /\ records \in [Users -> Record] /\ recent \in BOOLEAN /\ fuzz \in FuzzSettings
      /\ currentUser \in Users \cup {NoUser} /\ FuzzingDisplaces
  BY DEF UserInv, AppTypeOK
<1>2. CASE disabled \/ spot \in zone \/ recent
  BY <1>1, <1>2 DEF StoreLocation
<1>3. CASE ~(disabled \/ spot \in zone \/ recent)
  <2> DEFINE stored(b) == IF Fuzzed(spot) THEN Displace[spot, b, fuzz.distance] ELSE spot
  <2>1. PICK b \in BearingsFor(spot) :
          /\ fuzz' = [fuzz EXCEPT !.bearing = b]
          /\ records' = IF currentUser = NoUser THEN records
                        ELSE [records EXCEPT ![currentUser].location = stored(b)]
          /\ recent' = TRUE
    BY <1>3 DEF StoreLocation
  <2>2. b \in Bearings \cup {0}
    BY <2>1, <1>1 DEF BearingsFor, FuzzSettings
  <2>3. stored(b) \in Spots
    <3>1. CASE Fuzzed(spot)
      <4>1. fuzz.distance \in Distances \cup {DefaultDistance}
        BY <3>1, <1>1 DEF Fuzzed, FuzzingDisplaces, FuzzSettings
      <4>2. b \in Bearings  BY <3>1, <2>1, <1>1 DEF BearingsFor, FuzzSettings
      <4> QED  BY <3>1, <4>1, <4>2, FuzzAssumption
    <3>2. CASE ~Fuzzed(spot)  BY <3>2
    <3> QED  BY <3>1, <3>2
  <2> HIDE DEF stored
  <2>4. /\ fuzz' \in FuzzSettings
        /\ fuzz'.enabled = fuzz.enabled /\ fuzz'.radius = fuzz.radius
        /\ fuzz'.distance = fuzz.distance
        /\ fuzz'.bearing = b
    BY <2>1, <2>2, <1>1 DEF FuzzSettings
  <2>5. /\ records' \in [Users -> Record]
        /\ \A u \in Users : u # currentUser => records'[u] = records[u]
    BY <2>1, <2>3, <1>1 DEF Record
  <2> QED  BY <2>1, <2>2, <2>4, <2>5, <1>3
<1> QED  BY <1>2, <1>3

\* What an action does that leaves the user and the database alone and does
\* not bring up the map.
LEMMA UserUntouched ==
  ASSUME UserInv, UNCHANGED <<defaults, account, records, deleted, decider>>,
         app' \in {"dead", "inactive", "active"}, screen' \in Screens,
         deletion' \in Users \cup {NoUser}, asker' \in BOOLEAN,
         zoneReads' \in SUBSET Users,
         recent' \in BOOLEAN, permission' \in Permissions,
         app' # "dead" /\ screen' \in Signed => app # "dead" /\ screen \in Signed
  PROVE  UserInv'
<1> QED  BY DEF UserInv, AppTypeOK, FuzzingDisplaces, SignedHasUser, DisabledHidesDecider,
                defaults, account

\* What an action does to the database that hides a user or rewrites the rest
\* of a record.
LEMMA DatabaseHides ==
  ASSUME UserInv, UNCHANGED <<defaults, account, deleted, app, screens, deletion,
                              zoneReads, recent, permission, decider>>,
         records' \in [Users -> Record],
         \A u \in Users : records'[u].location \in {NoLocation, records[u].location}
  PROVE  UserInv'
<1> QED  BY DEF UserInv, AppTypeOK, FuzzingDisplaces, SignedHasUser, DisabledHidesDecider,
                defaults, account, screens

\* The end of the process, after a handler has changed the zone or the default.
LEMMA DeathKeepsUser ==
  ASSUME UserInv, NEW m, Die(m),
         UNCHANGED <<accuracy, fuzz, currentUser, records, deleted, permission>>,
         zone' \in SUBSET Spots, disabled' \in BOOLEAN,
         decider' = NoUser \/ UNCHANGED <<disabled, decider>>
  PROVE  UserInv'
<1> QED  BY DEF Die, UserInv, AppTypeOK, FuzzingDisplaces, SignedHasUser, Screens, InUse,
                DisabledHidesDecider

\* The steps of the system and of the application delegate keep the invariant of the user.
LEMMA SystemKeepsUser == IInv /\ SystemNext => UserInv'
<1> SUFFICES ASSUME IInv, SystemNext PROVE UserInv'  OBVIOUS
<1>i. UserInv /\ AppTypeOK /\ loc \in Manager
  BY DEF IInv, UserInv, RequestInv, RequestsTypeOK
<1>1. ASSUME NEW forLocation \in BOOLEAN, DidFinishLaunching(forLocation)
      PROVE  UserInv'
  <2>1. /\ UNCHANGED <<defaults, account, records, deleted, deletion, asker, zoneReads,
                       recent, permission, decider>>
        /\ app' = "inactive"
        /\ screen' = IF currentUser = NoUser THEN "idle" ELSE "map"
    BY <1>1 DEF DidFinishLaunching
  <2>2. screen' \in Screens /\ (screen' \in Signed => currentUser # NoUser)
    BY <2>1 DEF Screens, Signed, InUse, SignInStages
  <2> QED  BY <2>1, <2>2, <1>i DEF UserInv, AppTypeOK, FuzzingDisplaces, SignedHasUser,
                             DisabledHidesDecider, defaults, account
<1>2. CASE ApplicationDidBecomeActive
  BY <1>2, <1>i, UserUntouched DEF ApplicationDidBecomeActive, AppTypeOK, screens
<1>3. CASE ApplicationWillResignActive
  BY <1>3, <1>i, UserUntouched DEF ApplicationWillResignActive, AppTypeOK, screens
<1>4. ASSUME Die(loc),
             UNCHANGED <<defaults, currentUser, records, deleted, permission, decider>>
      PROVE  UserInv'
  BY <1>4, <1>i, DeathKeepsUser DEF AppTypeOK, defaults
<1>5. ASSUME NEW spot \in Spots, LocationReported(spot)
      PROVE  UserInv'
  BY <1>5, <1>i, UserUntouched DEF LocationReported, AppTypeOK, screens
<1>6. CASE ErrorReported
  BY <1>6, <1>i, UserUntouched DEF ErrorReported, AppTypeOK, screens
<1>7. ASSUME NEW p \in Settable, PermissionChanged(p)
      PROVE  UserInv'
  BY <1>7, <1>i, UserUntouched, SystemAssumption DEF PermissionChanged, AppTypeOK, screens
<1>8. CASE MinutePasses
  BY <1>8, <1>i, UserUntouched DEF MinutePasses, AppTypeOK, screens
<1>9. CASE RunLocationBlock
  <2> DEFINE block == Head(loc.mainQueue)
  <2>1. block \in Block  BY <1>9, <1>i DEF RunLocationBlock, Manager
  <2>2. /\ block.kind = "location"
        /\ IF block.ok THEN StoreLocation(block.location)
                       ELSE UNCHANGED <<records, recent, fuzz>>
        /\ UNCHANGED <<disabled, zone, accuracy, account, deleted, app, screens, deletion,
                       zoneReads, permission, decider>>
    BY <1>9 DEF RunLocationBlock
  <2>3. CASE block.ok
    <3>1. block.location \in Spots  BY <2>1, <2>2, <2>3 DEF Block
    <3>2. StoreLocation(block.location)  BY <2>2, <2>3
    <3> HIDE DEF block
    <3>3. /\ records' \in [Users -> Record] /\ recent' \in BOOLEAN
          /\ fuzz' \in FuzzSettings
          /\ fuzz'.enabled = fuzz.enabled /\ fuzz'.radius = fuzz.radius
          /\ fuzz'.distance = fuzz.distance
          /\ disabled => records' = records
      BY <3>1, <3>2, <1>i, StoreWrites
    <3> QED  BY <2>2, <3>3, <1>i DEF UserInv, AppTypeOK, FuzzingDisplaces, SignedHasUser,
                                     DisabledHidesDecider, account, screens
  <2>4. CASE ~block.ok
    BY <2>2, <2>4, <1>i, UserUntouched DEF AppTypeOK, defaults, screens
  <2> QED  BY <2>3, <2>4
<1>10. ASSUME NEW u \in Users, ZoneReadAnswered(u)
       PROVE  UserInv'
  BY <1>10, <1>i, UserUntouched DEF ZoneReadAnswered, AppTypeOK, screens
<1>11. CASE RunZoneCheckBlock
  <2>1. UNCHANGED <<defaults, currentUser, deleted, permission, decider>>
    BY <1>11 DEF RunZoneCheckBlock
  <2>2. CASE Die(loc) /\ UNCHANGED records
    BY <2>1, <2>2, <1>4
  <2>3. CASE ~(Die(loc) /\ UNCHANGED records)
    <3> DEFINE found == Head(loc.mainQueue).location \in zone
    <3>1. /\ ~(found /\ currentUser = NoUser)
          /\ records' = IF found THEN Hidden(currentUser) ELSE records
          /\ UNCHANGED <<app, screens, orphaned, deletion, zoneReads, recent>>
      BY <1>11, <2>3 DEF RunZoneCheckBlock
    <3> HIDE DEF found
    <3>2. /\ records' \in [Users -> Record]
          /\ \A v \in Users : records'[v].location \in {NoLocation, records[v].location}
      BY <3>1, <1>i, HiddenIsHidden DEF AppTypeOK
    <3> QED  BY <2>1, <3>1, <3>2, <1>i, DatabaseHides DEF account
  <2> QED  BY <2>2, <2>3
<1>12. CASE Killed
  BY <1>12, <1>4 DEF Killed
<1> QED
  BY <1>1, <1>2, <1>3, <1>5, <1>6, <1>7, <1>8, <1>9, <1>10, <1>11, <1>12 DEF SystemNext

\* The map is brought up by a question answered where somebody has signed in;
\* the steps before it leave the database alone but for the profile.
LEMMA SignInKeepsUser == IInv /\ SignInNext => UserInv'
<1> SUFFICES ASSUME IInv, SignInNext PROVE UserInv'  OBVIOUS
<1>i. UserInv /\ AppTypeOK  BY DEF IInv, UserInv
<1>1. CASE CredentialsReceived \/ SignInFailed
  BY <1>1, <1>i, UserUntouched
  DEF CredentialsReceived, SignInFailed, SignInStep, AppTypeOK, Screens, SignInStages,
      Signed, InUse
<1>2. ASSUME NEW u \in Users, SignInSucceeded(u)
      PROVE  UserInv'
  BY <1>2, <1>i DEF SignInSucceeded, SignInStep, UserInv, AppTypeOK, FuzzingDisplaces,
    SignedHasUser, DisabledHidesDecider, defaults, Screens, SignInStages
<1>3. CASE SignInRejected
  BY <1>3, <1>i DEF SignInRejected, SignInStep, UserInv, AppTypeOK, FuzzingDisplaces,
    SignedHasUser, DisabledHidesDecider, defaults, Screens, SignInStages, Signed, InUse
<1>4. CASE ProfileStored
  <2>1. CASE currentUser = NoUser
    <3>1. Die(loc) /\ UNCHANGED <<defaults, currentUser, records, deleted, permission, decider>>
      BY <1>4, <2>1 DEF ProfileStored, RaiseWithoutUser
    <3> QED  BY <3>1, <1>i, DeathKeepsUser DEF AppTypeOK, defaults
  <2>2. CASE currentUser # NoUser
    <3>1. /\ screen = "completing" /\ app # "dead" /\ screen' = "asking"
          /\ records' = [records EXCEPT ![currentUser].profile = TRUE]
          /\ UNCHANGED <<defaults, account, deleted, app, deletion, asker, zoneReads, recent,
                         permission, decider>>
      BY <1>4, <2>2 DEF ProfileStored, SignInStep, RaiseWithoutUser
    <3>2. /\ records' \in [Users -> Record]
          /\ \A v \in Users : records'[v].location = records[v].location
      BY <3>1, <2>2, <1>i DEF AppTypeOK, Record
    <3> QED  BY <3>1, <3>2, <1>i DEF UserInv, AppTypeOK, FuzzingDisplaces, SignedHasUser,
               DisabledHidesDecider, defaults, account, Screens, SignInStages, Signed
  <2> QED  BY <2>1, <2>2
<1>5. CASE ShareMyLocation
  <2>1. /\ disabled' = FALSE /\ decider' = NoUser
        /\ app = "active" /\ screen = "asking" /\ screen' = "map"
        /\ UNCHANGED <<zone, accuracy, fuzz, account, records, deleted, app, asker, deletion,
                       zoneReads, recent, permission>>
    BY <1>5 DEF ShareMyLocation, Asked, Decide
  <2> QED  BY <2>1, <1>i DEF UserInv, AppTypeOK, FuzzingDisplaces, SignedHasUser,
             DisabledHidesDecider, account, Screens, Signed, InUse
<1>6. CASE DontShareLocation
  <2>1. CASE currentUser = NoUser
    <3>1. /\ Die(loc) /\ disabled' = TRUE /\ decider' = NoUser
          /\ UNCHANGED <<zone, accuracy, fuzz, currentUser, records, deleted, permission>>
      BY <1>6, <2>1 DEF DontShareLocation, RaiseWithoutUser, Decide
    <3> QED  BY <3>1, <1>i, DeathKeepsUser DEF AppTypeOK
  <2>2. CASE currentUser # NoUser
    <3>1. /\ disabled' = TRUE /\ decider' = currentUser /\ records' = Hidden(currentUser)
          /\ app = "active" /\ screen = "asking" /\ screen' = "map"
          /\ UNCHANGED <<zone, accuracy, fuzz, account, deleted, app, asker, deletion,
                         zoneReads, recent, permission>>
      BY <1>6, <2>2 DEF DontShareLocation, RaiseWithoutUser, Asked, Decide
    <3>2. records' \in [Users -> Record] /\ records'[currentUser].location = NoLocation
      BY <3>1, <2>2, <1>i, HiddenIsHidden DEF AppTypeOK
    <3> QED  BY <3>1, <3>2, <1>i DEF UserInv, AppTypeOK, FuzzingDisplaces, SignedHasUser,
               DisabledHidesDecider, account, Screens, Signed, InUse
  <2> QED  BY <2>1, <2>2
<1> QED  BY <1>1, <1>2, <1>3, <1>4, <1>5, <1>6 DEF SignInNext

\* The screens come up over one another with whoever is signed in.
LEMMA ScreensKeepUser == IInv /\ ScreenNext => UserInv'
<1> SUFFICES ASSUME IInv, ScreenNext PROVE UserInv'  OBVIOUS
<1>1. UserInv /\ AppTypeOK  BY DEF IInv, UserInv
<1>2. /\ UNCHANGED <<defaults, account, records, deleted, app, deletion, zoneReads, recent,
                     permission, decider>>
      /\ screen' \in {"map", "settings", "covered", "idle"} /\ asker' \in BOOLEAN
      /\ screen' # "idle" => screen \in {"map", "settings", "covered"}
  BY <1>1 DEF ScreenNext, OpenSettings, CloseSettings, CoverSettings, UncoverSettings,
              SettingsDismissed, ScreenStep, AppTypeOK
<1>3. /\ screen' \in Screens
      /\ screen' \in Signed => screen \in Signed
  BY <1>2 DEF Screens, SignInStages, Signed, InUse
<1> QED  BY <1>1, <1>2, <1>3, UserUntouched DEF AppTypeOK

\* The settings of fuzzing that the program can be left in.
LEMMA ChangedFuzzing ==
  ASSUME UserInv, NEW settings \in FuzzSettings,
         settings.enabled => settings.radius # Unset /\ settings.distance # Unset,
         ChangeFuzzing(settings)
  PROVE  UserInv'
<1> QED  BY DEF ChangeFuzzing, UserInv, AppTypeOK, FuzzingDisplaces, SignedHasUser,
                DisabledHidesDecider, account, screens

\* A tap on what covers the settings that changes a default, or another variable
\* of the process, and goes back to them.
LEMMA TappedKeepsUser ==
  ASSUME UserInv, Tapped, Uncovered,
         UNCHANGED <<disabled, fuzz, account, deleted, app, recent, permission, decider>>,
         accuracy' \in 1..5, zone' \in SUBSET Spots,
         deletion' \in Users \cup {NoUser}, asker' \in BOOLEAN, zoneReads' \in SUBSET Users,
         records' \in [Users -> Record],
         \A u \in Users : records'[u].location \in {NoLocation, records[u].location}
  PROVE  UserInv'
<1>1. screen \in Signed /\ screen' \in Screens
  BY DEF Tapped, Uncovered, Signed, Screens, InUse
<1> QED  BY <1>1 DEF UserInv, AppTypeOK, FuzzingDisplaces, SignedHasUser,
                DisabledHidesDecider, account

\* So do the steps of the settings.
LEMMA SettingsKeepUser == IInv /\ SettingsNext => UserInv'
<1> SUFFICES ASSUME IInv, SettingsNext PROVE UserInv'  OBVIOUS
<1>i. UserInv /\ AppTypeOK
  BY DEF IInv, UserInv
<1>1. CASE EnableLocation
  <2>1. /\ disabled' = FALSE /\ decider' = NoUser
        /\ UNCHANGED <<zone, accuracy, fuzz, account, records, deleted, app, screens, deletion,
                       zoneReads, recent, permission>>
    BY <1>1 DEF EnableLocation, Decide
  <2> QED  BY <2>1, <1>i DEF UserInv, AppTypeOK, FuzzingDisplaces, SignedHasUser,
             DisabledHidesDecider, account, screens
<1>2. CASE DisableLocation
  <2>1. CASE currentUser = NoUser
    <3>1. /\ Die(Stopped) /\ disabled' = TRUE /\ decider' = NoUser
          /\ UNCHANGED <<zone, accuracy, fuzz, currentUser, records, deleted, permission>>
      BY <1>2, <2>1 DEF DisableLocation, RaiseWithoutUser, Decide
    <3> QED  BY <3>1, <1>i, DeathKeepsUser DEF AppTypeOK
  <2>2. CASE currentUser # NoUser
    <3>1. /\ disabled' = TRUE /\ decider' = currentUser /\ records' = Hidden(currentUser)
          /\ UNCHANGED <<zone, accuracy, fuzz, account, deleted, app, screens, deletion,
                         zoneReads, recent, permission>>
      BY <1>2, <2>2 DEF DisableLocation, RaiseWithoutUser, Decide
    <3>2. records' \in [Users -> Record] /\ records'[currentUser].location = NoLocation
      BY <3>1, <2>2, <1>i, HiddenIsHidden DEF AppTypeOK
    <3> QED  BY <3>1, <3>2, <1>i DEF UserInv, AppTypeOK, FuzzingDisplaces, SignedHasUser,
               DisabledHidesDecider, account, screens
  <2> QED  BY <2>1, <2>2
<1>3. ASSUME NEW a \in Accuracies, SelectAccuracy(a)
      PROVE  UserInv'
  BY <1>3, <1>i, AccuraciesAssumption, TappedKeepsUser DEF SelectAccuracy, AppTypeOK
<1>4. ASSUME NEW z \in Zones, SaveZone(z)
      PROVE  UserInv'
  <2>1. z \in SUBSET Spots /\ zone' = z /\ UNCHANGED <<disabled, accuracy, fuzz, decider>>
    BY <1>4, ZonesAssumption DEF SaveZone
  <2>2. CASE currentUser = NoUser
    <3>1. Die(loc) /\ UNCHANGED <<currentUser, records, deleted, permission>>
      BY <1>4, <2>2 DEF SaveZone, RaiseWithoutUser
    <3> QED  BY <3>1, <2>1, <1>i, DeathKeepsUser DEF AppTypeOK
  <2>3. CASE currentUser # NoUser
    <3>1. /\ Tapped /\ Uncovered /\ zoneReads' = zoneReads \cup {currentUser}
          /\ UNCHANGED <<account, records, deleted, app, asker, deletion, recent, permission>>
      BY <1>4, <2>3 DEF SaveZone, RaiseWithoutUser
    <3> QED  BY <3>1, <2>1, <2>3, <1>i, TappedKeepsUser DEF AppTypeOK
  <2> QED  BY <2>2, <2>3
<1>5. CASE DeleteZone
  BY <1>5, <1>i, TappedKeepsUser DEF DeleteZone, AppTypeOK
<1>6. CASE FuzzSwitchChanged
  <2> DEFINE settings == [fuzz EXCEPT !.enabled  = ~@,
                                      !.radius   = IF @ = Unset THEN DefaultRadius ELSE @,
                                      !.distance = IF @ = Unset THEN DefaultDistance ELSE @]
  <2>1. ChangeFuzzing(settings)  BY <1>6 DEF FuzzSwitchChanged
  <2>2. fuzz \in FuzzSettings  BY <1>i DEF AppTypeOK
  <2>3. settings \in FuzzSettings  BY <2>2 DEF FuzzSettings
  <2>4. settings.radius # Unset /\ settings.distance # Unset
    BY <2>2 DEF FuzzSettings, DefaultRadius, DefaultDistance, Unset
  <2> HIDE DEF settings
  <2> QED  BY <2>1, <2>3, <2>4, <1>i, ChangedFuzzing
<1>7. ASSUME NEW r \in Radii, RadiusSliderChanged(r)
      PROVE  UserInv'
  <2> DEFINE settings == [fuzz EXCEPT !.radius = r]
  <2>1. ChangeFuzzing(settings)  BY <1>7 DEF RadiusSliderChanged
  <2>2. settings \in FuzzSettings /\
        (settings.enabled => settings.radius # Unset /\ settings.distance # Unset)
    BY <1>i, FuzzAssumption DEF UserInv, AppTypeOK, FuzzSettings, FuzzingDisplaces, Unset
  <2> HIDE DEF settings
  <2> QED  BY <2>1, <2>2, <1>i, ChangedFuzzing
<1>8. ASSUME NEW d \in Distances, DistanceSegmentChanged(d)
      PROVE  UserInv'
  <2> DEFINE settings == [fuzz EXCEPT !.distance = d]
  <2>1. ChangeFuzzing(settings)  BY <1>8 DEF DistanceSegmentChanged
  <2>2. settings \in FuzzSettings /\
        (settings.enabled => settings.radius # Unset /\ settings.distance # Unset)
    BY <1>i, FuzzAssumption, <1>8 DEF DistanceSegmentChanged, UserInv, AppTypeOK, FuzzSettings,
       FuzzingDisplaces, Unset
  <2> HIDE DEF settings
  <2> QED  BY <2>1, <2>2, <1>i, ChangedFuzzing
<1>9. CASE SignOutUser
  BY <1>9, <1>i DEF SignOutUser, UserInv, AppTypeOK, FuzzingDisplaces, SignedHasUser,
    DisabledHidesDecider, defaults, Screens, Signed, InUse
<1>10. CASE DeleteUser
  <2>1. CASE currentUser = NoUser
    <3>1. Die(Stopped) /\ UNCHANGED <<defaults, currentUser, records, deleted, permission, decider>>
      BY <1>10, <2>1 DEF DeleteUser, RaiseWithoutUser
    <3> QED  BY <3>1, <1>i, DeathKeepsUser DEF AppTypeOK, defaults
  <2>2. CASE currentUser # NoUser
    <3>1. /\ Tapped /\ Uncovered /\ deletion' = currentUser /\ asker' = TRUE
          /\ records' = [records EXCEPT ![currentUser] = Absent]
          /\ UNCHANGED <<defaults, decider, account, deleted, app, zoneReads, recent, permission>>
      BY <1>10, <2>2 DEF DeleteUser, RaiseWithoutUser
    <3>2. /\ records' \in [Users -> Record]
          /\ \A v \in Users : records'[v].location \in {NoLocation, records[v].location}
      BY <3>1, <1>i DEF AppTypeOK, Absent, Record
    <3> QED  BY <3>1, <3>2, <1>i, TappedKeepsUser DEF AppTypeOK, defaults
  <2> QED  BY <2>1, <2>2
<1>11. CASE AccountDeleted
  <2>1. /\ currentUser' \in Users \cup {NoUser} /\ orphaned' \in BOOLEAN
        /\ UNCHANGED account \/ orphaned'
        /\ deleted' \in SUBSET Users
        /\ UNCHANGED <<defaults, records, app, screens, deletion, zoneReads, recent,
                       permission, decider>>
    BY <1>11, <1>i DEF AccountDeleted, AppTypeOK, account
  <2> QED  BY <2>1, <1>i DEF UserInv, AppTypeOK, FuzzingDisplaces, SignedHasUser,
             DisabledHidesDecider, defaults, screens, account
<1>12. CASE DeletionSucceeded
  <2>1. /\ screen' \in AfterDeletion /\ asker' = FALSE /\ deletion' = NoUser
        /\ UNCHANGED <<defaults, account, records, deleted, app, zoneReads, recent,
                       permission, decider>>
    BY <1>12 DEF DeletionSucceeded
  <2>2. screen' \in Screens /\ (screen' \in Signed => screen \in Signed)
    <3>1. \/ screen' \in {"leaving", "idle"}
          \/ screen' = "settings" /\ screen = "covered"
          \/ screen' = screen
      BY <2>1 DEF AfterDeletion
    <3> QED  BY <3>1, <1>i DEF AppTypeOK, Screens, SignInStages, Signed, InUse
  <2> QED  BY <2>1, <2>2, <1>i, UserUntouched DEF AppTypeOK
<1>13. CASE DeletionFailed
  <2>1. /\ deletion' = NoUser /\ asker' = FALSE
        /\ (screen' = "covered" /\ screen = "settings") \/ screen' = screen
        /\ UNCHANGED <<defaults, account, records, deleted, app, zoneReads, recent,
                       permission, decider>>
    BY <1>13 DEF DeletionFailed
  <2>2. screen' \in Screens /\ (screen' \in Signed => screen \in Signed)
    BY <2>1, <1>i DEF AppTypeOK, Screens, SignInStages, Signed, InUse
  <2> QED  BY <2>1, <2>2, <1>i, UserUntouched DEF AppTypeOK
<1> QED
  BY <1>1, <1>2, <1>3, <1>4, <1>5, <1>6, <1>7, <1>8, <1>9, <1>10, <1>11, <1>12, <1>13
  DEF SettingsNext

------------------------------------------------------------------------------
(***************************************************************************)
(* The invariant and what follows from it.                                 *)
(***************************************************************************)
LEMMA StutterKeeps == IInv /\ UNCHANGED vars => IInv'
<1> SUFFICES ASSUME IInv, UNCHANGED vars PROVE IInv'  OBVIOUS
<1>1. RequestInv'  BY RequestsUntouched DEF IInv, vars
<1>2. UserInv'
  BY DEF IInv, UserInv, AppTypeOK, FuzzingDisplaces, SignedHasUser, DisabledHidesDecider,
         vars, defaults, account, screens
<1> QED  BY <1>1, <1>2 DEF IInv

\* The invariant is inductive.
THEOREM Invariance == Spec => []IInv
<1>1. Init => IInv  BY InitRequests, InitUser DEF IInv
<1>2. IInv /\ [Next]_vars => IInv'
  <2>1. IInv /\ SystemNext => IInv'
    BY SystemKeepsRequests, SystemKeepsUser DEF IInv
  <2>2. IInv /\ SignInNext => IInv'
    BY SignInKeepsRequests, SignInKeepsUser DEF IInv
  <2>3. IInv /\ SettingsNext => IInv'
    BY SettingsKeepRequests, SettingsKeepUser DEF IInv
  <2>4. IInv /\ ScreenNext => IInv'
    BY ScreensKeepRequests, ScreensKeepUser DEF IInv
  <2> QED  BY <2>1, <2>2, <2>3, <2>4, StutterKeeps DEF Next
<1> QED  BY <1>1, <1>2, PTL DEF Spec

\* Every value the defaults, the database, the screens and the location
\* manager take is one of their types, blocks of the main queue included.
THEOREM TypeCorrect == Spec => []TypeOK
<1>1. IInv => TypeOK  BY DEF IInv, UserInv, RequestInv, TypeOK
<1> QED  BY <1>1, Invariance, PTL

\* "Disable & Hide Location" and "Don't Share Location" hide for good: the user
\* who chose them has no published location until sharing is enabled again.
THEOREM DisablingHides == Spec => []DisabledHidesDecider
<1>1. IInv => DisabledHidesDecider  BY DEF IInv, UserInv
<1> QED  BY <1>1, Invariance, PTL

\* Whatever is presented over the settings, wherever the answer to a deletion
\* finds them and whichever way the user signs out, the map and the settings are
\* in front without a user only after the server has deleted the one signed in.
THEOREM MapAlwaysHasUser == Spec => []MapHasUser
<1>1. IInv => MapHasUser  BY DEF IInv, UserInv, SignedHasUser, MapHasUser, Signed
<1> QED  BY <1>1, Invariance, PTL

\* AppDelegate loses no significant-changes subscription.
THEOREM SignificantAlwaysTracked == Spec => []SignificantIsTracked
<1>1. IInv => SignificantIsTracked  BY DEF IInv, RequestInv
<1> QED  BY <1>1, Invariance, PTL

\* CoreLocation runs what the live subscriptions ask for and nothing longer.
THEOREM HardwareAlwaysFollows == Spec => []HardwareFollowsRequests
<1>1. IInv => HardwareFollowsRequests
  BY DEF IInv, RequestInv, Good, HardwareFollowsRequests
<1> QED  BY <1>1, Invariance, PTL

\* Fuzzing never uses an unset radius or distance.
THEOREM FuzzingAlwaysDisplaces == Spec => []FuzzingDisplaces
<1>1. IInv => FuzzingDisplaces  BY DEF IInv, UserInv
<1> QED  BY <1>1, Invariance, PTL

\* What one step may do to the records.
Writes ==
  /\ \A u \in Users : Publishes(u) => ~disabled
  /\ \A u \in Users : records'[u] # records[u] => currentUser = u

\* A step that changes no record writes what it may.
LEMMA NothingWritten == UNCHANGED records => Writes
<1> QED  BY DEF Writes, Publishes

\* Hiding the current user is no publication.
LEMMA HidingWrites ==
  ASSUME UserInv, currentUser \in Users, records' = Hidden(currentUser)
  PROVE  Writes
<1>1. records \in [Users -> Record]  BY DEF UserInv, AppTypeOK
<1> QED  BY <1>1, HiddenIsHidden DEF Writes, Publishes

\* What the system's steps and the application delegate's write,
LEMMA SystemWrites == IInv /\ SystemNext => Writes
<1> SUFFICES ASSUME IInv, SystemNext PROVE Writes  OBVIOUS
<1>i. UserInv /\ AppTypeOK /\ loc \in Manager
  BY DEF IInv, UserInv, RequestInv, RequestsTypeOK
<1>1. CASE RunLocationBlock
  <2> DEFINE block == Head(loc.mainQueue)
  <2>1. block \in Block  BY <1>1, <1>i DEF RunLocationBlock, Manager
  <2>2. /\ block.kind = "location"
        /\ IF block.ok THEN StoreLocation(block.location)
                       ELSE UNCHANGED <<records, recent, fuzz>>
    BY <1>1 DEF RunLocationBlock
  <2>3. CASE block.ok
    <3>1. block.location \in Spots  BY <2>1, <2>2, <2>3 DEF Block
    <3>2. StoreLocation(block.location)  BY <2>2, <2>3
    <3> HIDE DEF block
    <3>3. /\ disabled => records' = records
          /\ \A u \in Users : u # currentUser => records'[u] = records[u]
      BY <3>1, <3>2, <1>i, StoreWrites
    <3> QED  BY <3>3 DEF Writes, Publishes
  <2>4. CASE ~block.ok
    BY <2>2, <2>4, NothingWritten
  <2> QED  BY <2>3, <2>4
<1>2. CASE RunZoneCheckBlock
  <2>1. CASE records' = records
    BY <2>1, NothingWritten
  <2>2. CASE records' # records
    <3>1. currentUser # NoUser /\ records' = Hidden(currentUser)
      BY <1>2, <2>2 DEF RunZoneCheckBlock
    <3> QED  BY <3>1, <1>i, HidingWrites DEF AppTypeOK
  <2> QED  BY <2>1, <2>2
<1>3. CASE ~RunLocationBlock /\ ~RunZoneCheckBlock
  <2>1. UNCHANGED records
    BY <1>3 DEF SystemNext, DidFinishLaunching, ApplicationDidBecomeActive,
      ApplicationWillResignActive, Killed, LocationReported, ErrorReported,
      PermissionChanged, MinutePasses, ZoneReadAnswered
  <2> QED  BY <2>1, NothingWritten
<1> QED  BY <1>1, <1>2, <1>3

\* what the sign-in writes,
LEMMA SignInWrites == IInv /\ SignInNext => Writes
<1> SUFFICES ASSUME IInv, SignInNext PROVE Writes  OBVIOUS
<1>i. UserInv /\ AppTypeOK  BY DEF IInv, UserInv
<1>1. CASE UNCHANGED records  BY <1>1, NothingWritten
<1>2. CASE ~UNCHANGED records /\ ProfileStored
  <2>1. records' = [records EXCEPT ![currentUser].profile = TRUE]
    BY <1>2 DEF ProfileStored, RaiseWithoutUser
  <2> QED  BY <2>1, <1>i DEF AppTypeOK, Record, Writes, Publishes
<1>3. CASE ~UNCHANGED records /\ DontShareLocation
  <2>1. currentUser # NoUser /\ records' = Hidden(currentUser)
    BY <1>3 DEF DontShareLocation, RaiseWithoutUser
  <2> QED  BY <2>1, <1>i, HidingWrites DEF AppTypeOK
<1>4. ~ProfileStored /\ ~DontShareLocation => UNCHANGED records
  BY DEF SignInNext, CredentialsReceived, SignInFailed, SignInSucceeded,
         SignInRejected, SignInStep, ShareMyLocation
<1> QED  BY <1>1, <1>2, <1>3, <1>4

\* the screens, which write nothing,
LEMMA ScreensWrite == ScreenNext => Writes
<1>1. ScreenNext => UNCHANGED records
  BY DEF ScreenNext, OpenSettings, CloseSettings, CoverSettings, UncoverSettings,
         SettingsDismissed, ScreenStep
<1> QED  BY <1>1, NothingWritten

\* and what the settings write, belongs to the current user.
LEMMA SettingsWrite == IInv /\ SettingsNext => Writes
<1> SUFFICES ASSUME IInv, SettingsNext PROVE Writes  OBVIOUS
<1>i. UserInv /\ AppTypeOK
  BY DEF IInv, UserInv
<1>1. CASE UNCHANGED records  BY <1>1, NothingWritten
<1>2. CASE ~UNCHANGED records /\ DisableLocation
  <2>1. currentUser # NoUser /\ records' = Hidden(currentUser)
    BY <1>2 DEF DisableLocation, RaiseWithoutUser
  <2> QED  BY <2>1, <1>i, HidingWrites DEF AppTypeOK
<1>3. CASE ~UNCHANGED records /\ DeleteUser
  <2>1. records' = [records EXCEPT ![currentUser] = Absent]
    BY <1>3 DEF DeleteUser, RaiseWithoutUser
  <2> QED  BY <2>1, <1>i DEF AppTypeOK, Absent, Writes, Publishes
<1>4. ~DisableLocation /\ ~DeleteUser => UNCHANGED records
  BY DEF SettingsNext, EnableLocation, SelectAccuracy, SaveZone, DeleteZone, SignOutUser,
         FuzzSwitchChanged, RadiusSliderChanged, DistanceSegmentChanged, ChangeFuzzing,
         AccountDeleted, DeletionSucceeded, DeletionFailed, RaiseWithoutUser
<1> QED  BY <1>1, <1>2, <1>3, <1>4

\* Every step writes only what it may.
LEMMA StepWrites == IInv /\ [Next]_vars => Writes
<1>1. UNCHANGED vars => Writes  BY NothingWritten DEF vars
<1> QED  BY <1>1, SystemWrites, SignInWrites, ScreensWrite, SettingsWrite DEF Next

\* A disabled device publishes nothing, whatever blocks were already waiting.
THEOREM NothingPublishedWhileDisabled == Spec => NoPublishWhileDisabled
<1>1. IInv /\ [Next]_vars => [\A u \in Users : Publishes(u) => ~disabled]_vars
  BY StepWrites DEF Writes
<1> QED  BY <1>1, Invariance, PTL DEF Spec, NoPublishWhileDisabled

\* No late answer of a former user's calls writes the record of another.
THEOREM RecordsAreOwn == Spec => OnlyOwnRecordWritten
<1>1. IInv /\ [Next]_vars
        => [\A u \in Users : records'[u] # records[u] => currentUser = u]_vars
  BY StepWrites DEF Writes
<1> QED  BY <1>1, Invariance, PTL DEF Spec, OnlyOwnRecordWritten

------------------------------------------------------------------------------
(***************************************************************************)
(* LocationSharing implements Publication: its initial states map to       *)
(* initial states, and each of its steps to a step or to a stutter.        *)
(*                                                                         *)
(* Most events keep the user and the default; what such an event may do to *)
(* the records (Writes) is a Publish, a Withdraw or nothing.  The events   *)
(* left change the user or decide about sharing.                           *)
(***************************************************************************)
Shown == [u \in Users |-> records[u].location]

Maps == [P!Next]_(P!vars)

\* The first state maps to a first state.
LEMMA InitMaps == Init => P!Init
BY DEF Init, P!Init, Absent

------------------------------------------------------------------------------
\* A write of one's own record maps to a step.
LEMMA OwnRecordMaps ==
  ASSUME AppTypeOK, AppTypeOK', Writes, UNCHANGED <<currentUser, disabled>>
  PROVE  Maps
<1> DEFINE place == records'[currentUser].location
<1>1. CASE Shown' = Shown
  BY <1>1 DEF Maps, P!vars, Shown
<1>2. CASE Shown' # Shown
  <2>1. PICK u \in Users : records'[u].location # records[u].location
    BY <1>2 DEF Shown
  <2>2. currentUser = u  BY <2>1 DEF Writes
  <2>3. \A v \in Users : v # u => records'[v] = records[v]  BY <2>2 DEF Writes
  <2>4. Shown' = [Shown EXCEPT ![currentUser] = place]
    <3>1. \A v \in Users : records'[v].location
                              = IF v = currentUser THEN place ELSE records[v].location
      BY <2>2, <2>3
    <3> HIDE DEF place
    <3> QED  BY <2>2, <3>1 DEF Shown
  <2>5. CASE place = NoLocation
    <3>1. P!Withdraw  BY <2>2, <2>4, <2>5 DEF P!Withdraw, P!Show, Shown
    <3> QED  BY <3>1 DEF Maps, P!Next
  <2>6. CASE place # NoLocation
    <3>1. ~disabled  BY <2>1, <2>2, <2>6 DEF Writes, Publishes
    <3>2. PICK spot \in Spots : spot = place  BY <2>2, <2>6 DEF AppTypeOK, Record
    <3> HIDE DEF place
    <3>3. P!Show(spot)  BY <2>4, <3>2 DEF P!Show, Shown
    <3>4. P!Publish(spot)  BY <2>2, <3>1, <3>3, Zenon DEF P!Publish
    <3> QED  BY <3>4 DEF Maps, P!Next
  <2> QED  BY <2>5, <2>6
<1> QED  BY <1>1, <1>2

\* A change of the current user maps to a step,
LEMMA UserChangeMaps ==
  ASSUME AppTypeOK', UNCHANGED <<disabled, records>>
  PROVE  Maps
<1>1. P!ChangeUser  BY DEF P!ChangeUser, AppTypeOK
<1> QED  BY <1>1 DEF Maps, P!Next

\* so does enabling the sharing,
LEMMA EnablingMaps ==
  ASSUME disabled' = FALSE, UNCHANGED <<currentUser, records>>
  PROVE  Maps
<1>1. P!Enable  BY DEF P!Enable
<1> QED  BY <1>1 DEF Maps, P!Next

\* and disabling it.
LEMMA DisablingMaps ==
  ASSUME AppTypeOK, currentUser \in Users, disabled' = TRUE,
         records' = Hidden(currentUser), UNCHANGED currentUser
  PROVE  Maps
<1>1. Shown' = [Shown EXCEPT ![currentUser] = NoLocation]
  BY HiddenIsHidden DEF AppTypeOK, Shown
<1>2. P!Disable  BY <1>1 DEF P!Disable, P!Show, Shown
<1> QED  BY <1>2 DEF Maps, P!Next

\* Disabling with nobody signed in hides nobody.
LEMMA DisablingNobodyMaps ==
  ASSUME currentUser = NoUser, disabled' = TRUE, UNCHANGED <<currentUser, records>>
  PROVE  Maps
<1>1. P!Disable  BY UsersAssumption DEF P!Disable
<1> QED  BY <1>1 DEF Maps, P!Next

------------------------------------------------------------------------------
\* The steps of the system and of the application delegate map to steps,
LEMMA SystemMaps == IInv /\ IInv' /\ SystemNext => Maps
<1> SUFFICES ASSUME IInv, IInv', SystemNext PROVE Maps  OBVIOUS
<1>1. UNCHANGED <<currentUser, disabled>>
  BY DEF SystemNext, DidFinishLaunching, ApplicationDidBecomeActive,
     ApplicationWillResignActive, Killed, LocationReported, ErrorReported,
     PermissionChanged, MinutePasses, RunLocationBlock, ZoneReadAnswered,
     RunZoneCheckBlock, defaults, account
<1> QED  BY <1>1, SystemWrites, OwnRecordMaps DEF IInv, UserInv

\* so do those of the sign-in,
LEMMA SignInMaps == IInv /\ IInv' /\ SignInNext => Maps
<1> SUFFICES ASSUME IInv, IInv', SignInNext PROVE Maps  OBVIOUS
<1>i. AppTypeOK /\ AppTypeOK'
  BY DEF IInv, UserInv
<1>1. CASE CredentialsReceived \/ SignInFailed \/ ProfileStored
  <2>1. UNCHANGED <<currentUser, disabled>>
    BY <1>1 DEF CredentialsReceived, SignInFailed, ProfileStored, SignInStep,
                RaiseWithoutUser, defaults, account
  <2> QED  BY <2>1, <1>i, SignInWrites, OwnRecordMaps
<1>2. CASE (\E u \in Users : SignInSucceeded(u)) \/ SignInRejected
  BY <1>2, <1>i, UserChangeMaps DEF SignInSucceeded, SignInRejected, SignInStep, defaults
<1>3. CASE ShareMyLocation
  BY <1>3, <1>i, EnablingMaps DEF ShareMyLocation, Decide, account
<1>4. CASE DontShareLocation
  <2>1. CASE currentUser = NoUser
    BY <1>4, <2>1, DisablingNobodyMaps DEF DontShareLocation, Decide, RaiseWithoutUser
  <2>2. CASE currentUser # NoUser
    <3>1. disabled' = TRUE /\ records' = Hidden(currentUser) /\ UNCHANGED currentUser
      BY <1>4, <2>2 DEF DontShareLocation, Decide, RaiseWithoutUser, account
    <3> QED  BY <3>1, <2>2, <1>i, DisablingMaps DEF AppTypeOK
  <2> QED  BY <2>1, <2>2
<1> QED  BY <1>1, <1>2, <1>3, <1>4 DEF SignInNext

\* those of the screens, which nobody else sees,
LEMMA ScreensMap == ScreenNext => Maps
<1>1. ScreenNext => UNCHANGED <<account, defaults, records>>
  BY DEF ScreenNext, OpenSettings, CloseSettings, CoverSettings, UncoverSettings,
         SettingsDismissed, ScreenStep
<1> QED  BY <1>1 DEF Maps, P!vars, account, defaults

\* and those of the settings.
LEMMA SettingsMap == IInv /\ IInv' /\ SettingsNext => Maps
<1> SUFFICES ASSUME IInv, IInv', SettingsNext PROVE Maps  OBVIOUS
<1>i. AppTypeOK /\ AppTypeOK'
  BY DEF IInv, UserInv
<1>1. CASE EnableLocation
  BY <1>1, <1>i, EnablingMaps DEF EnableLocation, Decide, account
<1>2. CASE DisableLocation
  <2>1. CASE currentUser = NoUser
    BY <1>2, <2>1, DisablingNobodyMaps DEF DisableLocation, Decide, RaiseWithoutUser
  <2>2. CASE currentUser # NoUser
    <3>1. disabled' = TRUE /\ records' = Hidden(currentUser) /\ UNCHANGED currentUser
      BY <1>2, <2>2 DEF DisableLocation, Decide, RaiseWithoutUser, account
    <3> QED  BY <3>1, <2>2, <1>i, DisablingMaps DEF AppTypeOK
  <2> QED  BY <2>1, <2>2
<1>3. CASE SignOutUser \/ AccountDeleted
  BY <1>3, <1>i, UserChangeMaps DEF SignOutUser, AccountDeleted, defaults
<1>4. CASE ~(EnableLocation \/ DisableLocation \/ SignOutUser \/ AccountDeleted)
  <2>1. UNCHANGED <<currentUser, disabled>>
    BY <1>4 DEF SettingsNext, SelectAccuracy, SaveZone, DeleteZone, FuzzSwitchChanged,
       RadiusSliderChanged, DistanceSegmentChanged, ChangeFuzzing, DeleteUser,
       DeletionSucceeded, DeletionFailed, RaiseWithoutUser, defaults, account
  <2> QED  BY <2>1, <1>i, SettingsWrite, OwnRecordMaps
<1> QED  BY <1>1, <1>2, <1>3, <1>4

\* Every event of the app is a step of Publication or invisible to it: users
\* are published only by themselves and while sharing is enabled, and disabling
\* takes them off the map at once.
THEOREM Implementation == Spec => ImplementsPublication
<1>1. IInv /\ IInv' /\ [Next]_vars => Maps
  <2>1. IInv /\ UNCHANGED vars => Maps
    BY DEF vars, defaults, account, Maps, P!vars
  <2> QED  BY <2>1, SystemMaps, SignInMaps, ScreensMap, SettingsMap DEF Next
<1>2. IInv /\ IInv' /\ [Next]_vars => [P!Next]_(P!vars)  BY <1>1 DEF Maps
<1> QED
  BY InitMaps, <1>2, Invariance, PTL DEF Spec, ImplementsPublication, P!Spec
================================================================================
