--------------------------- MODULE LocationManager ---------------------------
(***************************************************************************)
(* INTULocationManager, the location manager the app subscribes to, and    *)
(* the main dispatch queue on which it calls its subscribers back.         *)
(*                                                                         *)
(* The manager is driven from the main thread only: by the app, which adds *)
(* and cancels requests, and by CoreLocation, which reports locations,     *)
(* errors and permission changes.  Its state is therefore one record,      *)
(*                                                                         *)
(*   requests    the live requests (the order of the array only orders     *)
(*               blocks that are equal, so it is a set)                    *)
(*   location    the last location received, or NoLocation                 *)
(*   failed      the last report was an error                              *)
(*   updating    CoreLocation runs standard updates for the app            *)
(*   monitoring  CoreLocation is registered for significant changes; the   *)
(*               registration survives the process                         *)
(*   desired     the accuracy asked of CoreLocation; it matters only while *)
(*               updating, and every start sets it                         *)
(*   mainQueue   the blocks dispatched to the main queue and not yet run   *)
(*                                                                         *)
(* and every operation a function from such a record to the next.  A block *)
(* holds the location and the status of the moment it was dispatched: it   *)
(* runs even if its request has been cancelled by then.                    *)
(***************************************************************************)
EXTENDS Integers, Sequences, FiniteSets

CONSTANTS
  Spots,       \* the places the device can be at
  NoLocation,  \* nil: no location known, or no location published
  RequestIDs,  \* identifiers a live request can have; bounds the live requests
  NoRequest,   \* an identifier no request has: 0 at launch, NSNotFound after
  Accuracies   \* the accuracies the app may ask for: City = 1 ... Room = 5

ASSUME SpotsAssumption      == NoLocation \notin Spots
ASSUME RequestsAssumption   == IsFiniteSet(RequestIDs) /\ NoRequest \notin RequestIDs
ASSUME AccuraciesAssumption == Accuracies \subseteq 1..5

Kinds       == {"subscription", "significantChanges"}
Permissions == {"notDetermined", "authorized", "denied"}

\* A significant-changes request has no desired accuracy (None).
Request == {r \in [id : RequestIDs, kind : Kinds, accuracy : 0..5] :
              r.accuracy = 0 <=> r.kind = "significantChanges"}

\* A block on the main queue: a location callback, or the answer to the read
\* that PrivacyZoneViewController makes of the user's stored location.  The
\* callback of a success carries a location.
Block == {b \in [kind : {"location", "zoneCheck"}, location : Spots \cup {NoLocation},
                 ok : BOOLEAN] :
            b.kind = "location" /\ b.ok => b.location \in Spots}

Manager == [requests   : SUBSET Request,
            location   : Spots \cup {NoLocation},
            failed     : BOOLEAN,
            updating   : BOOLEAN,
            monitoring : BOOLEAN,
            desired    : 0..5,
            mainQueue  : Seq(Block)]

\* A manager in a new process; the registration for significant changes is
\* the system's and is there already when the process starts.
NewManager(registered) ==
  [requests |-> {}, location |-> NoLocation, failed |-> FALSE, updating |-> FALSE,
   monitoring |-> registered, desired |-> 0, mainQueue |-> <<>>]

OfKind(requests, k) == {r \in requests : r.kind = k}

\* Every request of the app is recurring, so its status is a success unless
\* the permission is missing or the last report was an error.
Succeeds(m, permission) == permission = "authorized" /\ ~m.failed

\* n copies of the block a recurring request is called with.
Dispatched(m, n, permission) ==
  [m EXCEPT !.mainQueue =
     @ \o [i \in 1..n |-> [kind |-> "location", location |-> m.location,
                           ok |-> Succeeds(m, permission)]]]

ProcessLocationRequests(m, permission) ==
  IF m.location = NoLocation
  THEN m
  ELSE Dispatched(m, Cardinality(m.requests), permission)

\* The largest accuracy asked by the standard requests; 0 (None) without any.
MaximumDesiredAccuracy(requests) ==
  LET asked == {r.accuracy : r \in OfKind(requests, "subscription")}
  IN  CHOOSE a \in asked \cup {0} : \A b \in asked : b <= a

\* None leaves CoreLocation's accuracy alone.
UpdateWithMaximumDesiredAccuracy(m, a) ==
  IF a = 0 THEN m ELSE [m EXCEPT !.desired = a]

\* Mutant: CoreLocation's accuracy is not lowered when a request goes away.
RemoveKeepingAccuracy(m, r) ==
  LET rest == m.requests \ {r}
      left == [m EXCEPT !.requests = rest]
  IN  IF r.kind = "subscription"
      THEN [left EXCEPT !.updating = @ /\ OfKind(rest, "subscription") # {}]
      ELSE [left EXCEPT !.monitoring = @ /\ OfKind(rest, "significantChanges") # {}]

RemoveLocationRequest(m, r) ==
  LET rest == m.requests \ {r}
      left == [m EXCEPT !.requests = rest]
  IN  IF r.kind = "subscription"
      THEN [UpdateWithMaximumDesiredAccuracy(left, MaximumDesiredAccuracy(rest))
              EXCEPT !.updating = @ /\ OfKind(rest, "subscription") # {}]
      ELSE [left EXCEPT !.monitoring = @ /\ OfKind(rest, "significantChanges") # {}]

\* A completed request is removed and its block dispatched a last time.
CompleteLocationRequest(m, r, permission) ==
  Dispatched(RemoveLocationRequest(m, r), 1, permission)

AddLocationRequest(m, r, permission) ==
  LET others  == OfKind(m.requests, r.kind)
      highest == MaximumDesiredAccuracy(m.requests)
      wanted  == IF r.accuracy > highest THEN r.accuracy ELSE highest
      started == IF r.kind = "subscription"
                 THEN [UpdateWithMaximumDesiredAccuracy(m, wanted)
                         EXCEPT !.updating = @ \/ others = {}]
                 ELSE [m EXCEPT !.monitoring = @ \/ others = {}]
  IN  IF permission = "denied"
      THEN CompleteLocationRequest(m, r, permission)
      ELSE ProcessLocationRequests([started EXCEPT !.requests = @ \cup {r}], permission)

\* Cancelling an identifier that no live request has does nothing.
CancelLocationRequest(m, id) ==
  IF \E r \in m.requests : r.id = id
  THEN RemoveLocationRequest(m, CHOOSE r \in m.requests : r.id = id)
  ELSE m

\* Each removal stops what no remaining request needs; together they stop
\* what the removed requests had started.
CompleteAllLocationRequests(m, permission) ==
  Dispatched([m EXCEPT !.requests   = {},
                       !.updating   = @ /\ OfKind(m.requests, "subscription") = {},
                       !.monitoring = @ /\ OfKind(m.requests, "significantChanges") = {}],
             Cardinality(m.requests), permission)

DidUpdateLocations(m, spot, permission) ==
  ProcessLocationRequests([m EXCEPT !.failed = FALSE, !.location = spot], permission)

\* An error is reported to every recurring request and keeps it alive.
DidFailWithError(m, permission) ==
  LET erring == [m EXCEPT !.failed = TRUE]
  IN  Dispatched(erring, Cardinality(m.requests), permission)

DidChangeAuthorizationStatus(m, permission) ==
  IF permission = "denied" THEN CompleteAllLocationRequests(m, permission) ELSE m

------------------------------------------------------------------------------
\* What CoreLocation runs is what the live requests ask for: standard updates
\* exactly while there is a subscription, at the highest accuracy asked by
\* one, and a registration while a significant-changes request lives.
HardwareFollows(m) ==
  LET asked == OfKind(m.requests, "subscription")
  IN  /\ m.updating <=> asked # {}
      /\ m.updating => /\ \A r \in asked : r.accuracy <= m.desired
                       /\ \E r \in asked : r.accuracy = m.desired
      /\ OfKind(m.requests, "significantChanges") # {} => m.monitoring
==============================================================================
