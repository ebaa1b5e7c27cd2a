--------------------------- MODULE LocationSharing ---------------------------
(***************************************************************************)
(* How the app shares the device's location: AppDelegate's subscriptions   *)
(* and storeLocation, the switch under the map, the question asked at      *)
(* sign-in, the settings (accuracy, privacy zone, fuzzing, sign-out,       *)
(* account deletion), and the user's record in the Firebase database.      *)
(*                                                                         *)
(* Everything here runs on the main thread.  An action is one event of its *)
(* run loop: a delegate call of UIKit or CoreLocation, a tap, a block of   *)
(* the main queue, or the completion of a Firebase call.                   *)
(***************************************************************************)
EXTENDS LocationManager

CONSTANTS
  Users,           \* accounts (Firebase uids); a deleted one never comes back
  NoUser,          \* nil
  Zones,           \* the privacy zones that can be drawn: sets of spots
  Distances,       \* fuzzing distances of the segmented control
  Radii,           \* radii of the fuzzing slider
  Bearings,        \* values of arc4random() % 359
  FromVenue,       \* FromVenue[s]: distance of spot s from the conference
  Displace,        \* Displace[s, b, d]: the spot at distance d, bearing b of s
  Settable,        \* the permissions iOS may give or take
  LocationFails,   \* whether CoreLocation reports errors
  MaxQueue         \* bound on the blocks waiting in the main queue

DefaultAccuracy == 3      \* INTULocationAccuracyBlock
DefaultRadius   == 2000
DefaultDistance == 2000
Unset           == -1     \* a radius or a distance never set

ASSUME UsersAssumption  == NoUser \notin Users
ASSUME ZonesAssumption  == Zones \subseteq SUBSET Spots
ASSUME FuzzAssumption   ==
  /\ Distances \subseteq Nat /\ Radii \subseteq Nat /\ Bearings \subseteq 0..358
  /\ FromVenue \in [Spots -> Nat]
  /\ Displace \in [Spots \X Bearings \X (Distances \cup {DefaultDistance}) -> Spots]
ASSUME SystemAssumption ==
  Settable \subseteq Permissions /\ LocationFails \in BOOLEAN /\ MaxQueue \in Nat

VARIABLES
  \* NSUserDefaults: kept when the process dies
  disabled,              \* DDFLocationDisabled
  zone,                  \* DDFPrivacyZone; {} when there is none
  accuracy,              \* DDFAccuracy, or its default
  fuzz,                  \* DDFLocationFuzzing...: enabled, radius, distance, bearing
  \* Firebase: kept when the process dies
  currentUser,           \* [FIRAuth auth].currentUser
  records,               \* users/<uid>: is there a profile, which location is shown
  deleted,               \* accounts whose deletion has succeeded
  \* the process
  app,                   \* "dead", "inactive" (or in the background), "active"
  screen,                \* what is in front: see Screens
  deletion,              \* the account whose deletion has not been answered yet
  asker,                 \* the Settings that asked for it are still presented
  zoneReads,             \* users whose record saveZone is reading
  locationRequestID,     \* AppDelegate's handle on its standard subscription
  significantRequestID,  \* AppDelegate's handle on its significant-change one
  recent,                \* lastLocationUpdateTime is less than a minute ago
  loc,                   \* INTULocationManager and the main queue
  permission,            \* what iOS lets the app do
  \* history
  orphaned,              \* the account signed in was deleted, nobody has signed in since
  decider                \* while "disabled" is set, the user signed in when it was

defaults == <<disabled, zone, accuracy, fuzz>>
handles  == <<locationRequestID, significantRequestID>>
account  == <<currentUser, orphaned>>
screens  == <<screen, asker>>
vars == <<defaults, account, records, deleted, app, screens, deletion, zoneReads,
          handles, recent, loc, permission, decider>>

Record == [profile : BOOLEAN, location : Spots \cup {NoLocation}]
Absent == [profile |-> FALSE, location |-> NoLocation]

FuzzSettings == [enabled  : BOOLEAN,
                 radius   : Radii \cup {Unset, DefaultRadius},
                 distance : Distances \cup {Unset, DefaultDistance},
                 bearing  : Bearings \cup {0}]

\* AuthViewController is in front, at some stage of its sign-in.
SignInStages == {"idle", "inFlight", "completing", "asking"}

\* The map, or a page or a list presented over it; the settings; an alert or a
\* page over the settings.
InUse == {"map", "settings", "covered"}

\* "leaving": the settings are on their way out, AuthViewController to follow.
Screens == InUse \cup {"leaving"} \cup SignInStages

\* The defaults, the database, the screens.
AppTypeOK ==
  /\ disabled \in BOOLEAN
  /\ zone \in SUBSET Spots
  /\ accuracy \in 1..5
  /\ fuzz \in FuzzSettings
  /\ currentUser \in Users \cup {NoUser}
  /\ records \in [Users -> Record]
  /\ deleted \in SUBSET Users
  /\ app \in {"dead", "inactive", "active"}
  /\ screen \in Screens
  /\ deletion \in Users \cup {NoUser}
  /\ asker \in BOOLEAN
  /\ zoneReads \in SUBSET Users
  /\ recent \in BOOLEAN
  /\ permission \in Permissions
  /\ orphaned \in BOOLEAN
  /\ decider \in Users \cup {NoUser}

\* The subscriptions.
RequestsTypeOK ==
  /\ loc \in Manager
  /\ locationRequestID \in RequestIDs \cup {NoRequest}
  /\ significantRequestID \in RequestIDs \cup {NoRequest}

TypeOK == AppTypeOK /\ RequestsTypeOK

\* A fresh install.
Init ==
  /\ disabled = FALSE
  /\ zone = {}
  /\ accuracy = DefaultAccuracy
  /\ fuzz = [enabled |-> FALSE, radius |-> Unset, distance |-> Unset, bearing |-> 0]
  /\ currentUser = NoUser
  /\ records = [u \in Users |-> Absent]
  /\ deleted = {}
  /\ app = "dead"
  /\ screen = "map"
  /\ deletion = NoUser
  /\ asker = FALSE
  /\ zoneReads = {}
  /\ locationRequestID = NoRequest
  /\ significantRequestID = NoRequest
  /\ recent = FALSE
  /\ loc = NewManager(FALSE)
  /\ permission \in Settable
  /\ orphaned = FALSE
  /\ decider = NoUser

------------------------------------------------------------------------------
(***************************************************************************)
(* AppDelegate's subscriptions.  Identifiers grow without bound in the     *)
(* code; here a new one is any that no live request and no handle holds.   *)
(***************************************************************************)
Fresh(m, held) == RequestIDs \ ({r.id : r \in m.requests} \cup held)

Room == Len(loc'.mainQueue) <= MaxQueue

\* fetchLocationChanges, called when the manager is m and the handles hold
\* location and significant; the defaults are read as the step leaves them.
\* The handle on an earlier subscription is overwritten, not cancelled.
FetchLocationChanges(m, location, significant) ==
  LET fresh == Fresh(m, {location, significant})
      id    == CHOOSE i \in fresh : TRUE
  IN  /\ significantRequestID' = significant
      /\ \/ disabled' /\ loc' = m /\ locationRequestID' = location
         \/ /\ ~disabled'
            /\ fresh # {}
            /\ locationRequestID' = id
            /\ loc' = AddLocationRequest(m,
                        [id |-> id, kind |-> "subscription", accuracy |-> accuracy'],
                        permission)
      /\ Room

FetchSignificantLocationChanges(m, location, significant) ==
  LET fresh == Fresh(m, {location, significant})
      id    == CHOOSE i \in fresh : TRUE
  IN  /\ locationRequestID' = location
      /\ \/ disabled' /\ loc' = m /\ significantRequestID' = significant
         \/ /\ ~disabled'
            /\ fresh # {}
            /\ significantRequestID' = id
            /\ loc' = AddLocationRequest(m,
                        [id |-> id, kind |-> "significantChanges", accuracy |-> 0],
                        permission)
      /\ Room

\* Mutant: stopLocationUpdates forgets the significant-change subscription.
StoppedButSignificant == CancelLocationRequest(loc, locationRequestID)

\* The manager after stopLocationUpdates, which clears both handles too.
Stopped ==
  CancelLocationRequest(CancelLocationRequest(loc, locationRequestID), significantRequestID)

ResetLocationUpdates == FetchLocationChanges(Stopped, NoRequest, NoRequest)

------------------------------------------------------------------------------
(***************************************************************************)
(* The life of the process.                                                *)
(***************************************************************************)

\* Launched by the user, or in the background by iOS for a significant change
\* of location if the app was registered for them when it died.
DidFinishLaunching(forLocation) ==
  /\ app = "dead"
  /\ forLocation => loc.monitoring /\ permission = "authorized"
  /\ UNCHANGED <<defaults, account, records, deleted, deletion, asker, zoneReads, recent,
                 permission, decider>>
  /\ app' = "inactive"
  /\ IF currentUser = NoUser
     THEN screen' = "idle" /\ UNCHANGED <<handles, loc>>
     ELSE /\ screen' = "map"
          /\ IF forLocation
             THEN FetchSignificantLocationChanges(loc, NoRequest, NoRequest)
             ELSE FetchLocationChanges(loc, NoRequest, NoRequest)

ApplicationDidBecomeActive ==
  /\ app = "inactive"
  /\ app' = "active"
  /\ UNCHANGED <<defaults, account, records, deleted, screens, deletion, zoneReads,
                 recent, permission, decider>>
  /\ ResetLocationUpdates

ApplicationWillResignActive ==
  /\ app = "active"
  /\ app' = "inactive"
  /\ UNCHANGED <<defaults, account, records, deleted, screens, deletion, zoneReads,
                 recent, permission, decider>>
  /\ FetchSignificantLocationChanges(Stopped, NoRequest, NoRequest)

\* Everything in memory is gone: handles, queue, reads and calls in flight.
\* What CoreLocation was asked for stays, as the manager m left it.
Die(m) ==
  /\ app' = "dead"
  /\ screen' = "map"
  /\ deletion' = NoUser
  /\ asker' = FALSE
  /\ orphaned' = FALSE
  /\ zoneReads' = {}
  /\ locationRequestID' = NoRequest
  /\ significantRequestID' = NoRequest
  /\ recent' = FALSE
  /\ loc' = NewManager(m.monitoring)

\* iOS or the user ends the process; so does an exception that nothing catches.
Killed ==
  /\ app # "dead"
  /\ Die(loc)
  /\ UNCHANGED <<defaults, currentUser, records, deleted, permission, decider>>

------------------------------------------------------------------------------
(***************************************************************************)
(* CoreLocation.                                                           *)
(***************************************************************************)

\* An app that is not active gets reports too, until iOS suspends it.
LocationReported(spot) ==
  /\ permission = "authorized"
  /\ app # "dead"
  /\ loc.updating \/ loc.monitoring
  /\ loc' = DidUpdateLocations(loc, spot, permission)
  /\ Room
  /\ UNCHANGED <<defaults, account, records, deleted, app, screens, deletion, zoneReads,
                 handles, recent, permission, decider>>

ErrorReported ==
  /\ LocationFails
  /\ app # "dead" /\ loc.updating
  /\ ~loc.failed
  /\ loc' = DidFailWithError(loc, permission)
  /\ Room
  /\ UNCHANGED <<defaults, account, records, deleted, app, screens, deletion, zoneReads,
                 handles, recent, permission, decider>>

\* The user answers iOS or changes the answer in the Settings app: in both
\* cases this app is not the active one.
PermissionChanged(p) ==
  /\ app # "active"
  /\ p # permission
  /\ p # "notDetermined"
  /\ permission' = p
  /\ loc' = IF app = "dead" THEN loc ELSE DidChangeAuthorizationStatus(loc, p)
  /\ Room
  /\ UNCHANGED <<defaults, account, records, deleted, app, screens, deletion, zoneReads,
                 handles, recent, decider>>

\* A minute has passed since lastLocationUpdateTime.
MinutePasses ==
  /\ recent
  /\ recent' = FALSE
  /\ UNCHANGED <<defaults, account, records, deleted, app, screens, deletion, zoneReads,
                 handles, loc, permission, decider>>

------------------------------------------------------------------------------
(***************************************************************************)
(* Blocks of the main queue.                                               *)
(***************************************************************************)
Hidden(u) == [records EXCEPT ![u].location = NoLocation]

Fuzzed(spot) == fuzz.enabled /\ FromVenue[spot] > fuzz.radius

\* A bearing of 0 reads as unset, so it is drawn again.
BearingsFor(spot) ==
  IF Fuzzed(spot) /\ fuzz.bearing = 0 THEN Bearings ELSE {fuzz.bearing}

\* Mutant: storeLocation trusts that a cancelled subscription is silent.
StoreLocationUnguarded(spot) ==
  IF spot \in zone \/ recent \/ currentUser = NoUser
  THEN UNCHANGED <<records, recent, fuzz>>
  ELSE /\ records' = [records EXCEPT ![currentUser].location = spot]
       /\ recent' = TRUE
       /\ UNCHANGED fuzz

\* The guards run when the block does, not when it was dispatched.
StoreLocation(spot) ==
  IF disabled \/ spot \in zone \/ recent
  THEN UNCHANGED <<records, recent, fuzz>>
  ELSE \E bearing \in BearingsFor(spot) :
         LET stored == IF Fuzzed(spot)
                       THEN Displace[spot, bearing, fuzz.distance] ELSE spot
         IN  /\ fuzz' = [fuzz EXCEPT !.bearing = bearing]
             /\ records' = IF currentUser = NoUser THEN records
                           ELSE [records EXCEPT ![currentUser].location = stored]
             /\ recent' = TRUE

RunLocationBlock ==
  /\ app # "dead"
  /\ loc.mainQueue # <<>>
  /\ LET block == Head(loc.mainQueue)
     IN  /\ block.kind = "location"
         /\ IF block.ok THEN StoreLocation(block.location)
                        ELSE UNCHANGED <<records, recent, fuzz>>
  /\ loc' = [loc EXCEPT !.mainQueue = Tail(@)]
  /\ UNCHANGED <<disabled, zone, accuracy, account, deleted, app, screens, deletion,
                 zoneReads, handles, permission, decider>>

\* Mutant: the answer is acted upon at once, for the user who was read.
ZoneReadHides(u) ==
  /\ u \in zoneReads
  /\ zoneReads' = zoneReads \ {u}
  /\ records' = IF records[u].location \in zone THEN Hidden(u) ELSE records
  /\ UNCHANGED <<defaults, account, deleted, app, screens, deletion, handles, recent,
                 loc, permission, decider>>

\* Mutant: an answer that arrives while the app is not active is dropped.
ZoneReadDropped(u) ==
  /\ u \in zoneReads
  /\ Len(loc.mainQueue) < MaxQueue
  /\ zoneReads' = zoneReads \ {u}
  /\ loc' = IF app # "active" THEN loc
            ELSE [loc EXCEPT !.mainQueue =
                    Append(@, [kind |-> "zoneCheck", location |-> records[u].location,
                               ok |-> TRUE])]
  /\ UNCHANGED <<defaults, account, records, deleted, app, screens, deletion, handles,
                 recent, permission, decider>>

\* Firebase answers saveZone's read with the record as it is now; the block
\* that looks at the answer is queued behind those already waiting.
ZoneReadAnswered(u) ==
  /\ u \in zoneReads
  /\ Len(loc.mainQueue) < MaxQueue
  /\ zoneReads' = zoneReads \ {u}
  /\ loc' = [loc EXCEPT !.mainQueue =
               Append(@, [kind |-> "zoneCheck", location |-> records[u].location,
                          ok |-> TRUE])]
  /\ UNCHANGED <<defaults, account, records, deleted, app, screens, deletion, handles,
                 recent, permission, decider>>

\* The zone and the user are those of the moment the block runs.  Without a
\* user, child:nil raises an exception that nothing catches.
RunZoneCheckBlock ==
  /\ app # "dead"
  /\ loc.mainQueue # <<>>
  /\ LET block == Head(loc.mainQueue)
         found == block.location \in zone
     IN  /\ block.kind = "zoneCheck"
         /\ \/ /\ found /\ currentUser = NoUser
               /\ Die(loc)
               /\ UNCHANGED records
            \/ /\ ~(found /\ currentUser = NoUser)
               /\ records' = IF found THEN Hidden(currentUser) ELSE records
               /\ loc' = [loc EXCEPT !.mainQueue = Tail(@)]
               /\ UNCHANGED <<app, screens, orphaned, deletion, zoneReads, handles, recent>>
  /\ UNCHANGED <<defaults, currentUser, deleted, permission, decider>>

------------------------------------------------------------------------------
(***************************************************************************)
(* Signing in: AuthViewController, from Twitter's credentials on.          *)
(***************************************************************************)
SignInStep(from, to) ==
  /\ app # "dead"
  /\ screen = from
  /\ screen' = to
  /\ UNCHANGED <<defaults, deleted, app, deletion, asker, zoneReads, handles, recent, loc,
                 permission, decider>>

CredentialsReceived == SignInStep("idle", "inFlight") /\ UNCHANGED <<account, records>>

SignInFailed == SignInStep("inFlight", "idle") /\ UNCHANGED <<account, records>>

\* FIRAuth has a current user before the completion block runs.
SignInSucceeded(u) ==
  /\ SignInStep("inFlight", "completing")
  /\ u \notin deleted
  /\ currentUser' = u
  /\ orphaned' = FALSE
  /\ UNCHANGED records

\* No Twitter id or no display name: signed out again.
SignInRejected ==
  /\ SignInStep("completing", "idle")
  /\ currentUser' = NoUser
  /\ UNCHANGED <<orphaned, records>>

\* A handler that addresses users/<nil> (child: raises on nil) ends the process;
\* what it did to the manager before, m, stays done.
RaiseWithoutUser(m) ==
  /\ currentUser = NoUser
  /\ Die(m)
  /\ UNCHANGED <<currentUser, records, deleted, permission>>

ProfileStored ==
  \/ /\ SignInStep("completing", "asking")
     /\ currentUser # NoUser
     /\ records' = [records EXCEPT ![currentUser].profile = TRUE]
     /\ UNCHANGED account
  \/ /\ app # "dead" /\ screen = "completing"
     /\ RaiseWithoutUser(loc)
     /\ UNCHANGED <<defaults, decider>>

Asked == app = "active" /\ screen = "asking"

\* DDFLocationDisabled is set or cleared, whoever is signed in.
Decide(d) ==
  /\ disabled' = d
  /\ decider' = IF d THEN currentUser ELSE NoUser
  /\ UNCHANGED <<zone, accuracy, fuzz>>

ShareMyLocation ==
  /\ Asked
  /\ Decide(FALSE)
  /\ screen' = "map"
  /\ FetchLocationChanges(loc, locationRequestID, significantRequestID)
  /\ UNCHANGED <<account, records, deleted, app, asker, deletion, zoneReads, recent,
                 permission>>

\* Mutant: only future locations are withheld.
DontShareFromNowOn ==
  /\ Asked
  /\ Decide(TRUE)
  /\ screen' = "map"
  /\ UNCHANGED <<account, records, deleted, app, asker, deletion, zoneReads, handles,
                 recent, loc, permission>>

DontShareLocation ==
  /\ Asked
  /\ Decide(TRUE)
  /\ \/ RaiseWithoutUser(loc)
     \/ /\ currentUser # NoUser
        /\ screen' = "map"
        /\ records' = Hidden(currentUser)
        /\ UNCHANGED <<account, deleted, app, asker, deletion, zoneReads, handles, recent,
                       loc, permission>>

------------------------------------------------------------------------------
(***************************************************************************)
(* What is in front.  The map presents the settings, the settings present  *)
(* alerts and pages.  UIKit presents nothing on a controller that presents *)
(* something already, and dismissing a controller that presents something  *)
(* dismisses that.                                                         *)
(***************************************************************************)
ScreenStep(from, to) ==
  /\ screen = from
  /\ screen' = to
  /\ UNCHANGED <<defaults, account, records, deleted, app, deletion, zoneReads, handles,
                 recent, loc, permission, decider>>

OpenSettings == app = "active" /\ ScreenStep("map", "settings") /\ UNCHANGED asker

CloseSettings == app = "active" /\ ScreenStep("settings", "map") /\ asker' = FALSE

\* An alert or a page opens over the settings, or goes without an effect.
CoverSettings == app = "active" /\ ScreenStep("settings", "covered") /\ UNCHANGED asker

UncoverSettings == app = "active" /\ ScreenStep("covered", "settings") /\ UNCHANGED asker

\* The completion of the animated dismissal presents AuthViewController.
SettingsDismissed == app # "dead" /\ ScreenStep("leaving", "idle") /\ asker' = FALSE

------------------------------------------------------------------------------
(***************************************************************************)
(* The map's switch and the settings.                                      *)
(***************************************************************************)
OnMap == app = "active" /\ screen = "map"

\* Mutant: the switch clears the default and leaves subscribing to the next
\* activation.
EnableLater ==
  /\ OnMap /\ disabled
  /\ Decide(FALSE)
  /\ UNCHANGED <<account, records, deleted, app, screens, deletion, zoneReads, handles,
                 recent, loc, permission>>

\* locationSwitchChanged, switched off: sharing is enabled again.
EnableLocation ==
  /\ OnMap /\ disabled
  /\ Decide(FALSE)
  /\ FetchLocationChanges(loc, locationRequestID, significantRequestID)
  /\ UNCHANGED <<account, records, deleted, app, screens, deletion, zoneReads, recent,
                 permission>>

\* locationSwitchChanged, switched on: "Disable & Hide Location".
DisableLocation ==
  /\ OnMap /\ ~disabled
  /\ Decide(TRUE)
  /\ \/ RaiseWithoutUser(Stopped)
     \/ /\ currentUser # NoUser
        /\ loc' = Stopped
        /\ locationRequestID' = NoRequest /\ significantRequestID' = NoRequest
        /\ records' = Hidden(currentUser)
        /\ UNCHANGED <<account, deleted, app, screens, deletion, zoneReads, recent,
                       permission>>

\* A page or an alert over the settings takes a tap, and goes with it.
Tapped == app = "active" /\ screen = "covered"

Uncovered == screen' = "settings"

SelectAccuracy(a) ==
  /\ Tapped
  /\ accuracy' = a
  /\ UNCHANGED <<disabled, zone, fuzz>>
  /\ ResetLocationUpdates
  /\ Uncovered
  /\ UNCHANGED <<account, records, deleted, app, asker, deletion, zoneReads, recent,
                 permission, decider>>

\* Mutant: the record is read although nobody is signed in.
SaveZoneForNobody(z) ==
  /\ Tapped
  /\ zone' = z
  /\ zoneReads' = zoneReads \cup {currentUser}
  /\ Uncovered
  /\ UNCHANGED <<disabled, accuracy, fuzz, account, records, deleted, app, asker, deletion,
                 handles, recent, loc, permission, decider>>

SaveZone(z) ==
  /\ Tapped
  /\ zone' = z
  /\ UNCHANGED <<disabled, accuracy, fuzz, decider>>
  /\ \/ RaiseWithoutUser(loc)
     \/ /\ currentUser # NoUser
        /\ zoneReads' = zoneReads \cup {currentUser}
        /\ Uncovered
        /\ UNCHANGED <<account, records, deleted, app, asker, deletion, handles, recent,
                       loc, permission>>

DeleteZone ==
  /\ Tapped /\ zone # {}
  /\ zone' = {}
  /\ Uncovered
  /\ UNCHANGED <<disabled, accuracy, fuzz, account, records, deleted, app, asker,
                 deletion, zoneReads, handles, recent, loc, permission, decider>>

\* The fuzzing page stays.
ChangeFuzzing(settings) ==
  /\ Tapped
  /\ fuzz' = settings
  /\ UNCHANGED <<disabled, zone, accuracy, account, records, deleted, app, screens,
                 deletion, zoneReads, handles, recent, loc, permission, decider>>

\* Mutant: the distance stays unset until a segment is tapped.
FuzzSwitchOnly ==
  ChangeFuzzing([fuzz EXCEPT !.enabled = ~@,
                             !.radius  = IF @ = Unset THEN DefaultRadius ELSE @])

\* The first switch fills in the radius and the distance.
FuzzSwitchChanged ==
  ChangeFuzzing([fuzz EXCEPT !.enabled  = ~@,
                             !.radius   = IF @ = Unset THEN DefaultRadius ELSE @,
                             !.distance = IF @ = Unset THEN DefaultDistance ELSE @])

\* The slider and the segments are shown only while fuzzing is enabled.
RadiusSliderChanged(r) == fuzz.enabled /\ ChangeFuzzing([fuzz EXCEPT !.radius = r])

DistanceSegmentChanged(d) == fuzz.enabled /\ ChangeFuzzing([fuzz EXCEPT !.distance = d])

\* Mutant: signing out leaves the settings where they are.
SignOutSilently ==
  /\ app = "active" /\ screen = "settings"
  /\ currentUser' = NoUser
  /\ UNCHANGED <<defaults, orphaned, records, deleted, app, screens, deletion, zoneReads,
                 handles, recent, loc, permission, decider>>

\* signoutUser leaves the subscriptions and the published location alone.
SignOutUser ==
  /\ app = "active" /\ screen = "settings"
  /\ currentUser' = NoUser
  /\ screen' = "leaving"
  /\ orphaned' = FALSE
  /\ UNCHANGED <<defaults, records, deleted, app, asker, deletion, zoneReads, handles,
                 recent, loc, permission, decider>>

\* deleteUser: the record is removed at once, the account when the server says
\* so.  One deletion at a time: a bound on the model.
DeleteUser ==
  /\ Tapped /\ deletion = NoUser
  /\ UNCHANGED <<defaults, decider>>
  /\ \/ RaiseWithoutUser(Stopped)
     \/ /\ currentUser # NoUser
        /\ deletion' = currentUser
        /\ asker' = TRUE
        /\ records' = [records EXCEPT ![currentUser] = Absent]
        /\ loc' = Stopped
        /\ locationRequestID' = NoRequest /\ significantRequestID' = NoRequest
        /\ Uncovered
        /\ UNCHANGED <<account, deleted, app, zoneReads, recent, permission>>

\* The server has deleted the account.  FIRAuth signs it out, if it is still the
\* one signed in, before the completion block runs.
AccountDeleted ==
  /\ deletion # NoUser /\ deletion \notin deleted
  /\ deleted' = deleted \cup {deletion}
  /\ \/ currentUser = deletion /\ currentUser' = NoUser /\ orphaned' = TRUE
     \/ currentUser # deletion /\ UNCHANGED account
  /\ UNCHANGED <<defaults, records, app, screens, deletion, zoneReads, handles,
                 recent, loc, permission, decider>>

\* Where the completion block may leave the screen: it dismisses the settings,
\* and what it presents takes their place; or only what covers them goes; or
\* they are not presented any more, and AuthViewController is shown at most
\* over a bare map (UIKit does not say whether the dismissal completes).
AfterDeletion ==
  CASE asker /\ screen = "settings" -> {"leaving"}
    [] asker /\ screen = "covered"  -> {"settings"}
    [] ~asker /\ screen = "map"     -> {"map", "idle"}
    [] OTHER                        -> {screen}

DeletionSucceeded ==
  /\ deletion \in deleted
  /\ deletion' = NoUser
  /\ asker' = FALSE
  /\ screen' \in AfterDeletion
  /\ UNCHANGED <<defaults, account, records, deleted, app, zoneReads, handles, recent,
                 loc, permission, decider>>

\* The user stays signed in; an alert is shown if the settings are in front.
DeletionFailed ==
  /\ deletion # NoUser /\ deletion \notin deleted
  /\ deletion' = NoUser
  /\ asker' = FALSE
  /\ screen' = IF asker /\ screen = "settings" THEN "covered" ELSE screen
  /\ UNCHANGED <<defaults, account, records, deleted, app, zoneReads, handles, recent,
                 loc, permission, decider>>

------------------------------------------------------------------------------
SystemNext ==
  \/ \E forLocation \in BOOLEAN : DidFinishLaunching(forLocation)
  \/ ApplicationDidBecomeActive
  \/ ApplicationWillResignActive
  \/ Killed
  \/ \E spot \in Spots : LocationReported(spot)
  \/ ErrorReported
  \/ \E p \in Settable : PermissionChanged(p)
  \/ MinutePasses
  \/ RunLocationBlock
  \/ \E u \in Users : ZoneReadAnswered(u)
  \/ RunZoneCheckBlock

SignInNext ==
  \/ CredentialsReceived
  \/ SignInFailed
  \/ \E u \in Users : SignInSucceeded(u)
  \/ SignInRejected
  \/ ProfileStored
  \/ ShareMyLocation
  \/ DontShareLocation

ScreenNext ==
  \/ OpenSettings
  \/ CloseSettings
  \/ CoverSettings
  \/ UncoverSettings
  \/ SettingsDismissed

SettingsNext ==
  \/ EnableLocation
  \/ DisableLocation
  \/ \E a \in Accuracies : SelectAccuracy(a)
  \/ \E z \in Zones : SaveZone(z)
  \/ DeleteZone
  \/ Distances # {} /\ FuzzSwitchChanged  \* an instance without distances never fuzzes
  \/ \E r \in Radii : RadiusSliderChanged(r)
  \/ \E d \in Distances : DistanceSegmentChanged(d)
  \/ SignOutUser
  \/ DeleteUser
  \/ AccountDeleted
  \/ DeletionSucceeded
  \/ DeletionFailed

Next == SystemNext \/ SignInNext \/ ScreenNext \/ SettingsNext

Spec == Init /\ [][Next]_vars

\* While the app is active the main queue is served, Firebase answers reads,
\* and CoreLocation reports a location sooner or later; iOS may suspend an app
\* that is not active for ever.  Strong fairness, because the app may be left
\* and come back, and because the bound on the main queue, which the program
\* does not have, may stop reports and answers for a while.
Fairness ==
  /\ SF_vars(app = "active" /\ (RunLocationBlock \/ RunZoneCheckBlock))
  /\ \A u \in Users : SF_vars(app = "active" /\ ZoneReadAnswered(u))
  /\ SF_vars(app = "active" /\ \E spot \in Spots : LocationReported(spot))
  /\ WF_vars(MinutePasses)

FairSpec == Spec /\ Fairness

------------------------------------------------------------------------------
(***************************************************************************)
(* Properties.                                                             *)
(***************************************************************************)

\* The user who disabled sharing is hidden for as long as it stays disabled:
\* no block queued before, no restart and no other event of the app publishes
\* a location of theirs again (MapViewController.locationSwitchChanged,
\* AuthViewController's "Don't Share Location", storeLocation's first guard).
\* With nobody signed in there is nobody to hide.
DisabledHidesDecider ==
  disabled => decider = NoUser \/ records[decider].location = NoLocation

\* The map and the settings are used without a signed-in user in one case only:
\* the server has deleted the account in use, and nobody has signed in since
\* (SettingsViewController.deleteUser, whose answer may find the settings
\* covered or closed).  Signing out, a rejected sign-in, a restart or a failed
\* deletion never leads there, where the handlers that need a user raise.
MapHasUser ==
  app # "dead" /\ screen \in InUse => currentUser \in Users \/ orphaned

\* AppDelegate keeps one handle on significant changes and overwrites it at
\* every subscription; still no live significant-changes request is ever lost:
\* there is at most one, and the handle names it.
SignificantIsTracked ==
  \A r \in OfKind(loc.requests, "significantChanges") : r.id = significantRequestID

\* What CoreLocation runs follows the live requests through every sequence of
\* subscribing, cancelling, erring and losing the permission.
HardwareFollowsRequests == HardwareFollows(loc)

\* A location is published only while sharing is enabled, even by a block that
\* was dispatched before it was disabled.
Publishes(u) == records'[u].location \notin {NoLocation, records[u].location}

NoPublishWhileDisabled == [][\A u \in Users : Publishes(u) => ~disabled]_vars

\* A handler or a late answer writes the record of the user signed in when it
\* runs and of nobody else: the blocks of a previous account touch no record
\* but the current one's.
OnlyOwnRecordWritten ==
  [][\A u \in Users : records'[u] # records[u] => currentUser = u]_vars

\* Seen through the records, the default and the current user, every event of
\* the app is one of the few steps of Publication or changes nothing: there a
\* user who disables sharing is off the map in the same step, and only the user
\* signed in moves, is published while enabled, or decides.
P == INSTANCE Publication WITH
       user    <- currentUser,
       enabled <- ~disabled,
       shown   <- [u \in Users |-> records[u].location]

ImplementsPublication == P!Spec

\* While fuzzing is enabled its radius and distance are set: they would read
\* as 0, and a location displaced by 0 metres is the exact one
\* (FuzzingViewController.fuzzSwitchChanged, storeLocation).
FuzzingDisplaces ==
  fuzz.enabled => fuzz.radius # Unset /\ fuzz.distance # Unset

\* Sharing works: when, from some point on, the app is open, sharing is
\* enabled and permitted, and the signed-in user has a profile and no privacy
\* zone, that user's location ends up published and stays so.
SharingAs(u) ==
  /\ app = "active" /\ screen \notin SignInStages /\ currentUser = u
  /\ ~disabled /\ zone = {} /\ permission = "authorized"
  /\ records[u].profile

SharingReachesTheMap ==
  \A u \in Users : <>[]SharingAs(u) => <>[](records[u].location # NoLocation)

\* The check that saveZone starts finishes the job unless the process dies or
\* the app is never opened again: a location stored inside the zone is removed,
\* or the zone or the user changes.
InZone(u) == currentUser = u /\ records[u].location \in zone

ZoneCheckHides ==
  \A u \in Users : (u \in zoneReads /\ InZone(u))
                      ~> (~InZone(u) \/ app = "dead" \/ [](app = "inactive"))

------------------------------------------------------------------------------
(***************************************************************************)
(* What the texts say and the code does not do.                            *)
(***************************************************************************)

\* "You can continue to use ConfFriends without sharing your location if you
\* wish" (AuthViewController): nothing is shared before the question is answered.
NothingSharedWhileAsking ==
  [][\A u \in Users : screen = "asking" => ~Publishes(u)]_vars

\* "Your account will be deleted along with your user profile"
\* (SettingsViewController.deleteUser): a deleted account has no record.
DeletedAccountHasNoRecord == \A u \in deleted : records[u] = Absent
==============================================================================
