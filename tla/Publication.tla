------------------------------ MODULE Publication ------------------------------
(***************************************************************************)
(* What sharing a location means to the people using one device: which     *)
(* user is signed in, whether sharing is enabled, and where the map of     *)
(* everybody else shows each user.  No subscriptions, no queues, no        *)
(* process that dies, no screens: LocationSharing implements this.         *)
(***************************************************************************)
CONSTANTS Users, NoUser, Spots, NoLocation

VARIABLES
  user,      \* who is signed in on this device, or NoUser
  enabled,   \* whether the device shares its location
  shown      \* where each user is shown, or NoLocation

vars == <<user, enabled, shown>>

Init ==
  /\ user = NoUser
  /\ enabled = TRUE
  /\ shown = [u \in Users |-> NoLocation]

Show(place) == shown' = [shown EXCEPT ![user] = place]

\* Somebody signs in, or out; where users are shown does not change.
ChangeUser == user' \in Users \cup {NoUser} /\ UNCHANGED <<enabled, shown>>

\* The device publishes a location: the signed-in user's, while enabled.
Publish(spot) == user \in Users /\ enabled /\ Show(spot) /\ UNCHANGED <<user, enabled>>

\* The signed-in user is taken off the map: a privacy zone, a deletion, a no.
Withdraw == user \in Users /\ Show(NoLocation) /\ UNCHANGED <<user, enabled>>

\* Sharing is the decision of whoever holds the device.
Enable == enabled' = TRUE /\ UNCHANGED <<user, shown>>

\* Disabling takes the user off the map in the same step, if one is signed in.
Disable ==
  /\ enabled' = FALSE
  /\ IF user \in Users THEN Show(NoLocation) ELSE UNCHANGED shown
  /\ UNCHANGED user

Next ==
  \/ ChangeUser
  \/ \E spot \in Spots : Publish(spot)
  \/ Withdraw
  \/ Enable
  \/ Disable

Spec == Init /\ [][Next]_vars
================================================================================
