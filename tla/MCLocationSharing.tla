-------------------------- MODULE MCLocationSharing --------------------------
(***************************************************************************)
(* Small instances of LocationSharing.  The geometry: the conference, a    *)
(* home beyond every radius but 10000, and the spot a displaced home is    *)
(* published as.                                                           *)
(***************************************************************************)
EXTENDS LocationSharing, TLC

CONSTANTS venue, home, decoy

MCFromVenue == [s \in Spots |-> IF s = venue THEN 0 ELSE 5000]

MCDisplace ==
  [x \in Spots \X Bearings \X (Distances \cup {DefaultDistance}) |->
     IF x[1] = home /\ decoy \in Spots THEN decoy ELSE home]

\* The model treats all accounts alike.
AccountSymmetry == Permutations(Users)

NoZones   == {}
HomeZone  == {{home}}
TwoZones  == {{home}, {venue}}
==============================================================================
