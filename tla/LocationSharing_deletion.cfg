SPECIFICATION Spec
CONSTANTS
  NoLocation = NoLocation
  NoRequest = NoRequest
  NoUser = NoUser
  venue = venue
  home = home
  decoy = decoy
  Spots = {home}
  RequestIDs = {1, 2}
  Accuracies = {}
  Users = {u1}
  Zones <- NoZones
  Distances = {}
  Radii = {}
  Bearings = {0}
  FromVenue <- MCFromVenue
  Displace <- MCDisplace
  Settable = {"authorized"}
  LocationFails = FALSE
  MaxQueue = 1
INVARIANTS
  DeletedAccountHasNoRecord
