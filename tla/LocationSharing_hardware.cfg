SPECIFICATION Spec
CONSTANTS
  NoLocation = NoLocation
  NoRequest = NoRequest
  NoUser = NoUser
  venue = venue
  home = home
  decoy = decoy
  Spots = {home}
  RequestIDs = {1, 2, 3}
  Accuracies = {5}
  Users = {u1}
  Zones <- NoZones
  Distances = {100}
  Radii = {10000}
  Bearings = {90}
  FromVenue <- MCFromVenue
  Displace <- MCDisplace
  Settable = {"notDetermined", "authorized", "denied"}
  LocationFails = TRUE
  MaxQueue = 2
INVARIANTS
  FuzzingDisplaces
  SignificantIsTracked
  HardwareFollowsRequests
