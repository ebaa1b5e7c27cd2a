SPECIFICATION Spec
CONSTANTS
  Users = {u1}
  Spots = {hall, lab}
  NoLocation = NoLocation
  Absent = Absent
  Stranger = Stranger
  MaxQueue = 2
  MaxDownloads = 2
  MaxObservers = 2
INVARIANTS
  HiddenUsersAreNotShown
