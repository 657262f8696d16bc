SPECIFICATION Spec
CONSTANTS
  DeviceKinds = {"GoogleDrive"}
  PasteKinds = {"Dropbox"}
  Builds = {TRUE, FALSE}
  ExpiresIn = 3
  MaxInterval = 2
  Frameworks <- TheFrameworks
INVARIANTS
  PollsWhatIsShown
  BusyIsServed
  StoredIsComplete
PROPERTY DeviceLoginEnds
CHECK_DEADLOCK FALSE
