SPECIFICATION Spec
CONSTANTS
  Builds = {TRUE, FALSE}
  MaxProfiles = 4
INVARIANTS
  ManageIsUnlocked
  BusyIsServed
PROPERTY ProfilesKept
CHECK_DEADLOCK FALSE
