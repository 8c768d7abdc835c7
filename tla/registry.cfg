SPECIFICATION Spec
CONSTANTS
  Client = {c1, c2}
  Id = {i1}
  Faults = {"row", "mkdir", "save", "userdata", "start", "kill", "mount",
            "umount", "deregister", "remove"}
  MaxCrashes = 1
INVARIANTS
  ListedIsRestorable
  StaysDestroyed
  
PROPERTY AreLifecycles
CHECK_DEADLOCK FALSE
