\* The command goroutines are interchangeable; all properties are safety.
CONSTANTS
  r1 = r1
  r2 = r2
  u1 = u1
  u2 = u2
  i1 = i1
  c1 = c1
  c2 = c2
  Boot = Boot
  Rooms = {r1, r2}
  Users = {u1, u2}
  Intents = {i1}
  BootRoom = r1
  BootUser = u1
  SuperUsers = {}
  Config <- MCConfig
  Stored <- MCStored
  Commands = {c1, c2}
  MaxIssued = 3
  MaxRestarts = 1
SPECIFICATION Spec
PROPERTIES ReloadIsCurrent BootstrapRestored
SYMMETRY MCSymmetry
