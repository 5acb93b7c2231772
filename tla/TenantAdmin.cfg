SPECIFICATION Spec
CONSTANTS
  u1 = u1
  u2 = u2
  u3 = u3
  Users = {u1, u2, u3}
  AddressOf <- MCAddressOf
  AdminEmail = "seeded"
  RemoveEmail = "removed"
  Keys = {1, 2}
  Requests = {r1, r2}
  None = None
SYMMETRY Symmetry
CHECK_DEADLOCK FALSE
INVARIANTS KeysNeverDeadlock
PROPERTIES LockoutNeedsOverlap BootSettles ActorStillThere ActivatedIsSole
