CONSTANTS
  Reservations = {r1, r2, r3}
  Users = {u1, u2}
  slots = slots
  bytes = bytes
  Kinds = {slots, bytes}
  FairSlotKinds = {slots}
  MaxAmount = 2
  PerUser <- MCPerUser
  Global <- MCGlobal
  Uploads = {up}
  Downloads = {down}
  None = none
SPECIFICATION MCSpec
INVARIANTS QuotaSafe CoordinatorSafe
PROPERTIES ImplementsPromise KeepsPromise SlotsComeFree
CHECK_DEADLOCK FALSE
