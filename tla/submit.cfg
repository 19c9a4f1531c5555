CONSTANTS
  u1 = u1
  u2 = u2
  d1 = d1
  d2 = d2
  k = k
  p1 = p1
  p2 = p2
  None = None
  NoSlot = NoSlot
  Requests <- KeyedRequests
  Slots <- AllSlots
  Servers <- AllServers
  SlotOf <- Slot
  Fingerprint <- Hash
  Via <- Kind
  ServerOf <- Server
  MaxPolls = 1
  Faults = {"crash", "rm"}
SPECIFICATION Spec
CHECK_DEADLOCK FALSE
INVARIANTS TypeOK AtMostOneJobPerKey ReplayMatches JobHasInput KeyOwned
PROPERTIES ImplementsSubmitOnce
