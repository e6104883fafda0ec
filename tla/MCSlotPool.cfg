SPECIFICATION Spec
CONSTANTS
  Tickets = {t1, t2, t3}
  Origins = {o1, o2}
  GlobalSlots = 2
  H1PerOrigin = 1
  H2PerOrigin = 2
  Asks <- AnyAsk
  Impatient = {t1, t2, t3}
  H2Origins = {o1, o2}
  t1 = t1
  t2 = t2
  t3 = t3
  o1 = o1
  o2 = o2
SYMMETRY Symmetry
INVARIANTS
  SlotsAccounted
  NoSlotIdles
  LaneServedWithinCycle
