SPECIFICATION Spec
CONSTANTS
  NumHares = 4
  NumBears = 2
  PartyCapacity = 6
  HareWeight = 1
  BearWeight = 3
  Address = {a1, a2, a3, a4, a5, a6}
  Stamps <- MCStamps
  Capacities <- MCCapacities
SYMMETRY AddressSymmetry
INVARIANTS
  IteratorsValid
  PolicySound
  PolicyComplete
  BearsPreferred
  OldestFirst
PROPERTIES
  ImplementsTicketSet
