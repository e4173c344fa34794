CONSTANTS
  o1 = o1  h1 = h1  h2 = h2
  Origins <- OneOrigin
  Slots <- TwoSlots
  Kinds <- BothKinds
  MaxKey = 2
  MaxSeq = 2
  MaxPending = 2
  MaxRestarts = 1
SPECIFICATION Spec
SYMMETRY SlotSymmetry
CHECK_DEADLOCK FALSE
PROPERTIES OnceUnlessDialled OnlyNewer DropsOnlyStaleInOrder
