SPECIFICATION Spec
CONSTANTS
    a = a
    b = b
    c = c
    Texts <- ThreeTexts
    Slots <- TwoSlots
    MaxHistory = 2
    Feeds <- ShortFeeds
    MaxMaking = 2
    MaxActs = 2
CHECK_DEADLOCK FALSE
INVARIANTS DistinctAndBounded KeptUntilCrowded NewestFirstUnlessRaced ViewCurrentUnlessSpoiled
