SPECIFICATION Spec
CONSTANTS
    Chars <- MCChars
    Control = "!"
    Blank = "_"
    Unnamed <- MCUnnamed
    Default <- MCDefault
    MaxName = 2
    Inputs <- MCInputs
    Slots = {1, 2}
    MaxBlurs = 3
    MaxTrouble = 2
CHECK_DEADLOCK FALSE
INVARIANTS TypeOK OfferedIsClean RestartKeepsName PanelKnowsName
