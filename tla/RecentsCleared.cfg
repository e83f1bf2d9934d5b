SPECIFICATION Spec
CONSTANTS
    pA = pA
    pB = pB
    ckptA = ckptA
    ckptB = ckptB
    ckptC = ckptC
    Unreadable = Unreadable
    None = None
    Processes <- Alone
    Specs <- TwoSpecs
    Edited <- Edits
    Cap = 2
    SavesFail = FALSE
    MaxOps = 5
PROPERTIES
    EditsArePickedUp
CHECK_DEADLOCK FALSE
