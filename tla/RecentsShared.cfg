SPECIFICATION Spec
CONSTANTS
    pA = pA
    pB = pB
    ckptA = ckptA
    ckptB = ckptB
    ckptC = ckptC
    Unreadable = Unreadable
    None = None
    Processes <- Sharing
    Specs <- ThreeSpecs
    Edited <- Edits
    Cap = 2
    SavesFail = TRUE
    MaxOps = 6
INVARIANTS
    TypeOK
    EntriesSurvive
    ForgottenStaysForgotten
CHECK_DEADLOCK FALSE
