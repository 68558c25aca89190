CONSTANTS
    Slot = {k1}
    NoId = NoId
    NoReq = NoReq
    Ops = {"open", "close", "downgrade", "lock", "unlock", "free", "io", "make"}
    MaxReq = 3
    MaxFault = 2
SPECIFICATION FairSpec
INVARIANTS AtMostOnce AnswersAgree HeldIsOpen
PROPERTIES Answered
CHECK_DEADLOCK FALSE
