CONSTANTS
    u1 = u1
    u2 = u2
    Users = {u1, u2}
    NoUser = NoUser
    Refused <- MCRefused
    MaxPendingWrites = 2
    MaxWrites <- MCMaxWrites
    MaxTasks = 3
    MaxTrouble = 3
SPECIFICATION Spec
INVARIANTS
    TypeOK
    AssertsHold
    SentAsOwner
    AnsweredTruly
PROPERTIES
    KeepsOrder
    EveryWriteSettles
CHECK_DEADLOCK FALSE
