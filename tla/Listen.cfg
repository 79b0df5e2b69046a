CONSTANTS
    a = a
    b = b
    OwnValues = {a}
    OthersValues = {b, Missing}
    Missing = Missing
    FirstValue = b
    MaxOthers = 1
    MaxWrites = 1
    MaxOutstanding = 2
    MaxTrouble = 1
SPECIFICATION Spec
INVARIANTS
    TypeOK
    AssertsHold
    NeverInLimbo
    CacheTrue
    ResumeCovered
    OwnWritesStay
    FreshGet
PROPERTIES
    CacheForward
    GetAnswered
    Converges
CHECK_DEADLOCK FALSE
