SPECIFICATION ReceiptsSpec
CONSTANTS
    m1 = m1
    m2 = m2
    g1 = g1
    Messages = {m1, g1}
    GroupMessages = {g1}
    Receipts <- OneOfEach
    IgnoreGroups = FALSE
    MaxTime = 2
    MaxWriters = 2
INVARIANTS
    ReceiptsTypeOK
    RowIsEarliest
    DeliveredByThen
PROPERTIES
    StatusNeverGoesBack
    DatesOnlyEarlier
