\* A late failure of an earlier payment row.
CONSTANTS
    o1 = o1  o2 = o2  v1 = v1  v2 = v2
    i1 = i1  i2 = i2  c1 = c1  c2 = c2
    NoAttempt = NoAttempt
    Orders = {o1}
    Variants = {v1}
    InitialStock <- OneUnitEach
    MaxQty = 1
    PaymentMethods = {"online"}
    MaxRows = 2
    MaxCalls = 1
    MaxTries = 1
    BatchSize = 1
    SuccessEvents = {"payment.captured"}
    MaxHandlers = 1
    Initializers = {i1}
    Confirmers = {c1}
SPECIFICATION Spec
PROPERTY PaidStaysPaid
CHECK_DEADLOCK FALSE
