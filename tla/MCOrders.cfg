\* Two orders compete for two variants while reservations expire; and one order is paid by
\* overlapping requests, confirmations and deliveries of repeated attempts.
CONSTANTS
    o1 = o1  o2 = o2  v1 = v1  v2 = v2
    i1 = i1  i2 = i2  c1 = c1  c2 = c2
    NoAttempt = NoAttempt
    Orders = {o1, o2}
    Variants = {v1, v2}
    InitialStock <- TwoUnitsEach
    MaxQty = 2
    PaymentMethods = {"online", "terms", "payment_link"}
    MaxRows = 1
    MaxCalls = 2
    MaxTries = 2
    BatchSize = 2
    SuccessEvents = {"payment.captured", "order.paid"}
    MaxHandlers = 2
    Initializers = {i1, i2}
    Confirmers = {c1}
SPECIFICATION SceneSpec
SYMMETRY SceneSymmetry
INVARIANT TypeOK StockConserved OpenOrderHoldsStock OneCallPerRow ProcessedMeansSettled
PROPERTY NoLateAttachment
CHECK_DEADLOCK FALSE
