\* One direct order: two links and two requests for one, or a paid link and two
\* invoice workers, under fairness.
CONSTANTS
    o1 = o1  a1 = a1  a2 = a2  w1 = w1  w2 = w2
    NoLink = NoLink
    Orders = {o1}
    MaxLinks = 2
    Admins = {a1, a2}
    PaymentNews = {"payment.captured"}
    MaxHandlers = 1
    Workers = {w1, w2}
SPECIFICATION FairSceneSpec
INVARIANT PaidLinkPaidTheOrder InvoiceIsTruthful StatusIsEarned
PROPERTY PaymentIsFinal PaymentsAreRecorded
CHECK_DEADLOCK FALSE
