\* Two requests for a link of one order.
CONSTANTS
    o1 = o1  a1 = a1  a2 = a2  w1 = w1  w2 = w2
    NoLink = NoLink
    Orders = {o1}
    MaxLinks = 2
    Admins = {a1, a2}
    PaymentNews = {"payment.captured"}
    MaxHandlers = 1
    Workers = {}
SPECIFICATION SceneSpec
INVARIANT OneOpenLink
CHECK_DEADLOCK FALSE
