\* The cart changes between the delivery quote and the order.
CONSTANTS
    v1 = v1  k1 = k1  s1 = s1  x1 = x1  r1 = r1  r2 = r2
    Variants = {v1}
    MaxItemQty = 2
    AddKeys = {k1}
    AddVariant <- AddsOneVariant
    AddQty <- AddsOneUnit
    CartRequests = {s1}
    OrderKeys = {x1}
    Checkouts = {r1}
    MaxCarts = 3
SPECIFICATION CartSpec
INVARIANT QuotedForItsItems
CHECK_DEADLOCK FALSE
