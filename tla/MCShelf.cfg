\* The product form and a variant's editor against checkouts.
CONSTANTS
    r1 = r1  r2 = r2
    Parts = {"form"}
    Customers = {"c1"}  NoOwner = "nobody"
    Requests = {r1, r2}  MaxSessions = 2
    Purposes = {"reset_password"}  Senders = {r1, r2}  MaxCodes = 3  MaxAttempts = 2
    Messages = {"m1", "m2"}  Dated = {"m1"}  Echoes = {"e"}  Calls = {r1, r2}
    Replies = {"reply"}  StoreAttempts = 2
    Kinds = {"consultation", "quote"}  Staff = {"staff"}  Times = {"time"}  Admins = {"admin"}
    MaxActivities = 4  MaxMessages = 2
    Variants = {"v"}  MaxItemQty = 1  AddKeys = {"key"}  AddVariant <- EachAddsV  AddQty <- EachAddsOne
    CartRequests = {r1, r2}  OrderKeys = {r1, r2}  Checkouts = {r1, r2}  MaxCarts = 2
    Rows <- MCRows  Entry <- MCEntry  Publishers = {r1, r2}  MaxProducts = 2
    MaxByHand = 1
    Skus = {"a", "b"}  OptionValues <- Sizes  OptionOf <- SizeOnly  InitialForm <- OneVariant
    Buyers = {"buyer"}  Editors = {r1, r2}  MaxVariants = 3  MaxEdits = 3
    Spellings <- MCSpellings  LowerOf <- MCLowerOf  NameOf <- MCNameOf  KeyOf <- MCKeyOf
    HiddenNames = {}  BrandName = "brand"  Assortments <- MCAssortments
    Zones = {"north"}  RuleIds = {"r"}  Managers = {r1, r2}  Targetings <- MCTargetings  MaxRequests = 3
    Visits = {"s"}  Visitors = {"ann"}  Guests = {"g"}  Agents = {"browser"}  Hits = {r1, r2}
    Tellings <- MCTellings  Variety = {"knob"}  VariantOf <- KnobOf  Clock <- MCClock
    DayLength = 2  MaxReportDays = 2
    NoCap = NoCap  NoZone = NoZone  Unset = Unset  Malformed = Malformed  Now = 5  Today = 5
    Promos = {1, 2, 3}  CodFee = 9900  TaxRate = 1800  Situations <- MCSituations  NothingBought <- MCNothingBought
SPECIFICATION ServicesSpec
SYMMETRY RequestSymmetry
INVARIANT ShelfKeepsUnits
CHECK_DEADLOCK FALSE
