SPECIFICATION Spec
CONSTANTS
    u1 = u1  u2 = u2  e1 = e1
    Null = Null
    Users = {u1, u2}
    Events = {e1}
    Tickets = {t1, t2}
    HoldIds = {h1, h2}
    HoldKeys = {}
    Keys = {k1}
    KeysOf <- OneBuyer
    Claimers = {c1}
    Callers = {b1}
    Reapers = {}
    EventOf <- MCEventOf
    Price <- MCPrice
    OnsaleAt <- MCOnsaleAt
    HoldTTL = 1
    PaymentBudget = 2
    MaxTicketsPerHold = 2
    MaxActiveHoldsPerUser = 1
    reapBatchSize = 1
    maxReapBatches = 1
    LastCall = 2
    MaxTime = 2
INVARIANTS LeaseAgreement BudgetProtectsPayment SalesMatchBookings
PROPERTIES LiveLeaseKept RefinesInventory
SYMMETRY Symmetry
