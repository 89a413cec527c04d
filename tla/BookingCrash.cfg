SPECIFICATION Spec
CONSTANTS
    u1 = u1  u2 = u2  e1 = e1
    Null = Null
    Users = {u1}
    Events = {e1}
    Tickets = {t1}
    HoldIds = {h1}
    HoldKeys = {}
    Keys = {k1, k2}
    KeysOf <- OneBuyer
    Claimers = {c1}
    Callers = {b1, b2}
    Reapers = {r1}
    EventOf <- MCEventOf
    Price <- MCPrice
    OnsaleAt <- MCOnsaleAt
    HoldTTL = 1
    PaymentBudget = 1
    MaxTicketsPerHold = 2
    MaxActiveHoldsPerUser = 1
    reapBatchSize = 1
    maxReapBatches = 1
    LastCall = 1
    MaxTime = 1
INVARIANT ChargeIsRecoverable
SYMMETRY Symmetry
