SPECIFICATION HoldsSpec
CONSTANTS
    u1 = u1  u2 = u2  t1 = t1  t2 = t2  h1 = h1  h2 = h2  e1 = e1
    Null = Null
    Users = {u1}
    Events = {e1}
    Tickets = {t1, t2}
    HoldIds = {h1, h2}
    HoldKeys = {hk1}
    Keys = {}
    Claimers = {c1, c2}
    Reapers = {r1}
    EventOf <- MCEventOf
    Price <- MCPrice
    OnsaleAt <- MCOnsaleAt
    HoldTTL = 1
    MaxTicketsPerHold = 2
    MaxActiveHoldsPerUser = 2
    reapBatchSize = 1
    maxReapBatches = 2
    LastCall = 1
    MaxTime = 2
INVARIANTS HoldTypeOK LeaseAgreement LiveHoldIsWhole OneHoldPerKey
PROPERTY LiveLeaseKept
SYMMETRY Symmetry
