SPECIFICATION SupportSpec
CONSTANTS
    u1 = u1  u2 = u2  e1 = e1
    Null = Null
    Users = {u1}
    Events = {e1}
    Tickets = {t1}
    HoldIds = {h1}
    HoldKeys = {}
    Keys = {k1}
    KeysOf <- OneBuyer
    Claimers = {c1}
    Callers = {b1}
    Reapers = {r1}
    EventOf <- MCEventOf
    Price <- MCPrice
    OnsaleAt <- MCOnsaleAt
    HoldTTL = 1
    PaymentBudget = 1
    MaxTicketsPerHold = 2
    MaxActiveHoldsPerUser = 1
    reapBatchSize = 1
    maxReapBatches = 1
    LastCall = 1
    MaxTime = 1
    AuditedEvent = e1
    Listings = {1}
    Readers = {r1, r2}
    Browsers = {r1}
    MaxListingVersion = 3
    availabilityTTL = 1
    MaxRebuild = 1
    dbFallbackLimit = 1
    SearchEvents = {1, 2, 3, 4}
    StartsAt <- MCStartsAt
    RawLimits <- MCRawLimits
    DefaultLimit = 1
    MaxLimit = 2
    TicketRows = 2
    HoldRows = 2
    Transactions = {x1, x2}
    TableNames <- MCTableNames
    Specs <- MCSpecs
    MaxSeatsPerVenue = 800
INVARIANTS AuditOneSided SlotsAreQueries PagesExact ClaimsNeverDeadlock TruncationWhole
PROPERTIES ViewNotOlder AvailabilityBounded RequestEnds LabelsSucceed
