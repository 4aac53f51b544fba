SPECIFICATION Spec
CONSTANTS
    c1 = c1
    c2 = c2
    c3 = c3
    p1 = p1
    p2 = p2
    r1 = r1
    Bulk = Bulk
    Call = {c1, c2, c3}
    Process = {p1, p2}
    Request = {r1}
    Home <- MCHome
    RequestOf <- MCRequestOf
    Capacity <- MixedBudgets
    WorkerConcurrency = 2
    WaitMs = 2
    InteractiveMs = 2
    AdmissionMs = 2
    ReservationMs = 1
    MaxNow = 3
INVARIANTS TypeOK OffersWithinBudget
PROPERTIES ImplementsBudget ExpiredRequestNeverDispatches
CHECK_DEADLOCK FALSE
