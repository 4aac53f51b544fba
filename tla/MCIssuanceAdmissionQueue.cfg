SPECIFICATION Spec
CONSTANTS
    Call = {c1, c2, c3, c4}
    Capacity = 1
    MaxPending = 2
    MaxNow = 3
INVARIANTS TypeOK SlotsAccounted WithinCapacity WaitersListed NoIdleSlot
PROPERTIES WaitersSettle ImplementsSlots
CHECK_DEADLOCK FALSE
