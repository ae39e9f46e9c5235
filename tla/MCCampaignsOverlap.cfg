SPECIFICATION Spec
CONSTANTS
    Mediator = {m1}
    Agency = {g1}
    Request = {r1, r2}
    Order = {o1, o2}
    AgencyOf <- MCAgencyOf
    Total = {0, 1, 2}
    Price = {p1, p2}
    Grant = {1, 2}
    Asked = {"active", "paused"}
    None = None
    TermsAlone = FALSE
SYMMETRY Symmetry
CHECK_DEADLOCK FALSE
\* Each of these fails; remove the others to see its behaviour.
INVARIANTS
    CapacityRespected
    DeletedHasNoOrders
    SoldOutMeansSold
    AllocationRespected
    DealsFollowStatus
PROPERTY
    TermsStayLocked
