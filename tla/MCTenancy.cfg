SPECIFICATION Spec
CONSTANTS
    User = {"u1", "u2"}
    MemberOrg = {"o1"}
    Role = {"owner", "member"}
    OrgInvitation = {"i1"}
    MaxOrgLimit = 1
    MaxUsers = 2
    Did = {"d1", "d2"}
    Endpoint = {"e1", "e2"}
    Mail = {"m1"}
    Username = {"n1"}
    Password = {"p", "q"}
    SessionsLimit = 2
    EcosystemOrg = {"o1", "o2"}
    OrgCreator <- OrgCreatorOf
    Ecosystem = {"e1", "e2"}
    IntentName = {"n1", "n2"}
    IntentOrg = {"o1"}
    Template = {"t1"}
    Sales <- SalesOf
    Source = {"a", "b"}
    Quantity <- QuantityOf
    Included = 1
    Window = 1
    Batch = 1
    Jobs = {"j1", "j2"}
    Hours = 3
    Requests <- RequestsOf
    Faults = 1
CHECK_DEADLOCK FALSE
INVARIANTS MembershipInv WalletInv AccountInv EcosystemInv BillingInv
PROPERTY StepsKeep
