\* Auth on what wallets sign and on every single fault, under two ids.
CONSTANTS
    k1 = k1
    k2 = k2
    m1 = m1
    m2 = m2
    Key <- MCKey
    Message <- MCMessage
    Stranger = Stranger
    Locks <- MCLocks
    Requests <- MCRequests
    SIZE_MAX = 3
    MaxCalls = 2
SPECIFICATION Spec
INVARIANTS
    OneDomain
    AcceptsEveryGenuine
    AcceptsOnlyGenuine
    IndInv
PROPERTY AlwaysEnds
