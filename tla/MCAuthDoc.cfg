\* What the documentation says of the key that Bitcoin signatures stand for.
CONSTANTS
    k1 = k1
    k2 = k2
    m1 = m1
    m2 = m2
    Key <- MCKey
    Message <- MCMessage
    Stranger = Stranger
    Locks <- MCLocks
    Requests <- MCRequests
    SIZE_MAX = 3
    MaxCalls = 2
SPECIFICATION Spec
INVARIANT BitcoinKeyUncompressed
