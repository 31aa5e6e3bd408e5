\* Multisig on up to three listed positions and every choice of signatures.
CONSTANTS
    k1 = k1
    k2 = k2
    k3 = k3
    m1 = m1
    m2 = m2
    Key <- MCKey
    Message <- MCMessage
    Stranger = Stranger
    Locks <- MCLocks
SPECIFICATION Spec
INVARIANTS
    AcceptsOnlyAuthorised
    AcceptsEveryAuthorised
    IndInv
PROPERTY DecidesByAuthority
