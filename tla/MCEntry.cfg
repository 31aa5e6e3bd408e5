\* Entry with limits of two and three bytes of signature.
CONSTANTS
    Calls <- MCCalls
    CLIENT_LIMIT = 2
    MAIN_LIMIT = 3
SPECIFICATION Spec
INVARIANTS
    ArgumentsIntact
    SuccessIsValidated
    ValidatedSucceeds
    SameCodeBothWays
    IndInv
