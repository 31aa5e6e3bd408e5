\* What the documentation says of spawn, on the same calls.
CONSTANTS
    Calls <- MCCalls
    CLIENT_LIMIT = 2
    MAIN_LIMIT = 3
SPECIFICATION Spec
INVARIANT SpawnLikeLibrary
