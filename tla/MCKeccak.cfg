SPECIFICATION Spec
CONSTANTS
    Chunks <- MCChunks
    MaxFed = 344
    Value = 163
INVARIANTS
    ChunksDoNotMatter
    KnownAnswers
PROPERTIES
    RoundsAreKeccak
