SPECIFICATION Spec
CONSTANTS
    MAX_WITNESS_SIZE = 32768
    ONE_BATCH_SIZE = 32768
    U32 = 1048576
    Txs <- MCTxs
INVARIANTS
    SignsTheMessage
    SignatureApart
    CallsExactlySignable
PROPERTIES
    AlwaysEnds
