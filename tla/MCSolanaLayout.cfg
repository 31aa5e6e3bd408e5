SPECIFICATION Spec
CONSTANTS
    SIZE_T = 1073741824
    Signatures <- MCSignatures
INVARIANTS
    AcceptsSigned
    AcceptedCoversMessage
    ReadsInside
PROPERTIES
    AlwaysEnds
