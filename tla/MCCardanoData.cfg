CONSTANTS
  Signatures <- MCSignatures
SPECIFICATION CardanoSpec
INVARIANTS WalletParsed CopiedFromSignature SignedCoversHash
