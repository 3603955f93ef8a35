CONSTANTS
    Byte = 2
    Narrow = 64
    WordLen = 2
    SigLen = 3
    WireOps <- MCWireOps
    EntryPointTexts <- MCEntryPointTexts
    EntryPoints <- MCEntryPoints
    AllowedPaymasters = {"sponsor"}
    MaxVerificationGas = 2
    MaxCallGas = 5
    MaxRows = 2
SPECIFICATION IntakeSpec
CHECK_DEADLOCK FALSE
INVARIANTS
    IntakeTypeOK
    OneLivePerChainNonce
    AnswerPacksToStoredOp
    BundleDecodesToRows
