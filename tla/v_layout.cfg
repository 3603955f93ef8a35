CONSTANTS
    packer = packer
    erc7677 = erc7677
    Byte = 2
    Narrow = 64
    WordLen = 2
    SigLen = 3
    WireOps <- MCWireOps
    EntryPointTexts <- MCEntryPointTexts
    EntryPoints <- MCEntryPoints
    AllowedPaymasters = {"sponsor"}
    MaxVerificationGas = 2
    MaxCallGas = 5
    MaxRows = 1
    VerificationGas = 2
    VerificationGasCreate = 4
    Overhead = 9
    ZeroCost = 1
    NonZeroCost = 4
    BufferOver = 13
    BufferUnder = 10
    NodeGas <- MCNodeGas
    Clients = {packer, erc7677}
    draft <- MCdraft
    call <- MCcall
    layout <- MClayout
    Paymaster = "sponsor"
    Factory = "factory"
    Groups = {"group", "carol"}
    ChainId = 1
    PaymasterVerificationGas = 5
    PaymasterPostOpGas = 3
    Window = 2
    Lag = 1
    Times = {1, 2}
SPECIFICATION SponsoredSpec
CHECK_DEADLOCK FALSE
INVARIANTS
    EveryLayoutValidates
