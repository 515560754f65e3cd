\* The bridge end to end, under a quorum with one faulty relayer.
SPECIFICATION MCSystemSpec
SYMMETRY Symmetric
CONSTANTS
    u1 = u1  box = box  alice = alice  mallory = mallory
    r1 = r1  r2 = r2  r3 = r3  cb = cb  safe = safe
    TokenHolders <- OneHolder
    Escrow = box
    CosmosRecipients <- MCRecipients
    Committee <- MCRelayerAddrs
    Signers <- MCRelayerAddrs
    Threshold = 2
    GnosisSafe = safe
    Guardians <- MCGuardians
    MaxUnlockPerBlock = 10
    Amounts <- MCAmounts
    UnlockNonces <- MCUnlockNonces
    NonceHash <- MCNonceHash
    Funds = 11
    MaxUserNonce = 2
    MaxBlock = 2
    Accounts <- MCAccounts
    RelayerAddrs <- MCRelayerAddrs
    PubKeys <- MCRelayerAddrs
    Nonces <- MCNonces
    BscUsers <- OneHolder
    Deposits <- MCDeposits
    Withdrawals <- MCWithdrawals
    QuorumThreshold = 2
    SupplyCap = 2
    GenesisRelayers <- MCGenesis
    GenesisNative = 0
    Faulty <- MCFaulty
    KeyOf <- MCKeyOf
    Registrations <- MCOwnKeys
    LargeTransferThreshold = 2
    StandardDepth = 0
    LargeDepth = 1
    Width = 3
    TxHash <- MCTxHash
    MaxTxs = 2
    MaxBurns = 2
INVARIANTS
    MintsBacked
    ReleasesBacked
    MintedOnce
PROPERTIES
    ImplementsPeg
