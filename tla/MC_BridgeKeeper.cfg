\* x/bridge, restarted from its exported genesis while it runs.
SPECIFICATION MCRestartSpec
CONSTANTS
    alice = alice  bob = bob  r1 = r1  r2 = r2   k1 = k1  k2 = k2  user = user
    Accounts <- MCAccounts
    RelayerAddrs <- MCRelayerAddrs
    PubKeys <- MCPubKeys
    BscUsers <- MCBscUsers
    Nonces <- MCOneNonce
    Deposits <- MCDeposits
    Withdrawals <- MCWithdrawals
    GenesisRelayers <- MCGenesisRelayers
    QuorumThreshold = 2
    SupplyCap = 3
    GenesisNative = 1
    MaxMints = 2
INVARIANTS
    SupplyInvariant
    CirculationIsSupply
    HoldersCanExit
