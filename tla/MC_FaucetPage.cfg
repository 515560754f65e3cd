CONSTANTS
    keplr = keplr
    metamask = metamask
    alice = alice
    bob = bob
    aliceBech = aliceBech
    aliceHex = aliceHex
    bobBech = bobBech
    bobHex = bobHex
    Accounts = {alice, bob}
    Addresses = {aliceBech, aliceHex, bobBech, bobHex}
    AccountOf <- MCAccountOf
    Calls = {c1, c2}
    c1 = c1
    c2 = c2
    Attempts = {1, 2}
    Day = 2
    Cooldown = 2
    MaxTime = 2
    MaxFaults = 1
    Budget = 5
    NoHandler = NoHandler
    NoAddress = None
    CosmosWallets = {keplr}
    MetaMask = metamask
    Owned <- MCOwned
    NoWallet = NoWallet
    NoAccount = None
SPECIFICATION MCSpec
SYMMETRY CallsAndUsers
CHECK_DEADLOCK FALSE
INVARIANTS
    CooldownDripsOverlap
    EntryIsEarned
    ButtonBlockedByEntry
    AddressOfWallet
