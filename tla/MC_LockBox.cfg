\* LockBox.sol under any calls of any callers.
SPECIFICATION LockBoxSpec
SYMMETRY Symmetric
CONSTANTS
    u1 = u1  u2 = u2  box = box  r1 = r1  r2 = r2  stranger = stranger
    cb1 = cb1  cb2 = cb2  safe = safe  acct = acct
    TokenHolders <- MCTokenHolders
    Escrow = box
    CosmosRecipients <- MCCosmosRecipients
    Committee <- MCCommittee
    Signers <- MCSigners
    Threshold = 2
    GnosisSafe = safe
    Guardians <- MCGuardians
    MaxUnlockPerBlock = 3
    Amounts <- MCAmounts
    UnlockNonces <- MCUnlockNonces
    NonceHash <- MCNonceHash
    Funds = 2
    MaxUserNonce = 2
    MaxBlock = 2
INVARIANTS
    LockNoncesUnique
    UnlockedOnce
    Solvent
    BlockLimit
