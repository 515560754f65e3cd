---------------------------- MODULE BridgeKeeper -----------------------------
(***************************************************************************)
(* x/bridge: the Cosmos end of the bridge.  MsgBridgeIn mints wrapped      *)
(* tokens (uwsov) against a quorum of relayer signatures, MsgBridgeOut     *)
(* burns them, governance edits the relayer registry, and the chain can be *)
(* restarted from its exported genesis.                                    *)
(*                                                                         *)
(* A handler that returns an error rolls its transaction back, so only the *)
(* successful path of a message is a step.                                 *)
(***************************************************************************)
EXTENDS NonceBitmap, FiniteSets, Sequences

CONSTANTS
    Accounts,         \* account addresses that may receive coins
    RelayerAddrs,     \* relayer addresses governance may register
    PubKeys,          \* secp256k1 public keys
    Nonces,           \* deposit nonces, the numbers their bytes denote
    BscUsers,         \* recipients of withdrawals on BSC
    Deposits,         \* coins a MsgBridgeIn may carry
    Withdrawals,      \* coins a MsgBridgeOut may carry
    QuorumThreshold,  \* Params.QuorumThreshold
    SupplyCap,        \* Params.SupplyCap
    GenesisRelayers,  \* registry at genesis: address -> public key
    GenesisNative     \* ucsov every account holds at genesis

Denoms == {"ucsov", "uwsov"}
Coins  == [Denoms -> Nat]

\* The attributes of the two events the module emits.
InEvent  == [receiver : Accounts, coins : Deposits, nonce : Nonces]
OutEvent == [sender : Accounts, recipient : BscUsers, coins : Withdrawals]

\* Registries of relayers: some addresses, each with its public key.
Registries == UNION {[A -> PubKeys] : A \in SUBSET RelayerAddrs}

\* Params.Validate (a cap that is positive, a quorum of at least two) and
\* the messages' ValidateBasic (an amount that is not zero).
ASSUME BridgeParams ==
    /\ QuorumThreshold \in Nat /\ QuorumThreshold >= 2
    /\ SupplyCap \in Nat /\ SupplyCap > 0
    /\ Nonces \subseteq Nat
    /\ Deposits \subseteq Coins /\ Withdrawals \subseteq Coins
    /\ \A c \in Deposits \cup Withdrawals : \E d \in Denoms : c[d] > 0
    /\ GenesisRelayers \in Registries
    /\ GenesisNative \in Nat
    /\ IsFiniteSet(RelayerAddrs)

VARIABLES
    relayers,      \* the relayer registry: address -> public key
    cosmosMinted,  \* uwsov in circulation, by the module's own count
    bitmap,        \* processed nonces
    balances,      \* x/bank: coins of every account
    wrappedSupply, \* x/bank: total supply of uwsov
    inEvents,      \* "MsgBridgeIn" events emitted so far
    outEvents      \* "MsgBridgeOut" events emitted so far

keeperVars == <<relayers, cosmosMinted, bitmap, balances, wrappedSupply, inEvents, outEvents>>

KeeperTypeOK ==
    /\ relayers \in Registries
    /\ cosmosMinted \in Nat
    /\ IsBitmap(bitmap)
    /\ balances \in [Accounts -> Coins]
    /\ wrappedSupply \in Nat
    /\ inEvents \in Seq(InEvent)
    /\ outEvents \in Seq(OutEvent)

\* The production genesis: no wrapped token exists before the first deposit.
KeeperInit ==
    /\ relayers = GenesisRelayers
    /\ cosmosMinted = 0
    /\ bitmap = EmptyBitmap
    /\ balances = [a \in Accounts |-> [d \in Denoms |-> IF d = "ucsov" THEN GenesisNative ELSE 0]]
    /\ wrappedSupply = 0
    /\ inEvents = <<>>
    /\ outEvents = <<>>

------------------------------------------------------------------------------
\* Mutant of Minus: nothing is debited.
KeepsCoins(c1, c2) == c1

Plus(c1, c2)  == [d \in Denoms |-> c1[d] + c2[d]]
Minus(c1, c2) == [d \in Denoms |-> c1[d] - c2[d]]
Covers(c1, c2) == \A d \in Denoms : c1[d] >= c2[d]

\* Relayers of a registry that hold a key.
Holders(key) == {a \in DOMAIN relayers : relayers[a] = key}

(***************************************************************************)
(* The signature loop of ProcessBridgeIn.  sigs[k] is the number of        *)
(* signatures of the message that verify under key k.  Each signature is   *)
(* credited to one relayer that holds its key and was not credited before, *)
(* so a key gets as many relayers as it has signatures, up to its holders. *)
(***************************************************************************)
IsSignedMap(signedMap, sigs) ==
    \A k \in PubKeys :
        LET credited == Cardinality(signedMap \cap Holders(k))
            holders  == Cardinality(Holders(k))
        IN  credited = IF sigs[k] < holders THEN sigs[k] ELSE holders

\* Mutant: two signatures under one key count twice.
CountsSignatures(sigs) == \E k \in PubKeys : sigs[k] >= QuorumThreshold

HasQuorum(sigs) ==
    \E signedMap \in SUBSET DOMAIN relayers :
        Cardinality(signedMap) >= QuorumThreshold /\ IsSignedMap(signedMap, sigs)

\* Mutant: the cap is compared before the deposit is added.
CapNotReached(amount) == cosmosMinted < SupplyCap

WithinCap(amount) == cosmosMinted + amount <= SupplyCap

\* ProcessBridgeIn: replay check, signatures, supply cap, then the mint.
BridgeIn(receiver, coins, nonce, sigs) ==
    /\ ~IsNonceProcessed(bitmap, nonce)
    /\ HasQuorum(sigs)
    /\ WithinCap(coins["uwsov"])
    /\ bitmap' = SetNonceProcessed(bitmap, nonce)
    /\ cosmosMinted' = cosmosMinted + coins["uwsov"]
    /\ wrappedSupply' = wrappedSupply + coins["uwsov"]
    /\ balances' = [balances EXCEPT ![receiver] = Plus(@, coins)]
    /\ inEvents' = Append(inEvents, [receiver |-> receiver, coins |-> coins, nonce |-> nonce])
    /\ UNCHANGED <<relayers, outEvents>>

\* ProcessBridgeOut: circulation check, then the burn.
BridgeOut(sender, recipient, coins) ==
    /\ cosmosMinted >= coins["uwsov"]
    /\ Covers(balances[sender], coins)
    /\ balances' = [balances EXCEPT ![sender] = Minus(@, coins)]
    /\ wrappedSupply' = wrappedSupply - coins["uwsov"]
    /\ cosmosMinted' = cosmosMinted - coins["uwsov"]
    /\ outEvents' = Append(outEvents, [sender |-> sender, recipient |-> recipient, coins |-> coins])
    /\ UNCHANGED <<relayers, bitmap, inEvents>>

\* MsgUpdateBridgeRelayerSet of x/governance-ext, active and not.
SetRelayer(addr, key) ==
    /\ relayers' = [a \in DOMAIN relayers \cup {addr} |-> IF a = addr THEN key ELSE relayers[a]]
    /\ UNCHANGED <<cosmosMinted, bitmap, balances, wrappedSupply, inEvents, outEvents>>

DeleteRelayer(addr) ==
    /\ relayers' = [a \in DOMAIN relayers \ {addr} |-> relayers[a]]
    /\ UNCHANGED <<cosmosMinted, bitmap, balances, wrappedSupply, inEvents, outEvents>>

\* x/bank: an account pays another one.
Transfer(from, to, coins) ==
    /\ from # to
    /\ Covers(balances[from], coins)
    /\ balances' = [balances EXCEPT ![from] = Minus(@, coins), ![to] = Plus(@, coins)]
    /\ UNCHANGED <<relayers, cosmosMinted, bitmap, wrappedSupply, inEvents, outEvents>>

\* Mutant: the export has no CosmosMinted.
ForgetsCirculation ==
    /\ bitmap' = EmptyBitmap /\ cosmosMinted' = 0
    /\ UNCHANGED <<relayers, balances, wrappedSupply, inEvents, outEvents>>

(***************************************************************************)
(* The chain is exported and restarted from the result: ExportGenesis      *)
(* writes Params, Relayers and CosmosMinted, x/bank its balances, and      *)
(* InitGenesis restores them into an empty store.                          *)
(***************************************************************************)
ExportImportGenesis ==
    /\ bitmap' = EmptyBitmap
    /\ UNCHANGED <<relayers, cosmosMinted, balances, wrappedSupply, inEvents, outEvents>>

------------------------------------------------------------------------------
\* Signatures of one message: for each key, how many of them verify under it.
SignatureSets == [PubKeys -> 0..2]

KeeperNext ==
    \/ \E r \in Accounts, c \in Deposits, n \in Nonces, s \in SignatureSets : BridgeIn(r, c, n, s)
    \/ \E a \in Accounts, u \in BscUsers, c \in Withdrawals : BridgeOut(a, u, c)
    \/ \E a \in RelayerAddrs, k \in PubKeys : SetRelayer(a, k)
    \/ \E a \in RelayerAddrs : DeleteRelayer(a)
    \/ \E a, b \in Accounts, c \in Withdrawals : Transfer(a, b, c)

KeeperSpec == KeeperInit /\ [][KeeperNext]_keeperVars

\* The same chain, which may also be restarted from an exported genesis.
RestartSpec == KeeperInit /\ [][KeeperNext \/ ExportImportGenesis]_keeperVars

------------------------------------------------------------------------------
\* The registered "supply" invariant: circulation never exceeds the cap.
SupplyInvariant == cosmosMinted <= SupplyCap

\* A nonce mints at most once, however often and in whatever order its
\* MsgBridgeIn is submitted, and across every change of the relayer set.
MintedOnce ==
    \A i, j \in DOMAIN inEvents : inEvents[i].nonce = inEvents[j].nonce => i = j

\* The module's own count of the circulation is x/bank's supply of uwsov: no
\* path mints or burns without counting, or counts without minting or burning.
CirculationIsSupply == cosmosMinted = wrappedSupply

\* No holder is refused a withdrawal by the circulation check: every balance
\* of wrapped tokens is within the circulation the module counts.
HoldersCanExit == \A a \in Accounts : balances[a]["uwsov"] <= cosmosMinted

\* The registry records exactly the nonces that minted, with no zero word (the
\* registered "nonce-bitmap" invariant).
RegistryMatchesMints ==
    /\ \A n \in Nonces : IsNonceProcessed(bitmap, n) <=> \E i \in DOMAIN inEvents : inEvents[i].nonce = n
    /\ \A w \in DOMAIN bitmap : bitmap[w] # {}
=============================================================================
