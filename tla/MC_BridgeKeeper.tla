--------------------------- MODULE MC_BridgeKeeper ---------------------------
(***************************************************************************)
(* x/bridge on two accounts, two relayer addresses and two keys.  The      *)
(* nonces 255 and 256 lie on the two sides of a word boundary.             *)
(***************************************************************************)
EXTENDS BridgeKeeper

CONSTANTS
    alice, bob, r1, r2, k1, k2, user,
    MaxMints  \* bound: no restart from genesis after this many mints

MCAccounts     == {alice, bob}
MCRelayerAddrs == {r1, r2}
MCPubKeys      == {k1, k2}
MCBscUsers     == {user}
MCNonces       == {255, 256}
MCOneNonce     == {255}

Wrapped(n) == [d \in Denoms |-> IF d = "uwsov" THEN n ELSE 0]
Native(n)  == [d \in Denoms |-> IF d = "ucsov" THEN n ELSE 0]

MCDeposits    == {Wrapped(2), Plus(Native(1), Wrapped(1))}
MCWithdrawals == {Wrapped(1), Plus(Native(1), Wrapped(1))}
MCGenesisRelayers == [a \in {r1, r2} |-> IF a = r1 THEN k1 ELSE k2]

MCRestartSpec ==
    KeeperInit /\ [][KeeperNext \/ (Len(inEvents) < MaxMints /\ ExportImportGenesis)]_keeperVars
=============================================================================
