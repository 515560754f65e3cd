---------------------------- MODULE WalletStore ----------------------------
(***************************************************************************)
(* The explorer's wallet store (explorer/store/wallet.ts) with the button  *)
(* that drives it and the browser extensions it asks: every question is a  *)
(* promise, between whose answer and its use other handlers run.           *)
(***************************************************************************)
EXTENDS Naturals, FiniteSets

CONSTANTS
    CosmosWallets,  \* Keplr, OKX Wallet and Cosmostation
    MetaMask,
    Owned,          \* the accounts in each extension
    NoWallet, NoAccount

Wallets == CosmosWallets \cup {MetaMask}

ASSUME WalletParams == NoWallet \notin Wallets

OwnedAccounts == UNION {Owned[w] : w \in Wallets}

VARIABLES
    selected,       \* the account each extension has selected
    walletType, connected, address,     \* the store
    connecting,     \* calls of connectWallet that await: the account they hold
    reading,        \* keystore handlers that await getKey: the provider asked
    stale           \* the last write came of a handler whose wallet was gone

storeVars == <<walletType, connected, address>>
walletVars == <<selected, storeVars, connecting, reading, stale>>

WalletTypeOK ==
    /\ \A w \in Wallets : selected[w] \in Owned[w]
    /\ walletType \in Wallets \cup {NoWallet}
    /\ connected \in BOOLEAN
    /\ address \in OwnedAccounts \cup {NoAccount}
    /\ connecting \subseteq [wallet: Wallets, account: OwnedAccounts \cup {NoAccount}]
    /\ reading \subseteq CosmosWallets
    /\ stale \in BOOLEAN

Disconnected ==
    walletType = NoWallet /\ connected = FALSE /\ address = NoAccount

WalletInit ==
    /\ selected \in {f \in [Wallets -> OwnedAccounts] :
                       \A w \in Wallets : f[w] \in Owned[w]}
    /\ Disconnected
    /\ connecting = {} /\ reading = {}
    /\ stale = FALSE

SetStore(w, a) ==
    walletType' = w /\ connected' = TRUE /\ address' = a

disconnectWallet ==
    walletType' = NoWallet /\ connected' = FALSE /\ address' = NoAccount

-----------------------------------------------------------------------------
(* handleConnect of the button, or the faucet page's. *)
ConnectWallet(w) ==
    /\ connecting' = connecting \cup {[wallet |-> w, account |-> NoAccount]}
    /\ UNCHANGED <<selected, storeVars, reading, stale>>

(* enable and getKey of a Cosmos wallet answer. *)
CosmosConnects(w) ==
    /\ [wallet |-> w, account |-> NoAccount] \in connecting
    /\ w \in CosmosWallets
    /\ connecting' = connecting \ {[wallet |-> w, account |-> NoAccount]}
    /\ SetStore(w, selected[w])
    /\ stale' = FALSE
    /\ UNCHANGED <<selected, reading>>

(* eth_requestAccounts answers; the attempts to switch the chain follow. *)
AccountsGiven ==
    /\ [wallet |-> MetaMask, account |-> NoAccount] \in connecting
    /\ connecting' = (connecting \ {[wallet |-> MetaMask, account |-> NoAccount]})
                       \cup {[wallet |-> MetaMask, account |-> selected[MetaMask]]}
    /\ UNCHANGED <<selected, storeVars, reading, stale>>

(* Whatever became of them, the store takes the account given before. *)
MetaMaskConnects ==
    \E c \in connecting :
        /\ c.wallet = MetaMask /\ c.account # NoAccount
        /\ connecting' = connecting \ {c}
        /\ SetStore(MetaMask, c.account)
        /\ stale' = FALSE
        /\ UNCHANGED <<selected, reading>>

ConnectFails ==
    \E c \in connecting :
        /\ c.account = NoAccount
        /\ connecting' = connecting \ {c}
        /\ UNCHANGED <<selected, storeVars, reading, stale>>

Disconnect ==
    /\ disconnectWallet
    /\ stale' = FALSE
    /\ UNCHANGED <<selected, connecting, reading>>

\* Mutant of ListensTo: the event is obeyed whichever wallet is connected.
ListensAlways == connected

(* The condition of the accountsChanged handler. *)
ListensTo == walletType = MetaMask

(* The user changes the account in MetaMask, or locks it. *)
AccountsChanged(a) ==
    /\ a # selected[MetaMask]
    /\ selected' = IF a = NoAccount THEN selected ELSE [selected EXCEPT ![MetaMask] = a]
    /\ IF ~ListensTo
       THEN UNCHANGED <<storeVars, stale>>
       ELSE /\ IF a = NoAccount
               THEN disconnectWallet
               ELSE address' = a /\ connected' = TRUE /\ UNCHANGED walletType
            /\ stale' = FALSE
    /\ UNCHANGED <<connecting, reading>>

(* The user changes the account in a Cosmos wallet: keplr_keystorechange finds
   out which provider to ask, and awaits its key. *)
KeystoreChange(w, a) ==
    /\ a # selected[w]
    /\ selected' = [selected EXCEPT ![w] = a]
    /\ reading' = IF connected /\ walletType \in CosmosWallets
                  THEN reading \cup {walletType} ELSE reading
    /\ UNCHANGED <<storeVars, connecting, stale>>

(* The key is there; nobody looks again whether its wallet is still connected. *)
KeyRead(w) ==
    /\ w \in reading
    /\ reading' = reading \ {w}
    /\ address' = selected[w] /\ connected' = TRUE
    /\ stale' = (walletType # w)
    /\ UNCHANGED <<selected, walletType, connecting>>

KeyReadFails(w) ==
    /\ w \in reading
    /\ reading' = reading \ {w}
    /\ UNCHANGED <<selected, storeVars, connecting, stale>>

(* chainChanged reloads the page: the store is not persistent. *)
ReloadStore ==
    /\ disconnectWallet
    /\ connecting' = {} /\ reading' = {}
    /\ stale' = FALSE
    /\ UNCHANGED selected

WalletStep ==
    \/ \E w \in Wallets : ConnectWallet(w)
    \/ \E w \in CosmosWallets :
         \/ CosmosConnects(w)
         \/ \E a \in Owned[w] : KeystoreChange(w, a)
         \/ KeyRead(w)
         \/ KeyReadFails(w)
    \/ \E a \in Owned[MetaMask] \cup {NoAccount} : AccountsChanged(a)
    \/ AccountsGiven
    \/ MetaMaskConnects
    \/ ConnectFails
    \/ Disconnect

-----------------------------------------------------------------------------
(* The address shown is one of the wallet that is named beside it, unless the
   key of a wallet that was gone arrived last (wallet.ts:239). *)
AddressOfWallet ==
    connected /\ ~stale => walletType # NoWallet /\ address \in Owned[walletType]
=============================================================================
