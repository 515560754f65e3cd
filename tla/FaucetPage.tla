----------------------------- MODULE FaucetPage -----------------------------
(***************************************************************************)
(* The faucet page of the explorer (explorer/app/faucet/page.tsx) between  *)
(* the wallet store, which fills in its address, and the faucet's API.     *)
(* The page remembers in the browser when an address may claim again, and  *)
(* shows the countdown of the address in its field.                        *)
(***************************************************************************)
EXTENDS Faucet, WalletStore

ASSUME PageParams == OwnedAccounts \subseteq Addresses

VARIABLES
    target,         \* targetAddress: the text in the field
    loading,
    entry,          \* localStorage: when an address may claim again; 0 for no entry
    shown,          \* cooldownRemaining
    request         \* the call the page awaits, and the address it was made for

pageVars == <<target, loading, entry, shown, request>>
faucetVars == <<serverVars, walletVars, pageVars>>

NoRequest == [call |-> NoHandler, for |-> NoAddress]

PageTypeOK ==
    /\ FaucetTypeOK
    /\ WalletTypeOK
    /\ target \in Addresses \cup {NoAddress}
    /\ loading \in BOOLEAN
    /\ entry \in [Addresses -> 0 .. MaxTime + Day]
    /\ shown \in 0 .. Day
    /\ request \in [call: Calls \cup {NoHandler}, for: Addresses \cup {NoAddress}]

PageInit ==
    /\ target = NoAddress /\ loading = FALSE
    /\ entry = [x \in Addresses |-> 0]
    /\ shown = 0
    /\ request = NoRequest

-----------------------------------------------------------------------------
Remaining(x) == IF entry[x] > now THEN entry[x] - now ELSE 0

\* Mutant of SetTarget: the countdown follows at the next second only.
SetTargetOnly(x) ==
    /\ target' = x
    /\ UNCHANGED <<shown, entry>>

(* setTargetAddress and the effect on it, checkCooldown: the countdown of the
   new address is shown, and an entry that has ended removed.  An empty field
   leaves the countdown as it was. *)
SetTarget(x) ==
    /\ target' = x
    /\ IF x = NoAddress \/ x = target
       THEN UNCHANGED <<shown, entry>>
       ELSE /\ shown' = Remaining(x)
            /\ entry' = IF Remaining(x) > 0 THEN entry ELSE [entry EXCEPT ![x] = 0]

(* The field cannot be edited while a request is under way; the button beside
   it, and the wallet, still change it. *)
TypeAddress(x) ==
    /\ ~loading
    /\ SetTarget(x)
    /\ UNCHANGED <<loading, request>>

UseConnectedAddress ==
    /\ connected
    /\ SetTarget(address)
    /\ UNCHANGED <<loading, request>>

(* The effect on [connected, walletAddress], after a step of the store. *)
FollowWallet ==
    /\ IF connected' /\ <<connected', address'>> # <<connected, address>>
       THEN SetTarget(address')
       ELSE UNCHANGED <<target, shown, entry>>
    /\ UNCHANGED <<loading, request>>

(* The interval of one second. *)
CheckCooldown ==
    /\ target # NoAddress
    /\ shown' = Remaining(target)
    /\ entry' = IF Remaining(target) > 0 THEN entry ELSE [entry EXCEPT ![target] = 0]
    /\ UNCHANGED <<target, loading, request>>

-----------------------------------------------------------------------------
(* handleRequestTokens, up to its await: the button is enabled. *)
RequestTokens(c) ==
    /\ ~loading /\ target # NoAddress /\ shown = 0
    /\ Post(c, target)
    /\ loading' = TRUE
    /\ request' = [call |-> c, for |-> target]
    /\ UNCHANGED <<target, entry, shown>>

(* A request from another page or program. *)
OthersRequest(c, x) ==
    /\ Post(c, x)
    /\ UNCHANGED pageVars

(* data.cooldownSeconds || 86400 *)
CooldownOf(call) == IF call.seconds = 0 THEN Day ELSE call.seconds

\* Mutant of EntryFor: the address is read when the answer is there.
EntryForField == target

(* The address the request was made for. *)
EntryFor == request.for

(* The rest of handleRequestTokens: the entry is that of the address asked for,
   the countdown is set whatever address is in the field by now. *)
AnswerReceived ==
    /\ loading
    /\ calls[request.call].at = "answered"
    /\ LET answer == calls[request.call]
       IN  IF answer.status \in {200, 429} /\ EntryFor # NoAddress
           THEN /\ entry' = [entry EXCEPT ![EntryFor] = now + CooldownOf(answer)]
                /\ shown' = CooldownOf(answer)
           ELSE UNCHANGED <<entry, shown>>
    /\ loading' = FALSE
    /\ request' = NoRequest
    /\ UNCHANGED target

(* The connection breaks; the call goes on without the page. *)
RequestBreaks ==
    /\ loading
    /\ ServerFault
    /\ loading' = FALSE
    /\ request' = NoRequest
    /\ UNCHANGED <<target, entry, shown>>

Reload ==
    /\ ReloadStore
    /\ target' = NoAddress /\ loading' = FALSE
    /\ shown' = 0
    /\ request' = NoRequest
    /\ UNCHANGED entry

-----------------------------------------------------------------------------
PageInput ==
    \/ \E x \in Addresses \cup {NoAddress} : TypeAddress(x)
    \/ UseConnectedAddress

Requests ==
    \E c \in Calls : \/ RequestTokens(c)
                     \/ \E x \in Addresses : OthersRequest(c, x)

UserStep ==
    \/ WalletStep /\ FollowWallet /\ UNCHANGED serverVars
    \/ Reload /\ UNCHANGED serverVars
    \/ PageInput /\ UNCHANGED <<serverVars, walletVars>>

SystemStep ==
    \/ CheckCooldown /\ UNCHANGED <<serverVars, walletVars>>
    \/ AnswerReceived /\ UNCHANGED <<serverVars, walletVars>>
    \/ /\ RequestBreaks
       /\ UNCHANGED <<walletVars, now, lastSend, txMu, calls, handlers, payments,
                      recorded, seen>>
    \/ ServerStep /\ UNCHANGED <<walletVars, pageVars>>

Next == UserStep \/ (Requests /\ UNCHANGED walletVars) \/ SystemStep

Init == FaucetInit /\ WalletInit /\ PageInit

Spec == Init /\ [][Next]_faucetVars

-----------------------------------------------------------------------------
(* The browser keeps an address from claiming only after its account was paid, or
   after the API's limiter refused a request for that address, whatever becomes of
   the field and the wallet while a request is under way (page.tsx:95, :102). *)
EntryIsEarned ==
    \A x \in Addresses :
        entry[x] # 0 => \/ \E p \in payments : p.account = AccountOf[x]
                        \/ \E c \in Calls : RefusedByLimiter(c) /\ calls[c].for = x

(* While the entry of the address in the field runs, the button is disabled, by
   the countdown of whatever address it shows (page.tsx:37). *)
ButtonBlockedByEntry ==
    target # NoAddress /\ entry[target] > now => shown > 0
=============================================================================
