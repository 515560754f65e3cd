-------------------------- MODULE FaucetPage_proofs --------------------------
(***************************************************************************)
(* What the faucet and its page promise for every number of calls,         *)
(* addresses, wallets and faults, without the budget of the runs: the      *)
(* wallet store, the servers and the page in turn, then the three together.*)
(***************************************************************************)
EXTENDS FaucetPage, TLAPS

------------------------------------------------------------------------------
(* The wallet store. *)

\* The accounts that wait to be written are MetaMask's own.
WalletHolds ==
    /\ AddressOfWallet
    /\ connected => address \in OwnedAccounts
    /\ \A c \in connecting : c.wallet = MetaMask /\ c.account # NoAccount => c.account \in Owned[MetaMask]

LEMMA WalletInitHolds == WalletInit => WalletTypeOK /\ WalletHolds
BY DEF WalletInit, Disconnected, WalletTypeOK, WalletHolds, AddressOfWallet

LEMMA WalletHoldsStep ==
    ASSUME WalletTypeOK, WalletHolds, WalletStep \/ ReloadStore \/ UNCHANGED walletVars
    PROVE  WalletTypeOK' /\ WalletHolds'
<1> USE WalletParams DEF WalletTypeOK, WalletHolds, AddressOfWallet, storeVars
<1>1. \A w \in Wallets : Owned[w] \subseteq OwnedAccounts
  BY DEF OwnedAccounts
<1>2. MetaMask \in Wallets /\ CosmosWallets \subseteq Wallets
  BY DEF Wallets
<1>3. ASSUME NEW w \in Wallets, ConnectWallet(w)
      PROVE  WalletTypeOK' /\ WalletHolds'
  BY <1>3 DEF ConnectWallet
<1>4. ASSUME NEW w \in CosmosWallets, CosmosConnects(w)
      PROVE  WalletTypeOK' /\ WalletHolds'
  BY <1>1, <1>2, <1>4 DEF CosmosConnects, SetStore
<1>5. CASE AccountsGiven
  BY <1>1, <1>2, <1>5 DEF AccountsGiven
<1>6. CASE MetaMaskConnects
  BY <1>1, <1>2, <1>6 DEF MetaMaskConnects, SetStore
<1>7. CASE ConnectFails
  BY <1>7 DEF ConnectFails
<1>8. CASE Disconnect
  BY <1>8 DEF Disconnect, disconnectWallet
<1>9. ASSUME NEW a \in Owned[MetaMask] \cup {NoAccount}, AccountsChanged(a)
      PROVE  WalletTypeOK' /\ WalletHolds'
  <2>1. \A w \in Wallets : selected'[w] \in Owned[w]
    BY <1>9 DEF AccountsChanged
  <2>2. UNCHANGED <<connecting, reading>>
    BY <1>9 DEF AccountsChanged
  <2>3. CASE ~ListensTo
    BY <1>9, <2>1, <2>2, <2>3 DEF AccountsChanged
  <2>4. CASE ListensTo /\ a = NoAccount
    BY <1>9, <2>1, <2>2, <2>4 DEF AccountsChanged, disconnectWallet
  <2>5. CASE ListensTo /\ a # NoAccount
    BY <1>1, <1>2, <1>9, <2>1, <2>2, <2>5 DEF AccountsChanged, ListensTo
  <2> QED BY <2>3, <2>4, <2>5
<1>10. ASSUME NEW w \in CosmosWallets, NEW a \in Owned[w], KeystoreChange(w, a)
       PROVE  WalletTypeOK' /\ WalletHolds'
  <2>1. \A v \in Wallets : selected'[v] \in Owned[v]
    BY <1>10 DEF KeystoreChange
  <2> QED BY <1>10, <2>1 DEF KeystoreChange
<1>11. ASSUME NEW w \in CosmosWallets, KeyRead(w)
       PROVE  WalletTypeOK' /\ WalletHolds'
  BY <1>1, <1>2, <1>11 DEF KeyRead
<1>12. ASSUME NEW w \in CosmosWallets, KeyReadFails(w)
       PROVE  WalletTypeOK' /\ WalletHolds'
  BY <1>12 DEF KeyReadFails
<1>13. CASE ReloadStore
  BY <1>13 DEF ReloadStore, disconnectWallet
<1>14. CASE UNCHANGED walletVars
  BY <1>14 DEF walletVars
<1> QED
  BY <1>3, <1>4, <1>5, <1>6, <1>7, <1>8, <1>9, <1>10, <1>11, <1>12, <1>13, <1>14 DEF WalletStep

------------------------------------------------------------------------------
(* The servers.  What their steps leave alone, shown once for every action. *)

LEMMA CallTyped ==
    ASSUME FaucetTypeOK, NEW c \in Calls
    PROVE  /\ calls[c] \in CallRecord
           /\ calls[c].at \in {"free", "check", "wait", "answered"}
           /\ calls[c].for \in Addresses \cup {NoAddress} /\ calls[c].attempt \in Attempts \cup {0}
           /\ calls[c].status \in {0, 200, 429, 500, 502} /\ calls[c].seconds \in {0, Day}
BY DEF FaucetTypeOK, CallRecord

LEMMA CallReplaced ==
    ASSUME FaucetTypeOK, NEW c \in Calls, NEW r \in CallRecord, calls' = [calls EXCEPT ![c] = r]
    PROVE  /\ calls' \in [Calls -> CallRecord] /\ calls'[c] = r
           /\ \A d \in Calls : d # c => calls'[d] = calls[d]
BY DEF FaucetTypeOK

LEMMA PostSets ==
    ASSUME FaucetTypeOK, NEW c \in Calls, NEW x \in Addresses, Post(c, x)
    PROVE  /\ calls' \in [Calls -> CallRecord] /\ \A d \in Calls : d # c => calls'[d] = calls[d]
           /\ calls[c].at = "free" /\ calls'[c].at = "check" /\ calls'[c].for = x /\ calls'[c].attempt = 0
<1> DEFINE r == Unanswered("check", x, 0)
<1>1. calls[c].at = "free" /\ calls' = [calls EXCEPT ![c] = r]
  BY DEF Post, Unused, Unanswered
<1>2. r \in CallRecord /\ r.at = "check" /\ r.for = x /\ r.attempt = 0
  BY FaucetParams DEF CallRecord, Unanswered
<1> HIDE DEF r
<1>3. /\ calls' \in [Calls -> CallRecord] /\ calls'[c] = r
      /\ \A d \in Calls : d # c => calls'[d] = calls[d]
  BY <1>1, <1>2, CallReplaced
<1> QED BY <1>1, <1>2, <1>3

LEMMA AnswerSets ==
    ASSUME FaucetTypeOK, NEW c \in Calls, NEW status \in {200, 429, 500, 502}, NEW seconds \in {0, Day},
           Answer(c, status, seconds)
    PROVE  /\ calls' \in [Calls -> CallRecord] /\ \A d \in Calls : d # c => calls'[d] = calls[d]
           /\ calls'[c].at = "answered" /\ calls'[c].status = status
           /\ calls'[c].for = calls[c].for /\ calls'[c].attempt = calls[c].attempt
<1> DEFINE r == [at |-> "answered", for |-> calls[c].for, attempt |-> calls[c].attempt,
                 status |-> status, seconds |-> seconds]
<1>1. calls' = [calls EXCEPT ![c] = r]
  BY DEF Answer, FaucetTypeOK
<1>2. r \in CallRecord
  BY CallTyped DEF CallRecord
<1>3. r.at = "answered" /\ r.status = status /\ r.for = calls[c].for /\ r.attempt = calls[c].attempt
  OBVIOUS
<1> HIDE DEF r
<1>4. /\ calls' \in [Calls -> CallRecord] /\ calls'[c] = r
      /\ \A d \in Calls : d # c => calls'[d] = calls[d]
  BY <1>1, <1>2 DEF FaucetTypeOK
<1> QED BY <1>3, <1>4

LEMMA AskSets ==
    ASSUME FaucetTypeOK, NEW c \in Calls, NEW k \in Attempts, AskDaemon(c, k)
    PROVE  /\ calls' \in [Calls -> CallRecord] /\ \A d \in Calls : d # c => calls'[d] = calls[d]
           /\ calls'[c].at = "wait" /\ calls'[c].attempt = k /\ calls'[c].for = calls[c].for
           /\ \A h \in Handlers : handlers'[h] = IF h = <<c, k>> THEN "check" ELSE handlers[h]
           /\ handlers' \in [Handlers -> Ended \cup {"none", "check", "lock", "send", "record"}]
<1> DEFINE r == Unanswered("wait", calls[c].for, k)
<1>1. calls' = [calls EXCEPT ![c] = r]
  BY DEF AskDaemon, FaucetTypeOK
<1>2. r \in CallRecord /\ r.at = "wait" /\ r.for = calls[c].for /\ r.attempt = k
  BY FaucetParams, CallTyped DEF CallRecord, Unanswered
<1> HIDE DEF r
<1>3. /\ calls' \in [Calls -> CallRecord] /\ calls'[c] = r
      /\ \A d \in Calls : d # c => calls'[d] = calls[d]
  BY <1>1, <1>2, CallReplaced
<1>4. handlers' = [handlers EXCEPT ![<<c, k>>] = "check"] /\ <<c, k>> \in Handlers
  BY DEF AskDaemon, Handlers
<1>5. /\ \A h \in Handlers : handlers'[h] = IF h = <<c, k>> THEN "check" ELSE handlers[h]
      /\ handlers' \in [Handlers -> Ended \cup {"none", "check", "lock", "send", "record"}]
  BY <1>4 DEF FaucetTypeOK
<1> QED BY <1>2, <1>3, <1>5

LEMMA MoveSets ==
    ASSUME FaucetTypeOK, NEW h \in Handlers, NEW to \in Ended \cup {"lock", "send", "record"}, Move(h, to)
    PROVE  /\ handlers' \in [Handlers -> Ended \cup {"none", "check", "lock", "send", "record"}]
           /\ \A g \in Handlers : handlers'[g] = IF g = h THEN to ELSE handlers[g]
BY DEF Move, FaucetTypeOK

\* The calls know their address and the handlers they started, and a handler
\* that has begun belongs to the attempt its call has come to.
CallsAndHandlers ==
    \A c \in Calls :
        /\ calls[c].at # "free" => calls[c].for \in Addresses
        /\ calls[c].at = "wait" => calls[c].attempt \in Attempts
        /\ calls[c].at \in {"free", "check"} =>
             calls[c].attempt = 0 /\ \A k \in Attempts : handlers[<<c, k>>] = "none"
        /\ 2 \in Attempts /\ calls[c].attempt # 2 => handlers[<<c, 2>>] = "none"

\* How far one step takes a call, a handler and what they leave behind.
CallMoves(c) ==
    \/ calls'[c] = calls[c]
    \/ /\ calls[c].at = "free" /\ calls'[c].at = "check"
       /\ calls'[c].for \in Addresses /\ calls'[c].attempt = 0
    \/ /\ calls'[c].for = calls[c].for /\ calls'[c].attempt = calls[c].attempt
       /\ calls[c].at = "check" /\ calls'[c].at = "answered" /\ calls'[c].status = 429
    \/ /\ calls'[c].for = calls[c].for /\ calls[c].at = "check" /\ calls'[c].at = "wait"
       /\ calls'[c].attempt = 1 /\ handlers'[<<c, 1>>] = "check"
    \/ /\ calls'[c].for = calls[c].for /\ calls[c].at = "wait" /\ calls'[c].at = "wait"
       /\ calls[c].attempt = 1 /\ calls'[c].attempt = 2 /\ 2 \in Attempts
       /\ handlers'[<<c, 2>>] = "check"
    \/ /\ calls'[c].for = calls[c].for /\ calls'[c].attempt = calls[c].attempt
       /\ calls[c].at = "wait" /\ calls'[c].at = "answered"
       /\ \/ calls'[c].status = 200 /\ handlers[<<c, calls[c].attempt>>] = "paid"
          \/ calls'[c].status = 429 /\ handlers[<<c, calls[c].attempt>>] = "limited"
          \/ calls'[c].status \in {500, 502}

HandlerMoves(h) ==
    \/ handlers'[h] = handlers[h]
    \/ /\ handlers[h] = "none" /\ handlers'[h] = "check"
       /\ calls[h[1]].at \in {"check", "wait"} /\ calls'[h[1]].at = "wait" /\ calls'[h[1]].attempt = h[2]
    \/ handlers[h] \in {"check", "lock", "send"} /\ handlers'[h] \in {"lock", "send", "failed", "broken"}
    \/ handlers[h] = "check" /\ handlers'[h] = "limited" /\ OnCooldown(Account(h[1]))
    \/ /\ handlers[h] = "send" /\ handlers'[h] \in {"record", "paid"}
       /\ [by |-> h, account |-> Account(h[1]), at |-> now] \in payments'
    \/ handlers[h] = "record" /\ handlers'[h] \in {"paid", "broken"}

SeenMoves(h) ==
    \/ seen'[h] = seen[h]
    \/ /\ handlers[h] = "check" /\ handlers'[h] = "lock"
       /\ ~OnCooldown(Account(h[1])) /\ seen'[h] = recorded

PaymentsMove ==
    \/ payments' = payments
    \/ \E h \in Handlers : /\ handlers[h] = "send" /\ handlers'[h] \in {"record", "paid", "failed"}
                           /\ payments' = payments \cup {[by |-> h, account |-> Account(h[1]), at |-> now]}

SendsMove ==
    \/ lastSend' = lastSend /\ recorded' = recorded
    \/ lastSend' = [a \in Accounts |-> Never] /\ recorded' = {}
    \/ \E h \in Handlers : /\ handlers[h] = "record" /\ handlers'[h] = "paid"
                           /\ lastSend' = [lastSend EXCEPT ![Account(h[1])] = now]
                           /\ recorded' = recorded \cup {h}

Moves ==
    /\ now <= now'
    /\ \A c \in Calls : CallMoves(c)
    /\ \A h \in Handlers : SeenMoves(h)
    /\ \A h \in Handlers : HandlerMoves(h)
    /\ PaymentsMove /\ SendsMove

TimesBehind == \A a \in Accounts : lastSend[a] <= now

\* The part of the type invariant that is not about calls and handlers.
RestTyped ==
    /\ now \in 0 .. MaxTime
    /\ lastSend \in [Accounts -> Never .. MaxTime]
    /\ txMu \in Handlers \cup {NoHandler}
    /\ payments \subseteq [by: Handlers, account: Accounts, at: 0 .. MaxTime]
    /\ recorded \subseteq Handlers
    /\ seen \in [Handlers -> SUBSET Handlers]
    /\ serverFaults \in 0 .. MaxFaults

CallsTyped == calls \in [Calls -> CallRecord]
HandlersTyped == handlers \in [Handlers -> Ended \cup {"none", "check", "lock", "send", "record"}]

LEMMA TypeParts == FaucetTypeOK <=> RestTyped /\ CallsTyped /\ HandlersTyped
BY DEF FaucetTypeOK, RestTyped, CallsTyped, HandlersTyped

LEMMA AccountIn ==
    ASSUME FaucetTypeOK, CallsAndHandlers, NEW c \in Calls, calls[c].at # "free"
    PROVE  Account(c) \in Accounts
BY FaucetParams DEF CallsAndHandlers, Account

LEMMA FaultCounted ==
    ASSUME RestTyped, ServerFault
    PROVE  serverFaults' \in 0 .. MaxFaults
BY FaucetParams DEF RestTyped, ServerFault

LEMMA PostMoves ==
    ASSUME FaucetTypeOK, NEW c \in Calls, NEW x \in Addresses, Post(c, x)
    PROVE  FaucetTypeOK' /\ Moves
<1>1. RestTyped /\ CallsTyped /\ HandlersTyped
  BY TypeParts
<1>2. UNCHANGED <<now, lastSend, txMu, handlers, payments, recorded, seen, serverFaults>>
  BY DEF Post
<1>3. CallsTyped' /\ HandlersTyped' /\ RestTyped'
  BY <1>1, <1>2, PostSets DEF CallsTyped, HandlersTyped, RestTyped
<1>4. \A d \in Calls : CallMoves(d)
  BY PostSets DEF CallMoves
<1>5. now <= now'
  BY <1>1, <1>2 DEF RestTyped
<1>6. Moves
  BY <1>2, <1>4, <1>5 DEF Moves, SeenMoves, HandlerMoves, PaymentsMove, SendsMove
<1> QED BY <1>3, <1>6, TypeParts, PTL

LEMMA LimiterRefusesMoves ==
    ASSUME FaucetTypeOK, NEW c \in Calls, LimiterRefuses(c)
    PROVE  FaucetTypeOK' /\ Moves
<1>1. RestTyped /\ CallsTyped /\ HandlersTyped
  BY TypeParts
<1>2. /\ UNCHANGED <<now, lastSend, txMu, handlers, payments, recorded, seen, serverFaults>>
      /\ calls[c].at = "check" /\ Answer(c, 429, 0)
  BY DEF LimiterRefuses
<1>3. /\ calls' \in [Calls -> CallRecord] /\ \A d \in Calls : d # c => calls'[d] = calls[d]
      /\ calls'[c].at = "answered" /\ calls'[c].status = 429
      /\ calls'[c].for = calls[c].for /\ calls'[c].attempt = calls[c].attempt
  BY <1>2, AnswerSets
<1>4. CallsTyped' /\ HandlersTyped' /\ RestTyped'
  BY <1>1, <1>2, <1>3 DEF CallsTyped, HandlersTyped, RestTyped
<1>5. \A d \in Calls : CallMoves(d)
  BY <1>2, <1>3 DEF CallMoves
<1>6. now <= now'
  BY <1>1, <1>2 DEF RestTyped
<1>7. Moves
  BY <1>2, <1>5, <1>6 DEF Moves, SeenMoves, HandlerMoves, PaymentsMove, SendsMove
<1> QED BY <1>4, <1>7, TypeParts, PTL

LEMMA CheckLimitMoves ==
    ASSUME FaucetTypeOK, CallsAndHandlers, NEW c \in Calls, CheckLimit(c)
    PROVE  FaucetTypeOK' /\ Moves
<1>1. RestTyped /\ CallsTyped /\ HandlersTyped
  BY TypeParts
<1>2. /\ UNCHANGED <<now, lastSend, txMu, payments, recorded, seen, serverFaults>>
      /\ calls[c].at = "check" /\ AskDaemon(c, 1) /\ 1 \in Attempts
  BY FaucetParams DEF CheckLimit
<1>3. now <= now' /\ PaymentsMove /\ SendsMove
  BY <1>1, <1>2 DEF RestTyped, PaymentsMove, SendsMove
<1>4. /\ calls' \in [Calls -> CallRecord] /\ \A d \in Calls : d # c => calls'[d] = calls[d]
      /\ calls'[c].at = "wait" /\ calls'[c].attempt = 1 /\ calls'[c].for = calls[c].for
      /\ \A h \in Handlers : handlers'[h] = IF h = <<c, 1>> THEN "check" ELSE handlers[h]
      /\ handlers' \in [Handlers -> Ended \cup {"none", "check", "lock", "send", "record"}]
  BY <1>2, AskSets
<1>5. <<c, 1>> \in Handlers /\ handlers[<<c, 1>>] = "none"
  BY <1>2 DEF CallsAndHandlers, Handlers
<1>6. CallsTyped' /\ HandlersTyped' /\ RestTyped'
  BY <1>1, <1>2, <1>4 DEF CallsTyped, HandlersTyped, RestTyped
<1>7. \A d \in Calls : CallMoves(d)
  BY <1>2, <1>4, <1>5 DEF CallMoves
<1>8. \A h \in Handlers : HandlerMoves(h) /\ SeenMoves(h)
  BY <1>2, <1>4, <1>5 DEF HandlerMoves, SeenMoves
<1>9. Moves
  BY <1>3, <1>7, <1>8 DEF Moves
<1> QED BY <1>6, <1>9, TypeParts, PTL

LEMMA TakeAnswerMoves ==
    ASSUME FaucetTypeOK, CallsAndHandlers, NEW c \in Calls, TakeAnswer(c)
    PROVE  FaucetTypeOK' /\ Moves
<1>1. RestTyped /\ CallsTyped /\ HandlersTyped
  BY TypeParts
<1>2. /\ UNCHANGED <<now, lastSend, txMu, handlers, payments, recorded, seen, serverFaults>>
      /\ calls[c].at = "wait"
  BY DEF TakeAnswer
<1>3. /\ calls' \in [Calls -> CallRecord] /\ \A d \in Calls : d # c => calls'[d] = calls[d]
      /\ calls'[c].for = calls[c].for /\ calls'[c].attempt = calls[c].attempt
      /\ calls'[c].at = "answered"
      /\ \/ calls'[c].status = 200 /\ handlers[<<c, calls[c].attempt>>] = "paid"
         \/ calls'[c].status = 429 /\ handlers[<<c, calls[c].attempt>>] = "limited"
         \/ calls'[c].status \in {500, 502}
  <2>1. CASE handlers[<<c, calls[c].attempt>>] = "paid" /\ Answer(c, 200, Day)
    BY <2>1, AnswerSets
  <2>2. CASE handlers[<<c, calls[c].attempt>>] = "limited" /\ Answer(c, 429, 0)
    BY <2>2, AnswerSets
  <2>3. CASE handlers[<<c, calls[c].attempt>>] = "failed" /\ Answer(c, 500, 0)
    BY <2>3, AnswerSets
  <2> QED BY <2>1, <2>2, <2>3 DEF TakeAnswer
<1>4. CallsTyped' /\ HandlersTyped' /\ RestTyped'
  BY <1>1, <1>2, <1>3 DEF CallsTyped, HandlersTyped, RestTyped
<1>5. \A d \in Calls : CallMoves(d)
  BY <1>2, <1>3 DEF CallMoves
<1>6. now <= now'
  BY <1>1, <1>2 DEF RestTyped
<1>7. Moves
  BY <1>2, <1>5, <1>6 DEF Moves, SeenMoves, HandlerMoves, PaymentsMove, SendsMove
<1> QED BY <1>4, <1>7, TypeParts, PTL

LEMMA AnswerLostMoves ==
    ASSUME FaucetTypeOK, CallsAndHandlers, NEW c \in Calls, AnswerLost(c)
    PROVE  FaucetTypeOK' /\ Moves
<1>1. RestTyped /\ CallsTyped /\ HandlersTyped
  BY TypeParts
<1>2. UNCHANGED <<now, lastSend, txMu, payments, recorded, seen>> /\ calls[c].at = "wait"
  BY DEF AnswerLost
<1>3. now <= now' /\ PaymentsMove /\ SendsMove
  BY <1>1, <1>2 DEF RestTyped, PaymentsMove, SendsMove
<1>4. RestTyped'
  <2>1. serverFaults' \in 0 .. MaxFaults
    BY <1>1, FaultCounted DEF AnswerLost, RestTyped
  <2> QED BY <1>1, <1>2, <2>1 DEF RestTyped
<1>5. CASE calls[c].attempt = 1 /\ 2 \in Attempts
  <2>1. AskDaemon(c, 2)
    BY <1>5 DEF AnswerLost
  <2>2. /\ calls' \in [Calls -> CallRecord] /\ \A d \in Calls : d # c => calls'[d] = calls[d]
        /\ calls'[c].at = "wait" /\ calls'[c].attempt = 2 /\ calls'[c].for = calls[c].for
        /\ \A h \in Handlers : handlers'[h] = IF h = <<c, 2>> THEN "check" ELSE handlers[h]
        /\ handlers' \in [Handlers -> Ended \cup {"none", "check", "lock", "send", "record"}]
    BY <1>5, <2>1, AskSets
  <2>3. <<c, 2>> \in Handlers /\ handlers[<<c, 2>>] = "none"
    <3>1. calls[c].attempt # 2 /\ 2 \in Attempts
      BY <1>5
    <3> QED BY <3>1 DEF CallsAndHandlers, Handlers
  <2>4. CallsTyped' /\ HandlersTyped'
    BY <2>2 DEF CallsTyped, HandlersTyped
  <2>5. \A d \in Calls : CallMoves(d)
    BY <1>2, <1>5, <2>2, <2>3 DEF CallMoves
  <2>6. \A h \in Handlers : HandlerMoves(h) /\ SeenMoves(h)
    BY <1>2, <2>2, <2>3 DEF HandlerMoves, SeenMoves
  <2>7. Moves
    BY <1>3, <2>5, <2>6 DEF Moves
  <2> QED BY <1>4, <2>4, <2>7, TypeParts, PTL
<1>6. CASE ~(calls[c].attempt = 1 /\ 2 \in Attempts)
  <2>1. Answer(c, 502, 0) /\ UNCHANGED handlers
    BY <1>6 DEF AnswerLost
  <2>2. /\ calls' \in [Calls -> CallRecord] /\ \A d \in Calls : d # c => calls'[d] = calls[d]
        /\ calls'[c].at = "answered" /\ calls'[c].status = 502
        /\ calls'[c].for = calls[c].for /\ calls'[c].attempt = calls[c].attempt
    BY <2>1, AnswerSets
  <2>3. CallsTyped' /\ HandlersTyped'
    BY <1>1, <2>1, <2>2 DEF CallsTyped, HandlersTyped
  <2>4. \A d \in Calls : CallMoves(d)
    BY <1>2, <2>2 DEF CallMoves
  <2>5. Moves
    BY <1>2, <1>3, <2>1, <2>4 DEF Moves, HandlerMoves, SeenMoves
  <2> QED BY <1>4, <2>3, <2>5, TypeParts, PTL
<1> QED BY <1>5, <1>6

LEMMA HandlerParts ==
    ASSUME NEW h \in Handlers
    PROVE  h[1] \in Calls /\ h[2] \in Attempts /\ h = <<h[1], h[2]>>
BY DEF Handlers

LEMMA HandlerBegun ==
    ASSUME FaucetTypeOK, CallsAndHandlers, NEW h \in Handlers, handlers[h] # "none"
    PROVE  /\ calls[h[1]].at \notin {"free", "check"} /\ calls[h[1]].for \in Addresses
           /\ Account(h[1]) \in Accounts
<1>1. PICK c \in Calls, k \in Attempts : c = h[1] /\ h = <<c, k>>
  BY HandlerParts
<1>2. calls[c].at \notin {"free", "check"}
  BY <1>1 DEF CallsAndHandlers
<1>3. calls[c].for \in Addresses /\ Account(c) \in Accounts
  BY <1>2, AccountIn DEF CallsAndHandlers
<1> QED BY <1>1, <1>2, <1>3

LEMMA DaemonCheckMoves ==
    ASSUME FaucetTypeOK, NEW h \in Handlers, DaemonCheck(h)
    PROVE  FaucetTypeOK' /\ Moves
<1>1. RestTyped /\ CallsTyped /\ HandlersTyped
  BY TypeParts
<1>2. /\ UNCHANGED <<now, lastSend, txMu, calls, payments, recorded, serverFaults>>
      /\ handlers[h] = "check"
  BY DEF DaemonCheck
<1>3. now <= now' /\ PaymentsMove /\ SendsMove
  BY <1>1, <1>2 DEF RestTyped, PaymentsMove, SendsMove
<1>4. PICK to \in Ended \cup {"lock", "send", "record"} :
         /\ Move(h, to)
         /\ \/ to = "limited" /\ OnCooldown(Account(h[1])) /\ UNCHANGED seen
            \/ to = "lock" /\ ~OnCooldown(Account(h[1])) /\ seen' = [seen EXCEPT ![h] = recorded]
  BY DEF DaemonCheck, Ended
<1>5. /\ handlers' \in [Handlers -> Ended \cup {"none", "check", "lock", "send", "record"}]
      /\ \A g \in Handlers : handlers'[g] = IF g = h THEN to ELSE handlers[g]
  BY <1>4, MoveSets
<1>6. CallsTyped' /\ HandlersTyped' /\ RestTyped'
  BY <1>1, <1>2, <1>4, <1>5 DEF CallsTyped, HandlersTyped, RestTyped
<1>7. \A g \in Handlers : HandlerMoves(g)
  BY <1>2, <1>4, <1>5 DEF HandlerMoves
<1>8. \A g \in Handlers : SeenMoves(g)
  BY <1>1, <1>2, <1>4, <1>5 DEF SeenMoves, RestTyped
<1>9. Moves
  BY <1>2, <1>3, <1>7, <1>8 DEF Moves, CallMoves
<1> QED BY <1>6, <1>9, TypeParts, PTL

LEMMA DaemonLockMoves ==
    ASSUME FaucetTypeOK, NEW h \in Handlers, DaemonLock(h)
    PROVE  FaucetTypeOK' /\ Moves
<1>1. RestTyped /\ CallsTyped /\ HandlersTyped
  BY TypeParts
<1>2. /\ UNCHANGED <<now, lastSend, calls, payments, recorded, seen, serverFaults>>
      /\ handlers[h] = "lock" /\ txMu' = h /\ Move(h, "send")
  BY DEF DaemonLock
<1>3. now <= now' /\ PaymentsMove /\ SendsMove
  BY <1>1, <1>2 DEF RestTyped, PaymentsMove, SendsMove
<1>4. /\ handlers' \in [Handlers -> Ended \cup {"none", "check", "lock", "send", "record"}]
      /\ \A g \in Handlers : handlers'[g] = IF g = h THEN "send" ELSE handlers[g]
  BY <1>2, MoveSets
<1>5. CallsTyped' /\ HandlersTyped' /\ RestTyped'
  BY <1>1, <1>2, <1>4 DEF CallsTyped, HandlersTyped, RestTyped
<1>6. \A g \in Handlers : HandlerMoves(g)
  BY <1>2, <1>4 DEF HandlerMoves
<1>7. Moves
  BY <1>2, <1>3, <1>6 DEF Moves, CallMoves, SeenMoves
<1> QED BY <1>5, <1>7, TypeParts, PTL

LEMMA DaemonSendMoves ==
    ASSUME FaucetTypeOK, CallsAndHandlers, NEW h \in Handlers, DaemonSend(h)
    PROVE  FaucetTypeOK' /\ Moves
<1> DEFINE p == [by |-> h, account |-> Account(h[1]), at |-> now]
<1>1. RestTyped /\ CallsTyped /\ HandlersTyped
  BY TypeParts
<1>2. /\ UNCHANGED <<now, lastSend, calls, recorded, seen>>
      /\ handlers[h] = "send" /\ payments' = payments \cup {p}
  BY DEF DaemonSend, Pay
<1>3. now <= now' /\ SendsMove
  BY <1>1, <1>2 DEF RestTyped, SendsMove
<1>4. PICK to \in Ended \cup {"lock", "send", "record"} : Move(h, to) /\ to \in {"record", "paid"}
  BY DEF DaemonSend, Ended
<1>5. /\ handlers' \in [Handlers -> Ended \cup {"none", "check", "lock", "send", "record"}]
      /\ \A g \in Handlers : handlers'[g] = IF g = h THEN to ELSE handlers[g]
  BY <1>4, MoveSets
<1>6. p \in [by: Handlers, account: Accounts, at: 0 .. MaxTime]
  <2>1. Account(h[1]) \in Accounts
    BY <1>2, HandlerBegun
  <2>2. now \in 0 .. MaxTime
    BY <1>1 DEF RestTyped
  <2> QED BY <2>1, <2>2
<1>7. PaymentsMove
  BY <1>2, <1>4, <1>5 DEF PaymentsMove
<1>8. \A g \in Handlers : HandlerMoves(g)
  BY <1>2, <1>4, <1>5 DEF HandlerMoves
<1> HIDE DEF p
<1>9. serverFaults' \in 0 .. MaxFaults /\ txMu' \in Handlers \cup {NoHandler}
  BY <1>1, FaultCounted DEF DaemonSend, RestTyped
<1>10. CallsTyped' /\ HandlersTyped' /\ RestTyped'
  BY <1>1, <1>2, <1>5, <1>6, <1>9 DEF CallsTyped, HandlersTyped, RestTyped
<1>11. Moves
  BY <1>2, <1>3, <1>7, <1>8 DEF Moves, CallMoves, SeenMoves
<1> QED BY <1>10, <1>11, TypeParts, PTL

LEMMA DaemonSendFailsMoves ==
    ASSUME FaucetTypeOK, CallsAndHandlers, NEW h \in Handlers, DaemonSendFails(h)
    PROVE  FaucetTypeOK' /\ Moves
<1> DEFINE p == [by |-> h, account |-> Account(h[1]), at |-> now]
<1>1. RestTyped /\ CallsTyped /\ HandlersTyped
  BY TypeParts
<1>2. /\ UNCHANGED <<now, lastSend, calls, recorded, seen>>
      /\ handlers[h] = "send" /\ txMu' = NoHandler /\ Move(h, "failed") /\ ServerFault
      /\ payments' = payments \cup {p} \/ payments' = payments
  BY DEF DaemonSendFails, Pay
<1>3. now <= now' /\ SendsMove
  BY <1>1, <1>2 DEF RestTyped, SendsMove
<1>4. /\ handlers' \in [Handlers -> Ended \cup {"none", "check", "lock", "send", "record"}]
      /\ \A g \in Handlers : handlers'[g] = IF g = h THEN "failed" ELSE handlers[g]
  BY <1>2, MoveSets DEF Ended
<1>5. p \in [by: Handlers, account: Accounts, at: 0 .. MaxTime]
  <2>1. Account(h[1]) \in Accounts
    BY <1>2, HandlerBegun
  <2>2. now \in 0 .. MaxTime
    BY <1>1 DEF RestTyped
  <2> QED BY <2>1, <2>2
<1>6. PaymentsMove
  BY <1>2, <1>4 DEF PaymentsMove
<1> HIDE DEF p
<1>7. CallsTyped' /\ HandlersTyped' /\ RestTyped'
  BY <1>1, <1>2, <1>4, <1>5, FaultCounted DEF CallsTyped, HandlersTyped, RestTyped
<1>8. \A g \in Handlers : HandlerMoves(g)
  BY <1>2, <1>4 DEF HandlerMoves
<1>9. Moves
  BY <1>2, <1>3, <1>6, <1>8 DEF Moves, CallMoves, SeenMoves
<1> QED BY <1>7, <1>9, TypeParts, PTL

LEMMA DaemonRecordMoves ==
    ASSUME FaucetTypeOK, CallsAndHandlers, NEW h \in Handlers, DaemonRecord(h)
    PROVE  FaucetTypeOK' /\ Moves
<1>1. RestTyped /\ CallsTyped /\ HandlersTyped
  BY TypeParts
<1>2. /\ UNCHANGED <<now, calls, payments, seen, serverFaults>> /\ recorded' = recorded \cup {h}
      /\ handlers[h] = "record" /\ txMu' = NoHandler /\ Move(h, "paid")
      /\ lastSend' = [lastSend EXCEPT ![Account(h[1])] = now]
  BY DEF DaemonRecord
<1>3. now <= now' /\ PaymentsMove
  BY <1>1, <1>2 DEF RestTyped, PaymentsMove
<1>4. /\ handlers' \in [Handlers -> Ended \cup {"none", "check", "lock", "send", "record"}]
      /\ \A g \in Handlers : handlers'[g] = IF g = h THEN "paid" ELSE handlers[g]
  BY <1>2, MoveSets DEF Ended
<1>5. SendsMove
  BY <1>2, <1>4 DEF SendsMove
<1>6. lastSend' \in [Accounts -> Never .. MaxTime]
  <2>1. now \in Never .. MaxTime
    BY <1>1, FaucetParams DEF RestTyped, Never
  <2> QED BY <1>1, <1>2, <2>1 DEF RestTyped
<1>7. CallsTyped' /\ HandlersTyped' /\ RestTyped'
  BY <1>1, <1>2, <1>4, <1>6 DEF CallsTyped, HandlersTyped, RestTyped
<1>8. \A g \in Handlers : HandlerMoves(g)
  BY <1>2, <1>4 DEF HandlerMoves
<1>9. Moves
  BY <1>2, <1>3, <1>5, <1>8 DEF Moves, CallMoves, SeenMoves
<1> QED BY <1>7, <1>9, TypeParts, PTL

LEMMA DaemonRestartMoves ==
    ASSUME FaucetTypeOK, DaemonRestart
    PROVE  FaucetTypeOK' /\ Moves
<1>1. RestTyped /\ CallsTyped /\ HandlersTyped
  BY TypeParts
<1>2. /\ UNCHANGED <<now, calls, payments, seen>> /\ recorded' = {}
      /\ lastSend' = [a \in Accounts |-> Never] /\ txMu' = NoHandler /\ ServerFault
      /\ handlers' = [h \in Handlers |->
                        IF handlers[h] \in Ended \cup {"none"} THEN handlers[h] ELSE "broken"]
  BY DEF DaemonRestart
<1>3. now <= now' /\ PaymentsMove /\ SendsMove
  BY <1>1, <1>2 DEF RestTyped, PaymentsMove, SendsMove
<1>4. /\ HandlersTyped'
      /\ \A h \in Handlers : HandlerMoves(h)
  BY <1>1, <1>2 DEF HandlersTyped, HandlerMoves, Ended
<1>5. Never \in Never .. MaxTime
  BY FaucetParams DEF Never
<1>6. CallsTyped' /\ RestTyped'
  BY <1>1, <1>2, <1>5, FaultCounted DEF CallsTyped, RestTyped
<1>7. Moves
  BY <1>2, <1>3, <1>4 DEF Moves, CallMoves, SeenMoves
<1> QED BY <1>4, <1>6, <1>7, TypeParts, PTL

LEMMA SecondPassesMoves ==
    ASSUME FaucetTypeOK, SecondPasses
    PROVE  FaucetTypeOK' /\ Moves
<1>1. RestTyped /\ CallsTyped /\ HandlersTyped
  BY TypeParts
<1>2. UNCHANGED <<lastSend, txMu, calls, handlers, payments, recorded, seen, serverFaults>>
  BY DEF SecondPasses
<1>3. now <= now' /\ now' \in 0 .. MaxTime
  BY <1>1, FaucetParams DEF SecondPasses, RestTyped
<1>4. CallsTyped' /\ HandlersTyped' /\ RestTyped'
  BY <1>1, <1>2, <1>3 DEF CallsTyped, HandlersTyped, RestTyped
<1>5. Moves
  BY <1>2, <1>3 DEF Moves, CallMoves, SeenMoves, HandlerMoves, PaymentsMove, SendsMove
<1> QED BY <1>4, <1>5, TypeParts, PTL

\* A connection of the page's that breaks is a fault and nothing else here.
LEMMA NothingMoves ==
    ASSUME FaucetTypeOK, ServerFault \/ UNCHANGED serverFaults,
           UNCHANGED <<now, lastSend, txMu, calls, handlers, payments, recorded, seen>>
    PROVE  FaucetTypeOK' /\ Moves
<1>1. RestTyped /\ CallsTyped /\ HandlersTyped
  BY TypeParts
<1>2. now <= now' /\ serverFaults' \in 0 .. MaxFaults
  BY <1>1, FaultCounted DEF RestTyped
<1>3. CallsTyped' /\ HandlersTyped' /\ RestTyped'
  BY <1>1, <1>2 DEF CallsTyped, HandlersTyped, RestTyped
<1>4. Moves
  BY <1>2 DEF Moves, CallMoves, SeenMoves, HandlerMoves, PaymentsMove, SendsMove
<1> QED BY <1>3, <1>4, TypeParts, PTL

------------------------------------------------------------------------------
(* What the calls, the handlers and the payments know of each other. *)

Paid(a) == \E p \in payments : p.account = a

\* Every payment is that of a handler that is past its transaction.
PaymentsAreOwn ==
    \A p \in payments :
        /\ handlers[p.by] \in {"record", "paid", "failed", "broken"}
        /\ p.account = Account(p.by[1]) /\ p.at <= now

\* Who says that an account was paid, or has it wait, does so after a payment.
WhoWasPaid ==
    /\ \A h \in Handlers :
         /\ handlers[h] \in {"record", "paid"} => \E p \in payments : p.by = h
         /\ handlers[h] = "limited" => Paid(Account(h[1]))
    /\ \A a \in Accounts : lastSend[a] # Never => Paid(a)
    /\ \A c \in Calls :
         calls[c].at = "answered" /\ calls[c].status \in {200, 429}
         => Paid(Account(c)) \/ RefusedByLimiter(c)

\* A cooldown kept is at least as late as the payment; and a handler let through
\* when the daemon remembered it pays a cooldown later.
CooldownsKept ==
    /\ \A h \in recorded :
         /\ handlers[h] = "paid"
         /\ \A p \in payments : p.by = h => p.at <= lastSend[p.account]
    /\ \A h \in Handlers : \A g \in seen[h] :
         /\ handlers[g] = "paid" /\ handlers[h] \notin {"none", "check"}
         /\ \A p \in payments :
              p.by = g /\ p.account = Account(h[1])
              => /\ p.at + Cooldown <= now
                 /\ \A q \in payments : q.by = h => p.at + Cooldown <= q.at

ServerInv ==
    FaucetTypeOK /\ TimesBehind /\ CallsAndHandlers /\ PaymentsAreOwn /\ WhoWasPaid /\ CooldownsKept

LEMMA CallsAndHandlersStep ==
    ASSUME FaucetTypeOK, CallsAndHandlers, Moves
    PROVE  CallsAndHandlers'
<1> SUFFICES ASSUME NEW c \in Calls
    PROVE  (/\ calls[c].at # "free" => calls[c].for \in Addresses
            /\ calls[c].at = "wait" => calls[c].attempt \in Attempts
            /\ calls[c].at \in {"free", "check"} =>
                 calls[c].attempt = 0 /\ \A k \in Attempts : handlers[<<c, k>>] = "none"
            /\ 2 \in Attempts /\ calls[c].attempt # 2 => handlers[<<c, 2>>] = "none")'
  BY DEF CallsAndHandlers
<1>1. CallMoves(c)
  BY DEF Moves
<1>2. \A k \in Attempts : HandlerMoves(<<c, k>>)
  BY DEF Moves, Handlers
<1>3. \A k \in Attempts : handlers[<<c, k>>] = "none" =>
         \/ handlers'[<<c, k>>] = "none"
         \/ calls'[c].at = "wait" /\ calls'[c].attempt = k
  BY <1>2 DEF HandlerMoves
<1>4. calls'[c].at # "free" => calls'[c].for \in Addresses
  BY <1>1 DEF CallMoves, CallsAndHandlers
<1>5. calls'[c].at = "wait" => calls'[c].attempt \in Attempts
  BY <1>1, FaucetParams DEF CallMoves, CallsAndHandlers
<1>6. calls'[c].at \in {"free", "check"} =>
        calls[c].at \in {"free", "check"} /\ (calls'[c].attempt = 0 \/ calls'[c].attempt = calls[c].attempt)
  BY <1>1 DEF CallMoves
<1>7. calls'[c].at \in {"free", "check"} =>
        calls'[c].attempt = 0 /\ \A k \in Attempts : handlers'[<<c, k>>] = "none"
  BY <1>3, <1>6 DEF CallsAndHandlers
<1>8. 2 \in Attempts /\ calls'[c].attempt # 2 => handlers'[<<c, 2>>] = "none"
  <2>1. calls'[c].attempt # 2 => calls[c].attempt # 2 \/ (calls[c].at \in {"free", "check"})
    BY <1>1 DEF CallMoves
  <2>2. 2 \in Attempts /\ calls'[c].attempt # 2 => handlers[<<c, 2>>] = "none"
    BY <2>1 DEF CallsAndHandlers
  <2> QED BY <1>3, <2>2
<1> QED BY <1>4, <1>5, <1>7, <1>8

LEMMA TimesBehindStep ==
    ASSUME FaucetTypeOK, FaucetTypeOK', TimesBehind, Moves
    PROVE  TimesBehind'
<1>1. now <= now'
  BY DEF Moves
<1>2. ASSUME NEW a \in Accounts
      PROVE  lastSend'[a] <= now'
  <2>1. lastSend[a] <= now
    BY DEF TimesBehind
  <2>2. lastSend'[a] \in {lastSend[a], now, Never}
    BY DEF Moves, SendsMove, FaucetTypeOK
  <2>3. PICK n \in Nat, send \in Int : n = now /\ send = lastSend[a]
    <3>1. lastSend[a] \in Never .. MaxTime /\ now \in 0 .. MaxTime
      BY DEF FaucetTypeOK
    <3> QED BY <3>1, FaucetParams DEF Never
  <2>4. Never \in Int /\ Never <= n
    BY FaucetParams DEF Never
  <2>5. lastSend'[a] \in {send, n, Never} /\ n <= now' /\ send <= n
    BY <1>1, <2>1, <2>2, <2>3
  <2>6. now' \in Int
    BY DEF FaucetTypeOK
  <2> QED BY <2>4, <2>5, <2>6
<1> QED BY <1>2 DEF TimesBehind

\* What a begun call keeps.
LEMMA CallKept ==
    ASSUME Moves, NEW c \in Calls, calls[c].at # "free"
    PROVE  calls'[c].at # "free" /\ calls'[c].for = calls[c].for /\ Account(c)' = Account(c)
<1>1. CallMoves(c)
  BY DEF Moves
<1>2. calls'[c].at # "free" /\ calls'[c].for = calls[c].for
  BY <1>1 DEF CallMoves
<1> QED BY <1>2 DEF Account

LEMMA EndKept ==
    ASSUME Moves, NEW h \in Handlers, handlers[h] \in {"record", "paid", "failed", "broken"}
    PROVE  handlers'[h] \in {"record", "paid", "failed", "broken"} /\ (handlers[h] = "paid" => handlers'[h] = "paid")
BY DEF Moves, HandlerMoves

LEMMA PaymentsGrow ==
    ASSUME Moves
    PROVE  /\ payments \subseteq payments'
           /\ \A p \in payments' \ payments :
                \E h \in Handlers : /\ handlers[h] = "send" /\ handlers'[h] \in {"record", "paid", "failed"}
                                    /\ p.by = h /\ p.account = Account(h[1]) /\ p.at = now
BY DEF Moves, PaymentsMove

LEMMA PaymentTyped ==
    ASSUME FaucetTypeOK, NEW p \in payments
    PROVE  /\ p.by \in Handlers /\ p.by[1] \in Calls /\ p.by[2] \in Attempts
           /\ p.account \in Accounts /\ p.at \in Nat
<1>1. p \in [by: Handlers, account: Accounts, at: 0 .. MaxTime]
  BY DEF FaucetTypeOK
<1>2. p.by \in Handlers /\ p.account \in Accounts /\ p.at \in 0 .. MaxTime
  BY <1>1
<1>3. p.at \in Nat
  BY <1>2, FaucetParams
<1> QED BY <1>2, <1>3, HandlerParts

LEMMA PaymentsAreOwnStep ==
    ASSUME FaucetTypeOK, FaucetTypeOK', CallsAndHandlers, PaymentsAreOwn, Moves
    PROVE  PaymentsAreOwn'
<1>1. now \in Nat /\ now' \in Nat /\ now <= now'
  BY FaucetParams DEF FaucetTypeOK, Moves
<1>2. ASSUME NEW p \in payments'
      PROVE  handlers'[p.by] \in {"record", "paid", "failed", "broken"} /\ p.account = Account(p.by[1])' /\ p.at <= now'
  <2>1. CASE p \in payments
    <3>1. handlers[p.by] \in {"record", "paid", "failed", "broken"} /\ p.account = Account(p.by[1]) /\ p.at <= now
      BY <2>1 DEF PaymentsAreOwn
    <3>2. p.by \in Handlers /\ p.by[1] \in Calls /\ p.at \in Nat
      BY <2>1, PaymentTyped
    <3>3. calls[p.by[1]].at # "free"
      BY <3>1, <3>2, HandlerBegun
    <3>4. handlers'[p.by] \in {"record", "paid", "failed", "broken"} /\ Account(p.by[1])' = Account(p.by[1])
      BY <3>1, <3>2, <3>3, EndKept, CallKept
    <3>5. p.at <= now'
      BY <1>1, <3>1, <3>2
    <3> QED BY <3>1, <3>4, <3>5
  <2>2. CASE p \notin payments
    <3>1. PICK h \in Handlers : /\ handlers[h] = "send" /\ handlers'[h] \in {"record", "paid", "failed"}
                                /\ p.by = h /\ p.account = Account(h[1]) /\ p.at = now
      BY <2>2, PaymentsGrow
    <3>2. calls[h[1]].at # "free" /\ h[1] \in Calls
      BY <3>1, HandlerBegun, HandlerParts
    <3>3. Account(h[1])' = Account(h[1])
      BY <3>2, CallKept
    <3> QED BY <1>1, <3>1, <3>3
  <2> QED BY <2>1, <2>2
<1> QED BY <1>2 DEF PaymentsAreOwn

LEMMA WhoWasPaidStep ==
    ASSUME FaucetTypeOK, CallsAndHandlers, PaymentsAreOwn, WhoWasPaid, Moves
    PROVE  WhoWasPaid'
<1>1. payments \subseteq payments' /\ \A a : Paid(a) => Paid(a)'
  BY PaymentsGrow DEF Paid
<1>2. ASSUME NEW c \in Calls, NEW k \in Attempts, handlers[<<c, k>>] \in {"record", "paid"}
      PROVE  Paid(Account(c))
  <2>1. PICK p \in payments : p.by = <<c, k>>
    BY <1>2 DEF WhoWasPaid, Handlers
  <2>2. p.account = Account(c)
    BY <2>1 DEF PaymentsAreOwn
  <2> QED BY <2>2 DEF Paid
<1>3. ASSUME NEW h \in Handlers, handlers'[h] \in {"record", "paid"}
      PROVE  \E p \in payments' : p.by = h
  <2>1. HandlerMoves(h)
    BY DEF Moves
  <2>2. CASE handlers[h] \in {"record", "paid"}
    BY <1>1, <2>2 DEF WhoWasPaid
  <2>3. CASE [by |-> h, account |-> Account(h[1]), at |-> now] \in payments'
    BY <2>3
  <2> QED BY <1>3, <2>1, <2>2, <2>3 DEF HandlerMoves
<1>4. \A a \in Accounts : OnCooldown(a) => Paid(a)
  BY DEF WhoWasPaid, OnCooldown
<1>6. ASSUME NEW h \in Handlers, handlers'[h] = "limited"
      PROVE  Paid(Account(h[1]))'
  <2>1. HandlerMoves(h)
    BY DEF Moves
  <2>2. handlers[h] # "none" /\ (handlers[h] = "limited" \/ OnCooldown(Account(h[1])))
    BY <1>6, <2>1 DEF HandlerMoves
  <2>3. h[1] \in Calls /\ calls[h[1]].at # "free" /\ Account(h[1]) \in Accounts
    BY <2>2, HandlerBegun, HandlerParts
  <2>4. Paid(Account(h[1]))
    BY <1>4, <2>2, <2>3 DEF WhoWasPaid
  <2>5. Account(h[1])' = Account(h[1])
    BY <2>3, CallKept
  <2>6. PICK p \in payments : p.account = Account(h[1])
    BY <2>4 DEF Paid
  <2>7. p \in payments' /\ p.account = Account(h[1])'
    BY <1>1, <2>5, <2>6
  <2> QED BY <2>7 DEF Paid
<1>7. ASSUME NEW a \in Accounts, lastSend'[a] # Never
      PROVE  Paid(a)'
  <2>1. CASE lastSend[a] # Never
    BY <1>1, <2>1 DEF WhoWasPaid
  <2>2. CASE \E h \in Handlers : handlers[h] = "record" /\ a = Account(h[1])
    BY <1>1, <1>2, <2>2, HandlerParts
  <2>3. \/ lastSend'[a] = lastSend[a] \/ lastSend'[a] = Never
        \/ \E h \in Handlers : handlers[h] = "record" /\ a = Account(h[1])
    BY DEF Moves, SendsMove, FaucetTypeOK
  <2> QED BY <1>7, <2>1, <2>2, <2>3
<1>8. ASSUME NEW c \in Calls, calls'[c].at = "answered", calls'[c].status \in {200, 429}
      PROVE  Paid(Account(c))' \/ RefusedByLimiter(c)'
  <2>1. CallMoves(c)
    BY DEF Moves
  <2>2. calls[c].at # "free"
    BY <1>8, <2>1 DEF CallMoves
  <2>3. Account(c) \in Accounts /\ Account(c)' = Account(c)
    BY <2>2, AccountIn, CallKept
  <2>4. CASE calls[c].at = "answered"
    <3>1. calls'[c] = calls[c]
      BY <2>1, <2>4 DEF CallMoves
    <3>2. Paid(Account(c)) \/ RefusedByLimiter(c)
      BY <1>8, <2>4, <3>1 DEF WhoWasPaid
    <3> QED BY <1>1, <2>3, <3>1, <3>2 DEF Paid, RefusedByLimiter
  <2>5. CASE calls[c].at = "check"
    <3>1. calls[c].attempt = 0 /\ calls'[c].attempt = calls[c].attempt /\ calls'[c].status = 429
      BY <1>8, <2>1, <2>5 DEF CallMoves, CallsAndHandlers
    <3> QED BY <1>8, <3>1 DEF RefusedByLimiter
  <2>6. CASE calls[c].at = "wait"
    <3>1. PICK h \in Handlers : h = <<c, calls[c].attempt>> /\ h[1] = c
      <4>1. PICK k \in Attempts : k = calls[c].attempt
        BY <2>6 DEF CallsAndHandlers
      <4>2. <<c, k>> \in Handlers /\ <<c, k>>[1] = c
        BY DEF Handlers
      <4> QED BY <4>1, <4>2
    <3>2. handlers[h] \in {"paid", "limited"}
      BY <1>8, <2>1, <2>6, <3>1 DEF CallMoves
    <3>3. Paid(Account(c))
      <4>1. CASE handlers[h] = "limited"
        BY <3>1, <4>1 DEF WhoWasPaid
      <4>2. CASE handlers[h] = "paid"
        BY <1>2, <2>6, <3>1, <4>2 DEF CallsAndHandlers
      <4> QED BY <3>2, <4>1, <4>2
    <3> QED BY <1>1, <2>3, <3>3 DEF Paid
  <2> QED BY <2>2, <2>4, <2>5, <2>6, CallTyped
<1> QED BY <1>3, <1>6, <1>7, <1>8 DEF WhoWasPaid

\* Who has paid, and has nothing left to do, pays no more.
LEMMA PaidKept ==
    ASSUME Moves, NEW h \in Handlers, handlers[h] = "paid"
    PROVE  handlers'[h] = "paid" /\ \A p \in payments' : p.by = h => p \in payments
<1>1. handlers'[h] = "paid"
  BY EndKept
<1>2. \A p \in payments' : p.by = h => p \in payments
  BY PaymentsGrow
<1> QED BY <1>1, <1>2

LEMMA CooldownsKeptStep ==
    ASSUME ServerInv, FaucetTypeOK', Moves
    PROVE  CooldownsKept'
<1> USE DEF ServerInv
<1>1. now \in Nat /\ now' \in Nat /\ now <= now' /\ Cooldown \in Nat
  BY FaucetParams DEF FaucetTypeOK, Moves
<1>2. \A a \in Accounts : lastSend[a] \in Int /\ lastSend[a] <= now
  <2>1. \A a \in Accounts : lastSend[a] \in Never .. MaxTime
    BY DEF FaucetTypeOK
  <2> QED BY <2>1, FaucetParams DEF TimesBehind, Never
<1>3. recorded \subseteq Handlers /\ \A h \in Handlers : seen[h] \subseteq Handlers
  BY DEF FaucetTypeOK
<1>4. ASSUME NEW h \in recorded'
      PROVE  handlers'[h] = "paid" /\ \A p \in payments' : p.by = h => p.at <= lastSend'[p.account]
  <2>1. \A a \in Accounts : lastSend'[a] = lastSend[a] \/ lastSend'[a] = now
    BY <1>4 DEF Moves, SendsMove, FaucetTypeOK
  <2>2. CASE h \in recorded
    <3>1. h \in Handlers /\ handlers[h] = "paid"
      BY <1>3, <2>2 DEF CooldownsKept
    <3>2. handlers'[h] = "paid" /\ \A p \in payments' : p.by = h => p \in payments
      BY <3>1, PaidKept
    <3>3. ASSUME NEW p \in payments, p.by = h
          PROVE  p.at <= lastSend'[p.account]
      <4>1. p.at <= lastSend[p.account]
        BY <2>2, <3>3 DEF CooldownsKept
      <4>2. p.account \in Accounts /\ p.at \in Nat
        BY PaymentTyped
      <4>3. p.at <= now
        BY DEF PaymentsAreOwn
      <4> QED BY <2>1, <4>1, <4>2, <4>3
    <3> QED BY <3>2, <3>3
  <2>3. CASE h \notin recorded
    <3>1. /\ h \in Handlers /\ handlers[h] = "record" /\ handlers'[h] = "paid"
          /\ lastSend' = [lastSend EXCEPT ![Account(h[1])] = now]
      BY <1>4, <2>3 DEF Moves, SendsMove
    <3>2. ASSUME NEW p \in payments', p.by = h
          PROVE  p.at <= lastSend'[p.account]
      <4>1. p \in payments
        BY <3>1, <3>2, PaymentsGrow
      <4>2. p.account = Account(h[1]) /\ p.at <= now
        BY <3>2, <4>1 DEF PaymentsAreOwn
      <4>3. p.account \in Accounts
        BY <4>1, PaymentTyped
      <4>4. lastSend'[p.account] = now
        BY <3>1, <4>2, <4>3 DEF FaucetTypeOK
      <4> QED BY <4>2, <4>4
    <3> QED BY <3>1, <3>2
  <2> QED BY <2>2, <2>3
<1>5. ASSUME NEW h \in Handlers, NEW g \in seen'[h]
      PROVE  (/\ handlers[g] = "paid" /\ handlers[h] \notin {"none", "check"}
              /\ \A p \in payments :
                   p.by = g /\ p.account = Account(h[1])
                   => /\ p.at + Cooldown <= now
                      /\ \A q \in payments : q.by = h => p.at + Cooldown <= q.at)'
  <2>1. SeenMoves(h) /\ HandlerMoves(h) /\ h[1] \in Calls
    BY HandlerParts DEF Moves
  <2>2. CASE g \in seen[h]
    <3>1. g \in Handlers /\ handlers[g] = "paid" /\ handlers[h] \notin {"none", "check"}
      BY <1>3, <2>2 DEF CooldownsKept
    <3>2. handlers'[g] = "paid" /\ \A p \in payments' : p.by = g => p \in payments
      BY <3>1, PaidKept
    <3>3. handlers'[h] \notin {"none", "check"}
      BY <2>1, <3>1 DEF HandlerMoves
    <3>4. Account(h[1])' = Account(h[1])
      <4>1. calls[h[1]].at # "free"
        BY <3>1, HandlerBegun
      <4> QED BY <2>1, <4>1, CallKept
    <3>5. ASSUME NEW p \in payments, p.by = g, p.account = Account(h[1])
          PROVE  p.at + Cooldown <= now' /\ \A q \in payments' : q.by = h => p.at + Cooldown <= q.at
      <4>1. p.at + Cooldown <= now /\ \A q \in payments : q.by = h => p.at + Cooldown <= q.at
        BY <2>2, <3>5 DEF CooldownsKept
      <4>2. p.at \in Nat
        BY PaymentTyped
      <4>3. p.at + Cooldown <= now'
        BY <1>1, <4>1, <4>2
      <4>4. \A q \in payments' : q \in payments \/ q.at = now
        BY PaymentsGrow
      <4> QED BY <4>1, <4>3, <4>4
    <3> QED BY <3>2, <3>3, <3>4, <3>5
  <2>3. CASE g \notin seen[h]
    <3>1. /\ handlers[h] = "check" /\ handlers'[h] = "lock"
          /\ ~OnCooldown(Account(h[1])) /\ g \in recorded
      BY <2>1, <2>3 DEF SeenMoves
    <3>2. g \in Handlers /\ handlers[g] = "paid"
      BY <1>3, <3>1 DEF CooldownsKept
    <3>3. handlers'[g] = "paid" /\ \A p \in payments' : p.by = g => p \in payments
      BY <3>2, PaidKept
    <3>4. Account(h[1])' = Account(h[1])
      <4>1. calls[h[1]].at # "free"
        BY <3>1, HandlerBegun
      <4> QED BY <2>1, <4>1, CallKept
    <3>5. ASSUME NEW q \in payments'
          PROVE  q.by # h
      <4>1. CASE q \in payments
        BY <3>1, <4>1 DEF PaymentsAreOwn
      <4>2. CASE q \notin payments
        <5>1. PICK f \in Handlers : handlers[f] = "send" /\ q.by = f
          BY <4>2, PaymentsGrow
        <5> QED BY <3>1, <5>1
      <4> QED BY <4>1, <4>2
    <3>6. ASSUME NEW p \in payments, p.by = g, p.account = Account(h[1])
          PROVE  p.at + Cooldown <= now'
      <4>1. p.at \in Nat /\ p.account \in Accounts
        BY PaymentTyped
      <4>2. PICK last \in Int : last = lastSend[p.account]
        BY <1>2, <4>1
      <4>3. p.at <= last
        BY <3>1, <3>6, <4>2 DEF CooldownsKept
      <4>4. last # Never
        BY <4>1, <4>3, FaucetParams DEF Never
      <4>5. ~(now - last < Cooldown)
        BY <3>1, <3>6, <4>2, <4>4 DEF OnCooldown
      <4> QED BY <1>1, <4>1, <4>3, <4>5
    <3> QED BY <3>1, <3>3, <3>4, <3>5, <3>6
  <2> QED BY <2>2, <2>3
<1> QED BY <1>4, <1>5 DEF CooldownsKept

LEMMA ServerInvStep ==
    ASSUME ServerInv, FaucetTypeOK', Moves
    PROVE  ServerInv'
<1>1. TimesBehind'
  BY TimesBehindStep DEF ServerInv
<1>2. CallsAndHandlers'
  BY CallsAndHandlersStep DEF ServerInv
<1>3. PaymentsAreOwn'
  BY PaymentsAreOwnStep DEF ServerInv
<1>4. WhoWasPaid'
  BY WhoWasPaidStep DEF ServerInv
<1>5. CooldownsKept'
  BY CooldownsKeptStep
<1> QED BY <1>1, <1>2, <1>3, <1>4, <1>5 DEF ServerInv

LEMMA ServerInvInit == FaucetInit => ServerInv
<1> SUFFICES ASSUME FaucetInit PROVE ServerInv
  OBVIOUS
<1>1. Unused \in CallRecord /\ Unused.at = "free" /\ Unused.status = 0 /\ Unused.attempt = 0
  BY FaucetParams DEF Unused, Unanswered, CallRecord
<1>2. /\ now = 0 /\ lastSend = [a \in Accounts |-> Never]
      /\ txMu = NoHandler /\ calls = [c \in Calls |-> Unused] /\ handlers = [h \in Handlers |-> "none"]
      /\ payments = {} /\ seen = [h \in Handlers |-> {}] /\ recorded = {} /\ serverFaults = 0
  BY DEF FaucetInit
<1>3. Never \in Never .. MaxTime /\ Never <= 0 /\ 0 \in 0 .. MaxTime /\ 0 \in 0 .. MaxFaults
  BY FaucetParams DEF Never
<1>4. CallsTyped /\ HandlersTyped
  BY <1>1, <1>2 DEF CallsTyped, HandlersTyped
<1>5. RestTyped
  BY <1>2, <1>3 DEF RestTyped
<1>6. FaucetTypeOK
  BY <1>4, <1>5, TypeParts
<1>7. TimesBehind
  BY <1>2, <1>3 DEF TimesBehind
<1>8. \A c \in Calls : calls[c].at = "free" /\ calls[c].status = 0 /\ calls[c].attempt = 0
  BY <1>1, <1>2
<1>9. \A h \in Handlers : handlers[h] = "none"
  BY <1>2
<1>10. CallsAndHandlers
  BY <1>8, <1>9 DEF CallsAndHandlers, Handlers
<1>11. PaymentsAreOwn /\ CooldownsKept
  BY <1>2, <1>8 DEF PaymentsAreOwn, CooldownsKept
<1>12. WhoWasPaid
  BY <1>2, <1>8, <1>9 DEF WhoWasPaid
<1> QED BY <1>6, <1>7, <1>10, <1>11, <1>12 DEF ServerInv

\* The payments of two handlers of which the later knew of the earlier one's cooldown.
LEMMA OverlapOfInv == ServerInv => CooldownDripsOverlap
<1> SUFFICES ASSUME ServerInv, NEW p \in payments, NEW q \in payments,
                    p.account = q.account, q.at < p.at + Cooldown, p.by \in seen[q.by]
             PROVE  FALSE
  BY DEF CooldownDripsOverlap
<1>1. q.by \in Handlers /\ p.at \in Nat /\ q.at \in Nat
  BY PaymentTyped DEF ServerInv
<1>2. p.account = Account(q.by[1])
  BY DEF ServerInv, PaymentsAreOwn
<1>3. p.at + Cooldown <= q.at
  BY <1>1, <1>2 DEF ServerInv, CooldownsKept
<1> QED BY <1>1, <1>3, FaucetParams

------------------------------------------------------------------------------
(* All of the servers' steps together. *)
LEMMA ServerStepMoves ==
    ASSUME ServerInv, ServerStep
    PROVE  FaucetTypeOK' /\ Moves
<1> USE DEF ServerInv
<1>1. ASSUME NEW c \in Calls,
             \/ LimiterRefuses(c) \/ CheckLimit(c) \/ TakeAnswer(c) \/ AnswerLost(c)
      PROVE  FaucetTypeOK' /\ Moves
  BY <1>1, LimiterRefusesMoves, CheckLimitMoves, TakeAnswerMoves, AnswerLostMoves
<1>2. ASSUME NEW h \in Handlers,
             \/ DaemonCheck(h) \/ DaemonLock(h) \/ DaemonSend(h) \/ DaemonSendFails(h)
             \/ DaemonRecord(h)
      PROVE  FaucetTypeOK' /\ Moves
  BY <1>2, DaemonCheckMoves, DaemonLockMoves, DaemonSendMoves, DaemonSendFailsMoves, DaemonRecordMoves
<1>3. CASE DaemonRestart
  BY <1>3, DaemonRestartMoves
<1>4. CASE SecondPasses
  BY <1>4, SecondPassesMoves
<1> QED BY <1>1, <1>2, <1>3, <1>4 DEF ServerStep

------------------------------------------------------------------------------
(* The page. *)

PageTyped ==
    /\ target \in Addresses \cup {NoAddress}
    /\ loading \in BOOLEAN
    /\ entry \in [Addresses -> 0 .. MaxTime + Day]
    /\ shown \in 0 .. Day
    /\ request \in [call: Calls \cup {NoHandler}, for: Addresses \cup {NoAddress}]

\* No entry lasts longer than the day the API answers at most.
EntryWithinDay == \A x \in Addresses : entry[x] <= now + Day

\* The call the page awaits is one it made, for the address it remembers.
PageCall ==
    loading => /\ request.call \in Calls /\ request.for \in Addresses
               /\ calls[request.call].at # "free" /\ calls[request.call].for = request.for

PageInv == PageTyped /\ EntryWithinDay /\ PageCall /\ EntryIsEarned /\ ButtonBlockedByEntry

LEMMA PageTypeParts == PageTypeOK <=> FaucetTypeOK /\ WalletTypeOK /\ PageTyped
BY DEF PageTypeOK, PageTyped

LEMMA Clock ==
    ASSUME FaucetTypeOK, FaucetTypeOK', Moves
    PROVE  now \in Nat /\ now' \in Nat /\ now <= now' /\ now <= MaxTime /\ Day \in Nat \ {0} /\ MaxTime \in Nat
BY FaucetParams DEF FaucetTypeOK, Moves

\* A refusal of the limiter stays what it was.
LEMMA RefusalKept ==
    ASSUME Moves, NEW c \in Calls, RefusedByLimiter(c)
    PROVE  RefusedByLimiter(c)' /\ calls'[c].for = calls[c].for
<1>1. calls'[c] = calls[c]
  BY DEF Moves, CallMoves, RefusedByLimiter
<1> QED BY <1>1 DEF RefusedByLimiter

\* Entries are kept or removed, whatever the servers do.
LEMMA EntriesKept ==
    ASSUME FaucetTypeOK, FaucetTypeOK', Moves, PageTyped, EntryWithinDay, EntryIsEarned,
           entry' = entry \/ \E x \in Addresses : entry' = [entry EXCEPT ![x] = 0]
    PROVE  entry' \in [Addresses -> 0 .. MaxTime + Day] /\ EntryWithinDay' /\ EntryIsEarned'
<1>1. \A x \in Addresses : entry'[x] = entry[x] \/ entry'[x] = 0
  BY DEF PageTyped
<1>2. entry' \in [Addresses -> 0 .. MaxTime + Day]
  <2>1. 0 \in 0 .. MaxTime + Day
    BY FaucetParams
  <2> QED BY <2>1 DEF PageTyped
<1>3. EntryWithinDay'
  <2> SUFFICES ASSUME NEW x \in Addresses PROVE entry'[x] <= now' + Day
    BY DEF EntryWithinDay
  <2>1. PICK e \in Nat : e = entry[x] /\ e <= now + Day
    BY FaucetParams DEF PageTyped, EntryWithinDay
  <2>2. PICK n \in Nat, m \in Nat, d \in Nat : n = now /\ m = now' /\ n <= m /\ d = Day
    BY Clock
  <2>3. e <= n + d
    BY <2>1, <2>2
  <2>4. n <= m
    BY <2>2
  <2>5. e <= m + d /\ 0 <= m + d
    BY <2>3, <2>4
  <2> QED BY <1>1, <2>1, <2>2, <2>5
<1>4. EntryIsEarned'
  BY <1>1, PaymentsGrow, RefusalKept DEF EntryIsEarned
<1> QED BY <1>2, <1>3, <1>4

LEMMA PageCallKept ==
    ASSUME Moves, PageCall, UNCHANGED <<loading, request>> \/ loading' = FALSE
    PROVE  PageCall'
BY CallKept DEF PageCall

\* The button, when neither the field nor the countdown changes.
LEMMA ButtonKept ==
    ASSUME FaucetTypeOK, FaucetTypeOK', Moves, PageTyped, ButtonBlockedByEntry,
           UNCHANGED <<target, entry, shown>>
    PROVE  ButtonBlockedByEntry'
<1> SUFFICES ASSUME target # NoAddress, entry[target] > now' PROVE shown > 0
  BY DEF ButtonBlockedByEntry
<1>1. PICK n \in Nat, m \in Nat : n = now /\ m = now' /\ n <= m
  BY Clock
<1>2. PICK e \in Nat : e = entry[target]
  BY FaucetParams DEF PageTyped
<1>3. e > n
  BY <1>1, <1>2
<1> QED BY <1>1, <1>2, <1>3 DEF ButtonBlockedByEntry

\* The steps that leave the page as it is, but perhaps end its request.
LEMMA PageKept ==
    ASSUME FaucetTypeOK, FaucetTypeOK', Moves, PageInv, UNCHANGED <<target, entry, shown>>,
           UNCHANGED <<loading, request>> \/ (loading' = FALSE /\ request' = NoRequest)
    PROVE  PageInv'
<1> USE DEF PageInv
<1>1. request' \in [call: Calls \cup {NoHandler}, for: Addresses \cup {NoAddress}] /\ loading' \in BOOLEAN
  <2>1. NoRequest \in [call: Calls \cup {NoHandler}, for: Addresses \cup {NoAddress}]
    BY DEF NoRequest
  <2>2. loading' \in BOOLEAN
    BY DEF PageTyped
  <2>3. request' = request \/ request' = NoRequest
    OBVIOUS
  <2> QED BY <2>1, <2>2, <2>3 DEF PageTyped
<1>2. PageTyped'
  BY <1>1 DEF PageTyped
<1> QED BY <1>2, EntriesKept, PageCallKept, ButtonKept

LEMMA RemainingIn ==
    ASSUME FaucetTypeOK, PageTyped, EntryWithinDay, NEW x \in Addresses
    PROVE  Remaining(x) \in 0 .. Day /\ (entry[x] > now => Remaining(x) > 0)
<1>1. PICK n \in Nat, e \in Nat : n = now /\ e = entry[x] /\ e <= n + Day
  BY FaucetParams DEF FaucetTypeOK, PageTyped, EntryWithinDay
<1>2. Remaining(x) = IF e > n THEN e - n ELSE 0
  BY <1>1 DEF Remaining
<1> QED BY <1>1, <1>2, FaucetParams

\* The countdown of an address is shown, and its entry removed if it has ended.
LEMMA CountdownShown ==
    ASSUME FaucetTypeOK, FaucetTypeOK', Moves, PageInv, NEW x \in Addresses,
           target' = x, shown' = Remaining(x), now' = now,
           entry' = IF Remaining(x) > 0 THEN entry ELSE [entry EXCEPT ![x] = 0],
           UNCHANGED <<loading, request>>
    PROVE  PageInv'
<1> USE DEF PageInv
<1>1. Remaining(x) \in 0 .. Day /\ (entry[x] > now => Remaining(x) > 0)
  BY RemainingIn
<1>2. entry' \in [Addresses -> 0 .. MaxTime + Day] /\ EntryWithinDay' /\ EntryIsEarned'
  BY EntriesKept
<1>3. PageTyped'
  BY <1>1, <1>2 DEF PageTyped
<1>4. ButtonBlockedByEntry'
  <2>1. now \in Nat
    BY Clock
  <2>2. CASE Remaining(x) > 0
    BY <2>2 DEF ButtonBlockedByEntry
  <2>3. CASE ~(Remaining(x) > 0)
    <3>1. entry'[x] = 0
      BY <2>3 DEF PageTyped
    <3> QED BY <2>1, <3>1 DEF ButtonBlockedByEntry
  <2> QED BY <2>2, <2>3
<1> QED BY <1>2, <1>3, <1>4, PageCallKept

LEMMA SetTargetHolds ==
    ASSUME FaucetTypeOK, FaucetTypeOK', Moves, PageInv, NEW x \in Addresses \cup {NoAddress},
           SetTarget(x), now' = now, UNCHANGED <<loading, request>>
    PROVE  PageInv'
<1>1. CASE x = NoAddress
  <2>1. target' = NoAddress /\ UNCHANGED <<shown, entry>>
    BY <1>1 DEF SetTarget
  <2>2. PageTyped' /\ ButtonBlockedByEntry'
    BY <2>1 DEF PageInv, PageTyped, ButtonBlockedByEntry
  <2> QED BY <2>1, <2>2, EntriesKept, PageCallKept DEF PageInv
<1>2. CASE x # NoAddress /\ x = target
  BY <1>2, PageKept DEF SetTarget
<1>3. CASE x # NoAddress /\ x # target
  BY <1>3, CountdownShown DEF SetTarget
<1> QED BY <1>1, <1>2, <1>3

\* The request's answer: an entry for the address asked for, paid or refused.
LEMMA AnswerReceivedHolds ==
    ASSUME ServerInv, FaucetTypeOK', Moves, PageInv, AnswerReceived, now' = now
    PROVE  PageInv'
<1> USE DEF PageInv
<1> DEFINE answer == calls[request.call]
           until == CooldownOf(answer)
<1>1. /\ loading /\ answer.at = "answered" /\ loading' = FALSE /\ request' = NoRequest
      /\ UNCHANGED target
  BY DEF AnswerReceived
<1>2. request.call \in Calls /\ request.for \in Addresses /\ answer.for = request.for
  BY <1>1 DEF PageCall
<1>3. until \in 1 .. Day
  <2>1. answer.seconds \in {0, Day}
    BY <1>2, CallTyped DEF ServerInv
  <2> QED BY <2>1, FaucetParams DEF CooldownOf
<1>4. NoRequest \in [call: Calls \cup {NoHandler}, for: Addresses \cup {NoAddress}]
  BY DEF NoRequest
<1>5. PICK n \in Nat, m \in Nat, d \in Nat : n = now /\ m = MaxTime /\ d = Day /\ n <= m
  BY Clock DEF ServerInv
<1>6. CASE answer.status \in {200, 429}
  <2>1. entry' = [entry EXCEPT ![request.for] = now + until] /\ shown' = until
    <3>1. EntryFor # NoAddress
      BY <1>2, FaucetParams DEF EntryFor
    <3> QED BY <1>6, <3>1 DEF AnswerReceived, EntryFor
  <2> HIDE DEF until
  <2>2. PICK u \in Nat : u = until /\ u > 0 /\ u <= d
    BY <1>3, <1>5
  <2>3. now + until = n + u /\ n + u \in 0 .. MaxTime + Day /\ n + u <= n + d
    BY <1>5, <2>2
  <2>4. entry' \in [Addresses -> 0 .. MaxTime + Day]
    BY <2>1, <2>3 DEF PageTyped
  <2>5. shown' \in 0 .. Day
    BY <1>5, <2>1, <2>2
  <2>6. PageTyped'
    BY <1>1, <1>4, <2>4, <2>5 DEF PageTyped
  <2>7. \A x \in Addresses : IF x = request.for THEN entry'[x] = n + u ELSE entry'[x] = entry[x]
    BY <2>1, <2>3 DEF PageTyped
  <2>8. EntryWithinDay'
    <3> SUFFICES ASSUME NEW x \in Addresses PROVE entry'[x] <= now' + Day
      BY DEF EntryWithinDay
    <3>1. entry[x] <= now + Day
      BY DEF EntryWithinDay
    <3>2. n + u <= now' + Day
      BY <1>5, <2>3
    <3> QED BY <2>7, <3>1, <3>2
  <2>9. EntryIsEarned'
    <3>1. Paid(Account(request.call)) \/ RefusedByLimiter(request.call)
      BY <1>1, <1>2, <1>6 DEF ServerInv, WhoWasPaid
    <3>2. \/ \E p \in payments : p.account = AccountOf[request.for]
          \/ RefusedByLimiter(request.call) /\ calls[request.call].for = request.for
      BY <1>2, <3>1 DEF Paid, Account
    <3> QED BY <1>2, <2>7, <3>2, PaymentsGrow, RefusalKept DEF EntryIsEarned
  <2>10. ButtonBlockedByEntry'
    BY <2>1, <2>2 DEF ButtonBlockedByEntry
  <2> QED BY <1>1, <2>6, <2>8, <2>9, <2>10, PageCallKept
<1>7. CASE answer.status \notin {200, 429}
  <2>1. UNCHANGED <<entry, shown>>
    BY <1>7 DEF AnswerReceived
  <2> QED BY <1>1, <2>1, PageKept DEF ServerInv
<1> QED BY <1>6, <1>7

LEMMA RequestTokensHolds ==
    ASSUME FaucetTypeOK, FaucetTypeOK', Moves, PageInv, NEW c \in Calls, RequestTokens(c)
    PROVE  PageInv'
<1> USE DEF PageInv
<1>1. /\ Post(c, target) /\ loading' = TRUE /\ request' = [call |-> c, for |-> target]
      /\ UNCHANGED <<target, entry, shown>> /\ target \in Addresses
  BY DEF RequestTokens, PageTyped
<1>2. request' \in [call: Calls \cup {NoHandler}, for: Addresses \cup {NoAddress}]
  BY <1>1
<1>3. PageTyped'
  BY <1>1, <1>2 DEF PageTyped
<1>4. calls'[c].at = "check" /\ calls'[c].for = target
  BY <1>1, PostSets
<1>5. PageCall'
  BY <1>1, <1>4 DEF PageCall
<1> QED BY <1>1, <1>3, <1>5, EntriesKept, ButtonKept

LEMMA ReloadHolds ==
    ASSUME FaucetTypeOK, FaucetTypeOK', Moves, PageInv, Reload
    PROVE  PageInv'
<1> USE DEF PageInv
<1>1. target' = NoAddress /\ loading' = FALSE /\ shown' = 0 /\ request' = NoRequest /\ UNCHANGED entry
  BY DEF Reload
<1>2. NoRequest \in [call: Calls \cup {NoHandler}, for: Addresses \cup {NoAddress}] /\ 0 \in 0 .. Day
  BY FaucetParams DEF NoRequest
<1>3. PageTyped' /\ ButtonBlockedByEntry'
  BY <1>1, <1>2 DEF PageTyped, ButtonBlockedByEntry
<1> QED BY <1>1, <1>3, EntriesKept, PageCallKept

------------------------------------------------------------------------------
(* The page between the store and the servers. *)

FaucetInv == ServerInv /\ WalletTypeOK /\ WalletHolds /\ PageInv

LEMMA FaucetInvInit == Init => FaucetInv
<1> SUFFICES ASSUME Init PROVE FaucetInv
  OBVIOUS
<1>1. ServerInv /\ WalletTypeOK /\ WalletHolds
  BY ServerInvInit, WalletInitHolds DEF Init
<1>2. /\ target = NoAddress /\ loading = FALSE /\ entry = [x \in Addresses |-> 0] /\ shown = 0
      /\ request = NoRequest /\ now = 0
  BY DEF Init, PageInit, FaucetInit
<1>3. /\ 0 \in 0 .. MaxTime + Day /\ 0 \in 0 .. Day /\ 0 <= 0 + Day
      /\ NoRequest \in [call: Calls \cup {NoHandler}, for: Addresses \cup {NoAddress}]
  BY FaucetParams DEF NoRequest
<1>4. PageTyped
  BY <1>2, <1>3 DEF PageTyped
<1>5. EntryWithinDay /\ PageCall /\ EntryIsEarned /\ ButtonBlockedByEntry
  BY <1>2, <1>3 DEF EntryWithinDay, PageCall, EntryIsEarned, ButtonBlockedByEntry
<1> QED BY <1>1, <1>4, <1>5 DEF FaucetInv, PageInv

LEMMA NextMoves ==
    ASSUME FaucetInv, Next \/ UNCHANGED faucetVars
    PROVE  FaucetTypeOK' /\ Moves
<1> USE DEF FaucetInv, ServerInv
<1>1. CASE UNCHANGED serverVars
  BY <1>1, NothingMoves DEF serverVars
<1>2. CASE Requests
  <2>1. PICK c \in Calls : RequestTokens(c) \/ \E x \in Addresses : OthersRequest(c, x)
    BY <1>2 DEF Requests
  <2>2. PICK x \in Addresses : Post(c, x)
    BY <2>1 DEF RequestTokens, OthersRequest, PageInv, PageTyped
  <2> QED BY <2>2, PostMoves
<1>3. CASE RequestBreaks /\ UNCHANGED <<now, lastSend, txMu, calls, handlers, payments, recorded, seen>>
  BY <1>3, NothingMoves DEF RequestBreaks
<1>4. CASE ServerStep
  BY <1>4, ServerStepMoves
<1> QED BY <1>1, <1>2, <1>3, <1>4 DEF Next, UserStep, SystemStep, faucetVars

LEMMA NextHolds ==
    ASSUME FaucetInv, Next \/ UNCHANGED faucetVars
    PROVE  FaucetInv'
<1> USE DEF FaucetInv
<1>1. FaucetTypeOK' /\ Moves /\ FaucetTypeOK
  BY NextMoves DEF ServerInv
<1>2. ServerInv'
  BY <1>1, ServerInvStep
<1>3. WalletStep \/ ReloadStore \/ UNCHANGED walletVars
  BY DEF Next, UserStep, SystemStep, faucetVars, Reload
<1>4. WalletTypeOK' /\ WalletHolds'
  BY <1>3, WalletHoldsStep
<1>5. ASSUME FollowWallet /\ UNCHANGED serverVars
      PROVE  PageInv'
  <2>1. now' = now /\ UNCHANGED <<loading, request>>
    BY <1>5 DEF FollowWallet, serverVars
  <2>2. CASE connected' /\ SetTarget(address')
    <3>1. PICK x \in Addresses : x = address'
      BY <1>4, <2>2, PageParams DEF WalletHolds
    <3>2. SetTarget(x)
      BY <2>2, <3>1
    <3> QED BY <1>1, <2>1, <3>2, SetTargetHolds
  <2>3. CASE UNCHANGED <<target, shown, entry>>
    BY <1>1, <2>1, <2>3, PageKept
  <2> QED BY <1>5, <2>2, <2>3 DEF FollowWallet
<1>6. ASSUME Reload
      PROVE  PageInv'
  BY <1>1, <1>6, ReloadHolds
<1>7. ASSUME PageInput /\ UNCHANGED serverVars
      PROVE  PageInv'
  <2>1. now' = now
    BY <1>7 DEF serverVars
  <2>2. ASSUME NEW x \in Addresses \cup {NoAddress}, TypeAddress(x)
        PROVE  PageInv'
    BY <1>1, <2>1, <2>2, SetTargetHolds DEF TypeAddress
  <2>3. CASE UseConnectedAddress
    <3>1. PICK x \in Addresses : x = address
      BY <2>3, PageParams DEF UseConnectedAddress, WalletHolds
    <3>2. SetTarget(x) /\ UNCHANGED <<loading, request>>
      BY <2>3, <3>1 DEF UseConnectedAddress
    <3> QED BY <1>1, <2>1, <3>2, SetTargetHolds
  <2> QED BY <1>7, <2>2, <2>3 DEF PageInput
<1>8. ASSUME Requests
      PROVE  PageInv'
  <2>1. PICK c \in Calls : RequestTokens(c) \/ \E x \in Addresses : OthersRequest(c, x)
    BY <1>8 DEF Requests
  <2>2. CASE RequestTokens(c)
    BY <1>1, <2>2, RequestTokensHolds
  <2>3. CASE \E x \in Addresses : OthersRequest(c, x)
    <3>1. UNCHANGED <<target, loading, entry, shown, request>>
      BY <2>3 DEF OthersRequest, pageVars
    <3> QED BY <1>1, <3>1, PageKept
  <2> QED BY <2>1, <2>2, <2>3
<1>9. ASSUME CheckCooldown /\ UNCHANGED serverVars
      PROVE  PageInv'
  <2>1. /\ target \in Addresses /\ target' = target /\ shown' = Remaining(target)
        /\ entry' = IF Remaining(target) > 0 THEN entry ELSE [entry EXCEPT ![target] = 0]
        /\ UNCHANGED <<loading, request>> /\ now' = now
    BY <1>9 DEF CheckCooldown, PageInv, PageTyped, serverVars
  <2>2. PICK x \in Addresses : x = target
    BY <2>1
  <2> QED BY <1>1, <2>1, <2>2, CountdownShown
<1>10. ASSUME AnswerReceived /\ UNCHANGED serverVars
       PROVE  PageInv'
  BY <1>1, <1>10, AnswerReceivedHolds DEF serverVars
<1>11. ASSUME RequestBreaks
       PROVE  PageInv'
  BY <1>1, <1>11, PageKept DEF RequestBreaks
<1>12. ASSUME UNCHANGED pageVars
       PROVE  PageInv'
  BY <1>1, <1>12, PageKept DEF pageVars
<1>13. PageInv'
  BY <1>5, <1>6, <1>7, <1>8, <1>9, <1>10, <1>11, <1>12 DEF Next, UserStep, SystemStep, faucetVars
<1> QED BY <1>2, <1>4, <1>13

LEMMA FaucetInvHolds == Spec => []FaucetInv
BY FaucetInvInit, NextHolds, PTL DEF Spec

\* The types of the store, the servers and the page, at every step of theirs.
THEOREM FaucetTyped == Spec => []PageTypeOK
<1>1. FaucetInv => PageTypeOK
  BY PageTypeParts DEF FaucetInv, ServerInv, PageInv
<1> QED BY <1>1, FaucetInvHolds, PTL

\* Two drips within the daemon's cooldown overlap, or the daemon does not remember
\* the earlier one (backend/module/faucet/main.go:116).
THEOREM SecondDripOverlaps == Spec => []CooldownDripsOverlap
<1>1. FaucetInv => CooldownDripsOverlap
  BY OverlapOfInv DEF FaucetInv
<1> QED BY <1>1, FaucetInvHolds, PTL

\* The page blocks an address only after its account was paid, or after the API's
\* limiter refused a request for it (page.tsx:95, :102).
THEOREM BlockedWhenPaidOrRefused == Spec => []EntryIsEarned
<1>1. FaucetInv => EntryIsEarned
  BY DEF FaucetInv, PageInv
<1> QED BY <1>1, FaucetInvHolds, PTL

\* While the entry of the address shown runs, the button is off (page.tsx:37).
THEOREM ButtonStaysOff == Spec => []ButtonBlockedByEntry
<1>1. FaucetInv => ButtonBlockedByEntry
  BY DEF FaucetInv, PageInv
<1> QED BY <1>1, FaucetInvHolds, PTL

\* The address beside a wallet's name is that wallet's (wallet.ts:239).
THEOREM AddressIsWallets == Spec => []AddressOfWallet
<1>1. FaucetInv => AddressOfWallet
  BY DEF FaucetInv, WalletHolds
<1> QED BY <1>1, FaucetInvHolds, PTL
=============================================================================
