------------------------------- MODULE Faucet -------------------------------
(***************************************************************************)
(* The faucet behind the explorer: the handler of the explorer's API       *)
(* (explorer-api/main.go, handleFaucet) with the limiter in front of it,   *)
(* and the daemon that pays (backend/module/faucet/main.go) with its       *)
(* cooldown and its mutex around the transactions.                         *)
(*                                                                         *)
(* The handler's statements about explorer.accounts name last_faucet_drip, *)
(* a column no schema of the repository has                                *)
(* (db/read_schema/000004_explorer.sql:27), so that both of them fail and  *)
(* neither failure is reported: its limit of one drip a day never applies, *)
(* and no drip is ever recorded.                                           *)
(***************************************************************************)
EXTENDS Integers, FiniteSets

CONSTANTS
    Accounts,       \* accounts of the chain
    Addresses,      \* texts that name them: hexadecimal and bech32
    AccountOf,
    Calls,          \* requests to the API
    Attempts,       \* requests a call makes of the daemon: 1, and 2 by fallback
    Day,            \* 24 hours
    Cooldown,       \* cooldownDuration of the daemon
    MaxTime,        \* bounds of the model
    MaxFaults,
    NoHandler, NoAddress

ASSUME FaucetParams ==
    /\ AccountOf \in [Addresses -> Accounts]
    /\ Attempts \in {{1}, {1, 2}}
    /\ Day \in Nat \ {0} /\ Cooldown \in Nat \ {0}
    /\ MaxTime \in Nat /\ MaxFaults \in Nat
    /\ NoAddress \notin Addresses

Handlers == Calls \X Attempts

Never == -Day

VARIABLES
    now,
    lastSend,       \* addressCooldowns of the daemon
    txMu,           \* the handler that holds the mutex
    calls,          \* the API's handlers
    handlers,       \* the daemon's handlers: where each is, or how it ended
    payments,       \* transactions the node took
    recorded,       \* handlers of which the daemon remembers the cooldown
    seen,           \* of a handler that was let through: those it remembered then
    serverFaults

serverVars == <<now, lastSend, txMu, calls, handlers, payments, recorded, seen,
                serverFaults>>

Ended == {"paid", "limited", "failed", "broken"}

CallRecord == [at: {"free", "check", "wait", "answered"},
               for: Addresses \cup {NoAddress},
               attempt: Attempts \cup {0},
               status: {0, 200, 429, 500, 502},
               seconds: {0, Day}]

FaucetTypeOK ==
    /\ now \in 0 .. MaxTime
    /\ lastSend \in [Accounts -> Never .. MaxTime]
    /\ txMu \in Handlers \cup {NoHandler}
    /\ calls \in [Calls -> CallRecord]
    /\ handlers \in [Handlers -> Ended \cup {"none", "check", "lock", "send", "record"}]
    /\ payments \subseteq [by: Handlers, account: Accounts, at: 0 .. MaxTime]
    /\ recorded \subseteq Handlers
    /\ seen \in [Handlers -> SUBSET Handlers]
    /\ serverFaults \in 0 .. MaxFaults

Unanswered(at, x, attempt) ==
    [at |-> at, for |-> x, attempt |-> attempt, status |-> 0, seconds |-> 0]

Unused == Unanswered("free", NoAddress, 0)

FaucetInit ==
    /\ now = 0
    /\ lastSend = [a \in Accounts |-> Never]
    /\ txMu = NoHandler
    /\ calls = [c \in Calls |-> Unused]
    /\ handlers = [h \in Handlers |-> "none"]
    /\ payments = {}
    /\ recorded = {}
    /\ seen = [h \in Handlers |-> {}]
    /\ serverFaults = 0

ServerFault == serverFaults < MaxFaults /\ serverFaults' = serverFaults + 1

Account(c) == AccountOf[calls[c].for]

-----------------------------------------------------------------------------
(* The API's handler. *)
Post(c, x) ==
    /\ calls[c] = Unused
    /\ calls' = [calls EXCEPT ![c] = Unanswered("check", x, 0)]
    /\ UNCHANGED <<now, lastSend, txMu, handlers, payments, recorded, seen,
                   serverFaults>>

Answer(c, status, seconds) ==
    calls' = [calls EXCEPT ![c] = [at |-> "answered", for |-> @.for, attempt |-> @.attempt,
                                   status |-> status, seconds |-> seconds]]

AskDaemon(c, attempt) ==
    /\ calls' = [calls EXCEPT ![c] = Unanswered("wait", @.for, attempt)]
    /\ handlers' = [handlers EXCEPT ![<<c, attempt>>] = "check"]

(* The limiter of the API: this client's requests, of whatever kind, are more
   than ten a second.  No address is looked at, and no seconds are named. *)
LimiterRefuses(c) ==
    /\ calls[c].at = "check"
    /\ Answer(c, 429, 0)
    /\ UNCHANGED <<now, lastSend, txMu, handlers, payments, recorded, seen, serverFaults>>

(* The last drip cannot be read, and there is no limit. *)
CheckLimit(c) ==
    /\ calls[c].at = "check"
    /\ AskDaemon(c, 1)
    /\ UNCHANGED <<now, lastSend, txMu, payments, recorded, seen, serverFaults>>

(* The daemon's answer.  A refusal is passed on with its status, but without
   the seconds it names; a drip names a day, though none is recorded. *)
TakeAnswer(c) ==
    /\ calls[c].at = "wait"
    /\ LET end == handlers[<<c, calls[c].attempt>>]
       IN  \/ end = "paid" /\ Answer(c, 200, Day)
           \/ end = "limited" /\ Answer(c, 429, 0)
           \/ end = "failed" /\ Answer(c, 500, 0)
    /\ UNCHANGED <<now, lastSend, txMu, handlers, payments, recorded, seen,
                   serverFaults>>

(* client.Timeout, or a connection that broke or whose daemon died: the second
   address is tried, and then the call ends, whatever the daemon goes on to do. *)
AnswerLost(c) ==
    /\ calls[c].at = "wait"
    /\ IF handlers[<<c, calls[c].attempt>>] = "broken"
       THEN UNCHANGED serverFaults
       ELSE ServerFault
    /\ IF calls[c].attempt = 1 /\ 2 \in Attempts
       THEN AskDaemon(c, 2)
       ELSE Answer(c, 502, 0) /\ UNCHANGED handlers
    /\ UNCHANGED <<now, lastSend, txMu, payments, recorded, seen>>

-----------------------------------------------------------------------------
(* The daemon's handler. *)
Move(h, to) == handlers' = [handlers EXCEPT ![h] = to]

\* Mutant of OnCooldown: the last second is no longer part of it.
OnCooldownButTheLast(a) == lastSend[a] # Never /\ now - lastSend[a] < Cooldown - 1

OnCooldown(a) == lastSend[a] # Never /\ now - lastSend[a] < Cooldown

(* The cooldown is read before the mutex is taken. *)
DaemonCheck(h) ==
    /\ handlers[h] = "check"
    /\ IF OnCooldown(Account(h[1]))
       THEN Move(h, "limited") /\ UNCHANGED seen
       ELSE Move(h, "lock") /\ seen' = [seen EXCEPT ![h] = recorded]
    /\ UNCHANGED <<now, lastSend, txMu, calls, payments, recorded, serverFaults>>

DaemonLock(h) ==
    /\ handlers[h] = "lock"
    /\ txMu = NoHandler
    /\ txMu' = h
    /\ Move(h, "send")
    /\ UNCHANGED <<now, lastSend, calls, payments, recorded, seen,
                   serverFaults>>

Pay(h) == payments' = payments \cup {[by |-> h, account |-> Account(h[1]), at |-> now]}

(* chaind tx bank send, with its retries.  Of a transaction whose result cannot
   be read the daemon says that it succeeded, and keeps no cooldown. *)
DaemonSend(h) ==
    /\ handlers[h] = "send"
    /\ Pay(h)
    /\ \/ Move(h, "record") /\ UNCHANGED <<txMu, serverFaults>>
       \/ Move(h, "paid") /\ txMu' = NoHandler /\ ServerFault
    /\ UNCHANGED <<now, lastSend, calls, recorded, seen>>

(* The command fails, perhaps after the node took the transaction. *)
DaemonSendFails(h) ==
    /\ handlers[h] = "send"
    /\ ServerFault
    /\ Pay(h) \/ UNCHANGED payments
    /\ Move(h, "failed")
    /\ txMu' = NoHandler
    /\ UNCHANGED <<now, lastSend, calls, recorded, seen>>

DaemonRecord(h) ==
    /\ handlers[h] = "record"
    /\ lastSend' = [lastSend EXCEPT ![Account(h[1])] = now]
    /\ recorded' = recorded \cup {h}
    /\ txMu' = NoHandler
    /\ Move(h, "paid")
    /\ UNCHANGED <<now, calls, payments, seen, serverFaults>>

(* The daemon dies: its handlers' connections break and its cooldowns are gone. *)
DaemonRestart ==
    /\ ServerFault
    /\ lastSend' = [a \in Accounts |-> Never]
    /\ recorded' = {}
    /\ txMu' = NoHandler
    /\ handlers' = [h \in Handlers |->
                      IF handlers[h] \in Ended \cup {"none"} THEN handlers[h] ELSE "broken"]
    /\ UNCHANGED <<now, calls, payments, seen>>

SecondPasses ==
    /\ now < MaxTime
    /\ now' = now + 1
    /\ UNCHANGED <<lastSend, txMu, calls, handlers, payments, recorded, seen,
                   serverFaults>>

ServerStep ==
    \/ \E c \in Calls : \/ LimiterRefuses(c)
                        \/ CheckLimit(c)
                        \/ TakeAnswer(c)
                        \/ AnswerLost(c)
    \/ \E h \in Handlers : \/ DaemonCheck(h)
                           \/ DaemonLock(h)
                           \/ DaemonSend(h)
                           \/ DaemonSendFails(h)
                           \/ DaemonRecord(h)
    \/ DaemonRestart
    \/ SecondPasses

-----------------------------------------------------------------------------
(* Only the limiter answers before the daemon was asked. *)
RefusedByLimiter(c) ==
    calls[c].at = "answered" /\ calls[c].status = 429 /\ calls[c].attempt = 0

(* An account is paid twice within the daemon's cooldown only if the later
   request was checked when the daemon did not remember the earlier drip: not
   yet, because the cooldown is read before the mutex is taken and kept after the
   transaction, or no more, or never, because its result was an error or could
   not be read (backend/module/faucet/main.go:116). *)
CooldownDripsOverlap ==
    \A p, q \in payments :
        /\ p.account = q.account /\ p.by # q.by
        /\ p.at <= q.at /\ q.at < p.at + Cooldown
        => p.by \notin seen[q.by]
=============================================================================
