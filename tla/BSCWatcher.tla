----------------------------- MODULE BSCWatcher ------------------------------
(***************************************************************************)
(* One daemon's watch over BSC: startBSCChainWatcher of                    *)
(* relayer/cmd/relayer/main.go driving BSCWatcher of                       *)
(* relayer/bsc_watcher.go.  The loop scans block after block for Locked    *)
(* events, holds each until its block is deep enough, and publishes it.    *)
(*                                                                         *)
(* The database (checkpoints, nonce states) and the bus outlive a crash;   *)
(* the watcher's list of pending locks and the loop's variables do not.    *)
(***************************************************************************)
EXTENDS Naturals, FiniteSets, Sequences

CONSTANTS
    Locks,          \* the deposits users may make
    Confirmations,  \* required confirmations of each: 15 or 50, by its amount
    StartBlock,     \* where a daemon without a checkpoint starts ("lastSeen = 100")
    MaxBlock,       \* bound: height of the chain
    MaxCrashes,     \* bound: crashes of the daemon
    MaxRpcErrors,   \* bound: failed calls of FilterLogs
    MaxBusErrors,   \* bound: failed publications
    MaxReorgs,      \* bound: reorganisations of the chain
    ReorgDepth      \* blocks a reorganisation replaces at most

ASSUME WatcherParams ==
    /\ IsFiniteSet(Locks)
    /\ Confirmations \in [Locks -> Nat]
    /\ StartBlock \in Nat /\ MaxBlock \in Nat /\ ReorgDepth \in Nat
    /\ MaxCrashes \in Nat /\ MaxRpcErrors \in Nat /\ MaxBusErrors \in Nat /\ MaxReorgs \in Nat

VARIABLES
    chain,         \* chain[b]: the deposits whose Locked event is in block b
    checkpoint,    \* DB: bsc_last_seen_block, 0 when there is none
    confirmed,     \* DB: deposits in state "confirmed"
    published,     \* bus: <<lock, block>> of the events on bridge.bsc.locked.*
    phase,         \* where the loop is: "idle", "scan" or "publish"
    lastSeen, latest, b,  \* variables of the loop
    pendingLocks,  \* BSCWatcher.pendingLocks: sequence of <<lock, block>>
    next,          \* position of UpdateBlockNumber in pendingLocks
    remaining,     \* its list of what stays pending
    faults         \* how often each fault has struck

dbVars   == <<checkpoint, confirmed>>
loopVars == <<phase, lastSeen, latest, b, pendingLocks, next, remaining>>
watcherVars == <<chain, dbVars, published, loopVars, faults>>

Bounds == [crash |-> MaxCrashes, rpc |-> MaxRpcErrors, bus |-> MaxBusErrors, reorg |-> MaxReorgs]

\* A fault strikes, at most as often as its bound allows.
Strike(kind) ==
    /\ faults[kind] < Bounds[kind]
    /\ faults' = [faults EXCEPT ![kind] = @ + 1]

Entries == Locks \X (1..MaxBlock)

WatcherTypeOK ==
    /\ chain \in Seq(SUBSET Locks) /\ Len(chain) <= MaxBlock
    /\ checkpoint \in 0..MaxBlock
    /\ confirmed \subseteq Locks
    /\ published \subseteq Entries
    /\ phase \in {"idle", "scan", "publish"}
    /\ lastSeen \in Nat /\ latest \in 0..MaxBlock /\ b \in Nat
    /\ pendingLocks \in Seq(Entries) /\ remaining \in Seq(Entries)
    /\ next \in 1..(Len(pendingLocks) + 1)
    /\ faults \in [DOMAIN Bounds -> Nat]
    /\ \A kind \in DOMAIN Bounds : faults[kind] <= Bounds[kind]

WatcherInit ==
    /\ chain = <<>>
    /\ checkpoint = 0 /\ confirmed = {}
    /\ published = {}
    /\ phase = "idle" /\ lastSeen = StartBlock /\ latest = 0 /\ b = 0
    /\ pendingLocks = <<>> /\ next = 1 /\ remaining = <<>>
    /\ faults = [kind \in DOMAIN Bounds |-> 0]

------------------------------------------------------------------------------
\* The deposits of the chain.
OnChain == UNION {chain[i] : i \in DOMAIN chain}

\* BSC grows by a block.
Mine ==
    /\ Len(chain) < MaxBlock
    /\ \E block \in SUBSET (Locks \ OnChain) : chain' = Append(chain, block)
    /\ UNCHANGED <<dbVars, published, loopVars, faults>>

\* The last blocks are replaced: their deposits are undone, and may be made
\* again in a later block.
Reorg ==
    /\ Strike("reorg")
    /\ \E n \in 1..ReorgDepth :
          /\ n <= Len(chain)
          /\ chain' = [i \in DOMAIN chain |-> IF i <= Len(chain) - n THEN chain[i] ELSE {}]
    /\ UNCHANGED <<dbVars, published, loopVars>>

------------------------------------------------------------------------------
\* The loop has a head beyond lastSeen and begins with the block after it.
FetchHead ==
    /\ phase = "idle" /\ Len(chain) > lastSeen
    /\ phase' = "scan" /\ latest' = Len(chain) /\ b' = lastSeen + 1
    /\ UNCHANGED <<chain, dbVars, published, lastSeen, pendingLocks, next, remaining, faults>>

\* The loop goes on with block b + 1, or sleeps after the last one.
NextScan ==
    /\ b' = b + 1
    /\ phase' = IF b < latest THEN "scan" ELSE "idle"
    /\ UNCHANGED latest

\* FilterLogs fails: "continue".
ScanFails ==
    /\ phase = "scan" /\ Strike("rpc")
    /\ NextScan
    /\ UNCHANGED <<chain, dbVars, published, lastSeen, pendingLocks, next, remaining>>

\* The logs of block b are appended to pendingLocks (IngestLockEvent), in any
\* order; UpdateBlockNumber starts with the checkpoint.
ScanBlock ==
    /\ phase = "scan"
    /\ \E logs \in [1..Cardinality(chain[b]) -> chain[b]] :
          /\ \A l \in chain[b] : \E i \in DOMAIN logs : logs[i] = l
          /\ pendingLocks' = pendingLocks \o [i \in DOMAIN logs |-> <<logs[i], b>>]
    /\ checkpoint' = b
    /\ phase' = "publish" /\ next' = 1 /\ remaining' = <<>>
    /\ UNCHANGED <<chain, confirmed, published, lastSeen, latest, b, faults>>

\* Mutants: one confirmation too many, and confirmations counted from the head.
StrictlyDeep(entry)  == b > entry[2] + Confirmations[entry[1]]
DeepUnderHead(entry) == latest >= entry[2] + Confirmations[entry[1]]

\* w.currentBscBlock >= lock.BlockNumber + requiredConfirmations
Deep(entry) == b >= entry[2] + Confirmations[entry[1]]

PublishNext ==
    /\ phase = "publish" /\ next <= Len(pendingLocks)
    /\ LET entry == pendingLocks[next] IN
          \/ /\ Deep(entry)
             /\ published' = published \cup {entry}
             /\ confirmed' = confirmed \cup {entry[1]}
             /\ UNCHANGED remaining
          \/ /\ ~Deep(entry)
             /\ remaining' = Append(remaining, entry)
             /\ UNCHANGED <<published, confirmed>>
    /\ next' = next + 1
    /\ UNCHANGED <<chain, checkpoint, phase, lastSeen, latest, b, pendingLocks, faults>>

\* Mutant: the error replaces pendingLocks too.
FailsWithRemaining ==
    /\ phase = "publish" /\ next <= Len(pendingLocks) /\ Deep(pendingLocks[next])
    /\ Strike("bus")
    /\ pendingLocks' = remaining /\ next' = 1
    /\ lastSeen' = b /\ NextScan
    /\ UNCHANGED <<chain, dbVars, published, remaining>>

\* The bus refuses: UpdateBlockNumber returns before it replaces pendingLocks,
\* and the loop ignores its error.
PublishFails ==
    /\ phase = "publish" /\ next <= Len(pendingLocks) /\ Deep(pendingLocks[next])
    /\ Strike("bus")
    /\ lastSeen' = b /\ NextScan
    /\ UNCHANGED <<chain, dbVars, published, pendingLocks, next, remaining>>

FinishBlock ==
    /\ phase = "publish" /\ next > Len(pendingLocks)
    /\ pendingLocks' = remaining /\ next' = 1 /\ remaining' = <<>>
    /\ lastSeen' = b /\ NextScan
    /\ UNCHANGED <<chain, dbVars, published, faults>>

\* The daemon dies and starts again from its checkpoint.
Crash ==
    /\ Strike("crash")
    /\ phase' = "idle" /\ lastSeen' = (IF checkpoint = 0 THEN StartBlock ELSE checkpoint)
    /\ latest' = 0 /\ b' = 0
    /\ pendingLocks' = <<>> /\ next' = 1 /\ remaining' = <<>>
    /\ UNCHANGED <<chain, dbVars, published>>

------------------------------------------------------------------------------
WatcherStep == FetchHead \/ ScanBlock \/ PublishNext \/ FinishBlock

WatcherNext == Mine \/ Reorg \/ WatcherStep \/ ScanFails \/ PublishFails \/ Crash

WatcherSpec == WatcherInit /\ [][WatcherNext]_watcherVars

\* BSC keeps producing blocks and the loop keeps running: it is a goroutine
\* that never waits for another one.
FairWatcherSpec == WatcherSpec /\ WF_watcherVars(Mine) /\ WF_watcherVars(WatcherStep)

------------------------------------------------------------------------------
Pending == {pendingLocks[i] : i \in DOMAIN pendingLocks}

\* Every deposit of a block the watcher has passed is still held or was
\* published, also when a publication failed half way through the list.
NothingSkipped ==
    \A i \in DOMAIN chain : i > StartBlock /\ i <= lastSeen =>
        \A l \in chain[i] : <<l, i>> \in Pending \cup published

\* Only what the daemon neither checkpoints nor reads again can lose a deposit: a
\* crash, a failed call of FilterLogs or a reorganisation, never the bus.
Undisturbed == faults["crash"] = 0 /\ faults["rpc"] = 0 /\ faults["reorg"] = 0
SkippedOnlyByFault == Undisturbed => NothingSkipped

\* The committee signs a deposit only when its block was the required number
\* of blocks below one the watcher has seen.
PublishedDeepEnough ==
    \A entry \in published : checkpoint >= entry[2] + Confirmations[entry[1]]

\* Every deposit that the chain leaves time to confirm is published: a refused
\* publication is tried again with each further block, never given up, as
\* long as the daemon is not disturbed.
DepositsPublished ==
    \A l \in Locks :
        (\E i \in DOMAIN chain :
            l \in chain[i] /\ i > StartBlock /\ i + Confirmations[l] + MaxBusErrors <= MaxBlock)
            ~> (~Undisturbed \/ \E i \in 1..MaxBlock : <<l, i>> \in published)
=============================================================================
