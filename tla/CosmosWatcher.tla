---------------------------- MODULE CosmosWatcher ----------------------------
(***************************************************************************)
(* One daemon's watch over the Sovereign chain: startCosmosChainWatcher of *)
(* relayer/cmd/relayer/main.go driving CosmosWatcher of                    *)
(* relayer/cosmos_watcher.go.  Each MsgBridgeOut event is recorded in the  *)
(* database, then published; what was recorded and not published is        *)
(* published later by ProcessPendingBurns.                                 *)
(*                                                                         *)
(* A burn is known by its nonce, the hash of its transaction.              *)
(***************************************************************************)
EXTENDS Naturals, FiniteSets, Sequences

CONSTANTS
    Burns,         \* nonces of the withdrawals users may make
    MaxPerBlock,   \* bound: burns in one block
    MaxHeight,     \* bound: height of the chain
    MaxCrashes,    \* bound: crashes of the daemon
    MaxRpcErrors,  \* bound: failed calls of BlockResults or Block
    MaxBusErrors,  \* bound: failed publications
    MaxDbErrors    \* bound: failed calls of SaveBurnEvent

ASSUME CosmosWatcherParams ==
    /\ MaxPerBlock \in Nat /\ MaxHeight \in Nat \ {0}
    /\ MaxCrashes \in Nat /\ MaxRpcErrors \in Nat /\ MaxBusErrors \in Nat /\ MaxDbErrors \in Nat

VARIABLES
    chain,       \* chain[h]: the burns of block h, in the order of its events
    checkpoint,  \* DB: cosmos_last_seen_height, 0 when there is none
    burnRows,    \* DB: burns with a row in burn_events
    nonceState,  \* DB: state of each nonce, "" when there is none
    published,   \* bus: burns on bridge.cosmos.burnout.*
    pc,          \* where the loop is
    lastSeen, latest, h,  \* variables of the loop
    event,       \* position in chain[h] of the event being ingested
    pending,     \* what GetPendingBurns returned and is not yet published
    faults       \* how often each fault has struck

dbVars   == <<checkpoint, burnRows, nonceState>>
loopVars == <<pc, lastSeen, latest, h, event, pending>>
cosmosVars == <<chain, dbVars, published, loopVars, faults>>

Bounds == [crash |-> MaxCrashes, rpc |-> MaxRpcErrors, bus |-> MaxBusErrors, db |-> MaxDbErrors]

Strike(kind) ==
    /\ faults[kind] < Bounds[kind]
    /\ faults' = [faults EXCEPT ![kind] = @ + 1]

CosmosTypeOK ==
    /\ chain \in Seq(Seq(Burns)) /\ Len(chain) <= MaxHeight
    /\ checkpoint \in 0..MaxHeight
    /\ burnRows \subseteq Burns
    /\ nonceState \in [Burns -> {"", "observed", "burned", "ready"}]
    /\ published \subseteq Burns
    /\ pc \in {"loop", "pending", "head", "scan", "ingest", "observe", "checkpoint", "publish", "mark"}
    /\ lastSeen \in Nat /\ latest \in Nat /\ h \in Nat /\ event \in Nat
    /\ pending \subseteq Burns
    /\ faults \in [DOMAIN Bounds -> Nat]
    /\ \A kind \in DOMAIN Bounds : faults[kind] <= Bounds[kind]

CosmosInit ==
    /\ chain = <<<<>>>>  \* height 1, where a daemon without a checkpoint starts
    /\ checkpoint = 0 /\ burnRows = {} /\ nonceState = [n \in Burns |-> ""]
    /\ published = {}
    /\ pc = "loop" /\ lastSeen = 1 /\ latest = 0 /\ h = 0 /\ event = 1 /\ pending = {}
    /\ faults = [kind \in DOMAIN Bounds |-> 0]

------------------------------------------------------------------------------
OnChain == UNION {{chain[i][j] : j \in DOMAIN chain[i]} : i \in DOMAIN chain}

\* The events of a block, each with a nonce that no earlier block has.
Blocks == {events \in UNION {[1..n -> Burns \ OnChain] : n \in 0..MaxPerBlock} :
              \A i, j \in DOMAIN events : events[i] = events[j] => i = j}

Commit ==
    /\ Len(chain) < MaxHeight
    /\ \E block \in Blocks : chain' = Append(chain, block)
    /\ UNCHANGED <<dbVars, published, loopVars, faults>>

------------------------------------------------------------------------------
\* Mutant: the query asks for another state.
BurnedRows == {n \in burnRows : nonceState[n] = "burned"}

\* GetPendingBurns
PendingBurns == {n \in burnRows : nonceState[n] = "observed"}

\* ProcessPendingBurns, at the start of the daemon and of each round of the
\* loop: the query, then each burn is published and marked.
QueryPending ==
    /\ pc = "loop"
    /\ pending' = PendingBurns
    /\ pc' = IF pending' = {} THEN "head" ELSE "pending"
    /\ UNCHANGED <<chain, dbVars, published, lastSeen, latest, h, event, faults>>

PublishPending(n) ==
    /\ pc = "pending" /\ n \in pending
    /\ published' = published \cup {n}
    /\ nonceState' = [nonceState EXCEPT ![n] = "burned"]
    /\ pending' = pending \ {n}
    /\ pc' = IF pending' = {} THEN "head" ELSE "pending"
    /\ UNCHANGED <<chain, checkpoint, burnRows, lastSeen, latest, h, event, faults>>

PublishPendingFails ==
    /\ pc = "pending" /\ Strike("bus")
    /\ pending' = {} /\ pc' = "head"
    /\ UNCHANGED <<chain, dbVars, published, lastSeen, latest, h, event>>

\* The loop takes the chain's height; with nothing new it sleeps and repeats.
FetchHeight ==
    /\ pc = "head"
    /\ latest' = Len(chain)
    /\ h' = lastSeen + 1
    /\ pc' = IF Len(chain) > lastSeen THEN "scan" ELSE "loop"
    /\ UNCHANGED <<chain, dbVars, published, lastSeen, event, pending, faults>>

NextHeight ==
    /\ h' = h + 1
    /\ pc' = IF h < latest THEN "scan" ELSE "loop"
    /\ event' = 1
    /\ UNCHANGED <<latest, pending>>

\* BlockResults or Block fails: "continue".
ScanFails ==
    /\ pc = "scan" /\ Strike("rpc")
    /\ NextHeight
    /\ UNCHANGED <<chain, dbVars, published, lastSeen>>

\* Mutant: the checkpoint is saved before the events are.
CheckpointFirst ==
    /\ pc = "scan"
    /\ pc' = "ingest" /\ event' = 1 /\ checkpoint' = h
    /\ UNCHANGED <<chain, burnRows, nonceState, published, lastSeen, latest, h, pending, faults>>

ScanBlock ==
    /\ pc = "scan"
    /\ pc' = "ingest" /\ event' = 1
    /\ UNCHANGED <<chain, dbVars, published, lastSeen, latest, h, pending, faults>>

------------------------------------------------------------------------------
Current == chain[h][event]
\* Mutant: the last event is left out.
HasFurtherEvent == event < Len(chain[h])

HasEvent == event <= Len(chain[h])

\* IngestBurnEvent, statement by statement: the event is known already ...
SkipKnown ==
    /\ pc = "ingest" /\ HasEvent
    /\ nonceState[Current] \in {"observed", "burned"}
    /\ event' = event + 1
    /\ UNCHANGED <<chain, dbVars, published, pc, lastSeen, latest, h, pending, faults>>

\* ... or its row is saved ...
SaveBurn ==
    /\ pc = "ingest" /\ HasEvent
    /\ nonceState[Current] \notin {"observed", "burned"}
    /\ burnRows' = burnRows \cup {Current}
    /\ pc' = "observe"
    /\ UNCHANGED <<chain, checkpoint, nonceState, published, lastSeen, latest, h, event, pending, faults>>

\* ... or the row cannot be saved; the loop ignores the error.
SaveBurnFails ==
    /\ pc = "ingest" /\ HasEvent
    /\ nonceState[Current] \notin {"observed", "burned"}
    /\ Strike("db")
    /\ event' = event + 1
    /\ UNCHANGED <<chain, dbVars, published, pc, lastSeen, latest, h, pending>>

MarkObserved ==
    /\ pc = "observe"
    /\ nonceState' = [nonceState EXCEPT ![Current] = "observed"]
    /\ pc' = "checkpoint"
    /\ UNCHANGED <<chain, checkpoint, burnRows, published, lastSeen, latest, h, event, pending, faults>>

SaveHeight ==
    /\ pc = "checkpoint"
    /\ checkpoint' = h
    /\ pc' = "publish"
    /\ UNCHANGED <<chain, burnRows, nonceState, published, lastSeen, latest, h, event, pending, faults>>

PublishBurn ==
    /\ pc = "publish"
    /\ published' = published \cup {Current}
    /\ pc' = "mark"
    /\ UNCHANGED <<chain, dbVars, lastSeen, latest, h, event, pending, faults>>

\* Mutant: the refusal is not noticed.
MarksRefused ==
    /\ pc = "publish" /\ Strike("bus")
    /\ pc' = "mark"
    /\ UNCHANGED <<chain, dbVars, published, lastSeen, latest, h, event, pending>>

\* The bus refuses: the burn stays "observed" for ProcessPendingBurns.
PublishBurnFails ==
    /\ pc = "publish" /\ Strike("bus")
    /\ event' = event + 1 /\ pc' = "ingest"
    /\ UNCHANGED <<chain, dbVars, published, lastSeen, latest, h, pending>>

MarkBurned ==
    /\ pc = "mark"
    /\ nonceState' = [nonceState EXCEPT ![Current] = "burned"]
    /\ event' = event + 1 /\ pc' = "ingest"
    /\ UNCHANGED <<chain, checkpoint, burnRows, published, lastSeen, latest, h, pending, faults>>

\* The block is done: lastSeen and the checkpoint move to it.
FinishHeight ==
    /\ pc = "ingest" /\ ~HasEvent
    /\ lastSeen' = h /\ checkpoint' = h
    /\ NextHeight
    /\ UNCHANGED <<chain, burnRows, nonceState, published, faults>>

------------------------------------------------------------------------------
\* The daemon dies and starts again from its checkpoint.
Crash ==
    /\ Strike("crash")
    /\ pc' = "loop" /\ lastSeen' = (IF checkpoint = 0 THEN 1 ELSE checkpoint)
    /\ latest' = 0 /\ h' = 0 /\ event' = 1 /\ pending' = {}
    /\ UNCHANGED <<chain, dbVars, published>>

\* The event handler of the same daemon saves the burn that a peer announced.
PeerAnnounces(n) ==
    /\ n \in OnChain \ burnRows
    /\ burnRows' = burnRows \cup {n}
    /\ UNCHANGED <<chain, checkpoint, nonceState, published, loopVars, faults>>

\* The vote handler of the same daemon finds a quorum: SigAggregator, for a
\* burn that has a row and that the committee has seen.
VotesReady(n) ==
    /\ n \in burnRows /\ nonceState[n] # "ready"
    /\ nonceState' = [nonceState EXCEPT ![n] = "ready"]
    /\ UNCHANGED <<chain, checkpoint, burnRows, published, loopVars, faults>>

LoopStep ==
    \/ QueryPending \/ (\E n \in Burns : PublishPending(n)) \/ FetchHeight
    \/ ScanBlock \/ SkipKnown \/ SaveBurn \/ MarkObserved \/ SaveHeight
    \/ PublishBurn \/ MarkBurned \/ FinishHeight

Fault == PublishPendingFails \/ ScanFails \/ SaveBurnFails \/ PublishBurnFails \/ Crash

CosmosNext == Commit \/ LoopStep \/ Fault \/ \E n \in Burns : PeerAnnounces(n) \/ VotesReady(n)

CosmosSpec == CosmosInit /\ [][CosmosNext]_cosmosVars

\* The loop is a goroutine that waits for nobody.
FairCosmosSpec == CosmosSpec /\ WF_cosmosVars(LoopStep)

------------------------------------------------------------------------------
\* Every burn of a block the watcher has passed has its row, from which it can
\* still be published whatever happens next.
NoBurnSkipped ==
    \A i \in 2..lastSeen : \A j \in DOMAIN chain[i] : chain[i][j] \in burnRows

\* Crashes and refused publications lose no burn of a block that holds one; in a
\* block of several, the first burn already moves the checkpoint to the block.
SkippedOnlyByFault ==
    faults["rpc"] = 0 /\ faults["db"] = 0 /\ (faults["crash"] = 0 \/ \A i \in DOMAIN chain : Len(chain[i]) <= 1)
        => NoBurnSkipped

\* A burn leaves "observed" for "burned" only by way of the bus.
BurnedIsPublished == \A n \in Burns : nonceState[n] = "burned" => n \in published

\* What was observed is published in the end or has its quorum without this
\* daemon's announcement, through crashes and refused publications.
ObservedIsAnnounced ==
    \A n \in Burns : nonceState[n] = "observed" ~> (n \in published \/ nonceState[n] = "ready")
=============================================================================
