----------------------------- MODULE Ingestion -----------------------------
(***************************************************************************)
(* The ingestion service (backend/module/ingestion/main.go): it polls the  *)
(* chain block by block, stores each event in the write database,          *)
(* publishes it to the stream EVENTS and marks it published; a back-fill   *)
(* worker beside it publishes what is stored and not marked.  Any          *)
(* statement may fail, and the process may crash between any two.          *)
(***************************************************************************)
EXTENDS Naturals, FiniteSets, SequencesExt

CONSTANTS
    Chain,          \* the blocks: their last commit and their transactions' events
    BatchLimit,     \* LIMIT of the back-fill query; 100 in the code
    MaxFaults       \* bound on failures and crashes

ASSUME IngestionParams == BatchLimit \in Nat \ {0} /\ MaxFaults \in Nat

VARIABLES
    latest,         \* height of the chain
    stored,         \* the table events: identities of its rows
    published,      \* those with nats_published = true
    stream,         \* messages of EVENTS, in order
    lastProcessed,  \* lastProcessedHeight
    todo,           \* events left of the block being ingested, the current first
    step,           \* statement of saveAndPublishEvent that comes next
    batch,          \* the records the back-fill worker holds, the current first
    filled,         \* whether the worker has published the current one
    faults,
    lost            \* events whose save failed, or that a crash passed over

ingestionVars == <<latest, stored, published, stream, lastProcessed, todo, step,
                   batch, filled, faults, lost>>

-----------------------------------------------------------------------------
(* fetchBlockEvents.  Event 0 of a block reports who signed the commit it
   carries; a validator that was absent has no address there and is skipped.
   Only events of transactions follow: those of the block itself are in a field
   the code does not read, and no message bears the oracle's names it looks
   for. *)
Reported(h) == SelectSeq(Chain[h].commit, LAMBDA s : s.flag # "absent")

Known == {"MsgBridgeIn", "MsgBridgeOut", "settlement_executed"}

OfTransactions(h) == SelectSeq(Chain[h].txs, LAMBDA r : r.type \in Known)

Fetched(h) ==
    <<[type |-> "validator_uptime", validators |-> Reported(h)]>> \o OfTransactions(h)

BlockEvents(h) ==
    [i \in DOMAIN Fetched(h) |-> [height |-> h, index |-> i - 1]]

(* A chain is a list of blocks, a block two lists that selection keeps lists, and
   a commit has one entry for each validator. *)
ASSUME BlocksAreLists ==
    /\ Len(Chain) \in Nat /\ DOMAIN Chain = 1 .. Len(Chain)
    /\ \A h \in DOMAIN Chain :
         /\ Reported(h) \in Seq(Range(Reported(h)))
         /\ OfTransactions(h) \in Seq(Range(OfTransactions(h)))
         /\ \A r \in Range(OfTransactions(h)) : r.type \in Known
         /\ \A i, j \in DOMAIN Reported(h) :
              Reported(h)[i].validator = Reported(h)[j].validator => i = j

Body(e) == Fetched(e.height)[e.index + 1]

EventIds == UNION {Range(BlockEvents(h)) : h \in DOMAIN Chain}

Earlier(d, e) ==
    \/ d.height < e.height
    \/ d.height = e.height /\ d.index < e.index

MaxStored == Max({0} \cup {e.height : e \in stored})

IngestionTypeOK ==
    /\ latest \in 0 .. Len(Chain)
    /\ stored \subseteq EventIds
    /\ published \subseteq EventIds
    /\ stream \in Seq(EventIds)
    /\ lastProcessed \in 0 .. latest
    /\ todo \in Seq(EventIds)
    /\ step \in {"idle", "save", "publish", "mark"}
    /\ batch \in Seq(EventIds)
    /\ filled \in BOOLEAN
    /\ faults \in 0 .. MaxFaults
    /\ lost \subseteq EventIds

IngestionInit ==
    /\ latest = 0
    /\ stored = {} /\ published = {} /\ stream = <<>>
    /\ lastProcessed = 0 /\ todo = <<>> /\ step = "idle"
    /\ batch = <<>> /\ filled = FALSE
    /\ faults = 0 /\ lost = {}

-----------------------------------------------------------------------------
NewBlock ==
    /\ latest < Len(Chain)
    /\ latest' = latest + 1
    /\ UNCHANGED <<stored, published, stream, lastProcessed, todo, step, batch,
                   filled, faults, lost>>

Fault == faults < MaxFaults /\ faults' = faults + 1

(* A tick of the poll loop reaches the next block; when the node does not
   answer, the block is tried again at a later tick. *)
FetchBlock ==
    /\ step = "idle"
    /\ lastProcessed < latest
    /\ todo' = BlockEvents(lastProcessed + 1)
    /\ step' = "save"
    /\ UNCHANGED <<latest, stored, published, stream, lastProcessed, batch, filled,
                   faults, lost>>

(* The loop over the block's events goes on; after the last one the block
   counts as processed. *)
NextEvent ==
    /\ todo' = Tail(todo)
    /\ IF Tail(todo) = <<>>
       THEN step' = "idle" /\ lastProcessed' = Head(todo).height
       ELSE step' = "save" /\ UNCHANGED lastProcessed

SaveEvent ==
    /\ step = "save"
    /\ stored' = stored \cup {Head(todo)}
    /\ step' = "publish"
    /\ UNCHANGED <<latest, published, stream, lastProcessed, todo, batch, filled,
                   faults, lost>>

(* The error is logged and the event passed over. *)
SaveFails ==
    /\ step = "save"
    /\ Fault
    /\ lost' = lost \cup ({Head(todo)} \ stored)
    /\ NextEvent
    /\ UNCHANGED <<latest, stored, published, stream, batch, filled>>

PublishEvent ==
    /\ step = "publish"
    /\ stream' = Append(stream, Head(todo))
    /\ step' = "mark"
    /\ UNCHANGED <<latest, stored, published, lastProcessed, todo, batch, filled,
                   faults, lost>>

(* Publish reports an error, whether or not the message has arrived. *)
PublishFails ==
    /\ step = "publish"
    /\ Fault
    /\ \E arrived \in BOOLEAN :
         stream' = IF arrived THEN Append(stream, Head(todo)) ELSE stream
    /\ NextEvent
    /\ UNCHANGED <<latest, stored, published, batch, filled, lost>>

MarkEvent ==
    /\ step = "mark"
    /\ published' = published \cup {Head(todo)}
    /\ NextEvent
    /\ UNCHANGED <<latest, stored, stream, batch, filled, faults, lost>>

MarkFails ==
    /\ step = "mark"
    /\ Fault
    /\ NextEvent
    /\ UNCHANGED <<latest, stored, published, stream, batch, filled, lost>>

-----------------------------------------------------------------------------
\* Mutant of Unpublished: the query holds back the newest block.
UnpublishedOfOlderBlocks ==
    {e \in stored \ published : e.height < MaxStored}

Unpublished == stored \ published

\* ORDER BY block_height, event_index LIMIT: before a record come all earlier ones.
OldestUnpublished ==
    {t \in [1 .. Min({BatchLimit, Cardinality(Unpublished)}) -> Unpublished] :
         \A i \in DOMAIN t :
             {e \in Unpublished : Earlier(e, t[i])} = {t[j] : j \in 1 .. i - 1}}

(* runBackfillWorker: the oldest records that are not marked. *)
BackfillQuery ==
    /\ batch = <<>>
    /\ Unpublished # {}
    /\ batch' \in OldestUnpublished
    /\ UNCHANGED <<latest, stored, published, stream, lastProcessed, todo, step,
                   filled, faults, lost>>

BackfillPublish ==
    /\ batch # <<>> /\ ~filled
    /\ stream' = Append(stream, Head(batch))
    /\ filled' = TRUE
    /\ UNCHANGED <<latest, stored, published, lastProcessed, todo, step, batch,
                   faults, lost>>

(* A refused publication ends the batch. *)
BackfillPublishFails ==
    /\ batch # <<>> /\ ~filled
    /\ Fault
    /\ \E arrived \in BOOLEAN :
         stream' = IF arrived THEN Append(stream, Head(batch)) ELSE stream
    /\ batch' = <<>>
    /\ UNCHANGED <<latest, stored, published, lastProcessed, todo, step, filled,
                   lost>>

BackfillMark ==
    /\ filled
    /\ published' = published \cup {Head(batch)}
    /\ batch' = Tail(batch)
    /\ filled' = FALSE
    /\ UNCHANGED <<latest, stored, stream, lastProcessed, todo, step, faults, lost>>

BackfillMarkFails ==
    /\ filled
    /\ Fault
    /\ batch' = Tail(batch)
    /\ filled' = FALSE
    /\ UNCHANGED <<latest, stored, published, stream, lastProcessed, todo, step, lost>>

-----------------------------------------------------------------------------
\* Mutant of RestartHeight: ingestion resumes at the height of the chain.
ResumesAtLatest == latest

(* MAX(block_height) of the stored events, at the start of the process. *)
RestartHeight == MaxStored

(* Of the newest block in the table, what is not. *)
LeftBehind == {e \in EventIds : e.height = MaxStored /\ e \notin stored}

(* The process dies and starts again.  A block of which something is stored
   is not fetched again; but when the query fails, a second fault, all are. *)
IngestionRestart ==
    /\ \/ /\ Fault
          /\ lastProcessed' = RestartHeight
          /\ lost' = lost \cup LeftBehind
       \/ /\ faults + 2 <= MaxFaults /\ faults' = faults + 2
          /\ lastProcessed' = 0
          /\ UNCHANGED lost
    /\ todo' = <<>> /\ step' = "idle"
    /\ batch' = <<>> /\ filled' = FALSE
    /\ UNCHANGED <<latest, stored, published, stream>>

PollStep == FetchBlock \/ SaveEvent \/ PublishEvent \/ MarkEvent

BackfillStep == BackfillQuery \/ BackfillPublish \/ BackfillMark

IngestionFault ==
    \/ SaveFails \/ PublishFails \/ MarkFails
    \/ BackfillPublishFails \/ BackfillMarkFails
    \/ IngestionRestart

IngestionNext == NewBlock \/ PollStep \/ BackfillStep \/ IngestionFault

IngestionSpec == IngestionInit /\ [][IngestionNext]_ingestionVars

-----------------------------------------------------------------------------
(* Every event of a block that counts as processed is stored, except those
   whose save failed and those that a crash in the middle of their block left
   behind (main.go:205, 229). *)
IngestedUnlessFault ==
    \A e \in EventIds : e.height <= lastProcessed => e \in stored \cup lost
=============================================================================
