----------------------------- MODULE Projection -----------------------------
(***************************************************************************)
(* The projection service (backend/module/projection/main.go) behind the   *)
(* ingestion service: it consumes EVENTS with manual acknowledgements and  *)
(* writes the tables of the read database, each statement a transaction of *)
(* its own.  Its subscription is not durable: after a restart the whole    *)
(* stream comes again.                                                     *)
(***************************************************************************)
EXTENDS Ingestion

VARIABLES
    counters,       \* cells that statements add to, from cells to numbers
    tables,         \* rows, from their keys to the event that wrote them
    cursor,         \* the next message of EVENTS that was not delivered
    redeliver,      \* messages to come again
    msg,            \* the message in hand; 0 for none
    script,         \* statements left of projectEvent for it
    redelivered     \* whether a message has come, or will come, a second time

projectionVars == <<counters, tables, cursor, redeliver, msg, script,
                    redelivered>>
readVars == <<ingestionVars, projectionVars>>

-----------------------------------------------------------------------------
Add(cells) == [does |-> "add", cells |-> cells]
InsertNew(key) == [does |-> "insert", key |-> key]
Upsert(key) == [does |-> "upsert", key |-> key]

IndexLimit == 1000

(* The key of an event's row in bridge_pending.  The hexadecimal nonce of a
   deposit, 64 digits long, is valid base64: ingestion decodes it, and what is
   left parses as 0. *)
PendingKey(e) ==
    IF Body(e).type = "MsgBridgeIn" THEN 0 ELSE e.height * IndexLimit + e.index

(* updateBridgeVolume: three buckets, one after the other. *)
UpdateBridgeVolume(chain) ==
    <<Add({<<"hourly", chain>>}), Add({<<"daily", chain>>}), Add({<<"all", chain>>})>>

\* Mutant of Uptime: the row is inserted before the counters are moved.
RowBeforeCounters(e, s) ==
    <<InsertNew(<<"validator_signatures", e.height, s.validator>>),
      Add({<<"total_blocks", s.validator>>})>>

(* A validator's counters and its row of the block. *)
Uptime(e, s) ==
    <<Add({<<"total_blocks", s.validator>>}
          \cup (IF s.flag = "commit" THEN {} ELSE {<<"missed_blocks", s.validator>>})),
      InsertNew(<<"validator_signatures", e.height, s.validator>>)>>

(* projectEvent: the statements of an event, in order. *)
Statements(e) ==
    LET b == Body(e)
        Bridge(chain) ==
            <<Upsert(<<"bridge_pending", PendingKey(e)>>)>>
            \o UpdateBridgeVolume(chain)
            \o <<InsertNew(<<"bridge_events", e.height, e.index, chain>>)>>
    IN  CASE b.type = "MsgBridgeIn" -> Bridge("sovereign")
          [] b.type = "MsgBridgeOut" -> Bridge("bsc")
          [] b.type = "settlement_executed" -> <<InsertNew(<<"settlements", b.witness>>)>>
          [] b.type = "validator_uptime" ->
               <<InsertNew(<<"block_stats", e.height>>)>>
               \o [i \in 1 .. 2 * Len(b.validators) |->
                     Uptime(e, b.validators[(i + 1) \div 2])[2 - (i % 2)]]

Chains == {"sovereign", "bsc"}

Cells ==
    ({"hourly", "daily", "all"} \X Chains)
    \cup UNION {UNION {s.cells : s \in {t \in Range(Statements(e)) : t.does = "add"}}
                : e \in EventIds}

(* Both kinds of insertion end with the row in place; one that finds the row
   leaves it to its first writer, and an upsert of bridge_pending changes
   nothing but a status that depends on the key alone. *)
RowsAfter(s, e) ==
    IF s.does = "add" \/ s.key \in DOMAIN tables THEN tables
    ELSE [k \in DOMAIN tables \cup {s.key} |-> IF k = s.key THEN e ELSE tables[k]]

CountersAfter(s) ==
    IF s.does = "add"
    THEN [c \in DOMAIN counters |-> counters[c] + (IF c \in s.cells THEN 1 ELSE 0)]
    ELSE counters

-----------------------------------------------------------------------------
ProjectionTypeOK ==
    /\ IngestionTypeOK
    /\ counters \in [Cells -> Nat]
    /\ Range(tables) \subseteq EventIds
    /\ cursor \in 1 .. Len(stream) + 1
    /\ redeliver \subseteq 1 .. Len(stream)
    /\ msg \in 0 .. Len(stream)
    /\ redelivered \in BOOLEAN

ProjectionInit ==
    /\ counters = [c \in Cells |-> 0]
    /\ tables = <<>>
    /\ cursor = 1 /\ redeliver = {} /\ msg = 0 /\ script = <<>>
    /\ redelivered = FALSE

-----------------------------------------------------------------------------
Deliver(i) ==
    /\ msg' = i
    /\ script' = Statements(stream[i])

DeliverNext ==
    /\ msg = 0
    /\ cursor <= Len(stream)
    /\ Deliver(cursor)
    /\ cursor' = cursor + 1
    /\ UNCHANGED <<counters, tables, redeliver, redelivered>>

Redeliver ==
    /\ msg = 0
    /\ \E i \in redeliver : Deliver(i) /\ redeliver' = redeliver \ {i}
    /\ UNCHANGED <<counters, tables, cursor, redelivered>>

ExecuteStatement ==
    /\ script # <<>>
    /\ tables' = RowsAfter(Head(script), stream[msg])
    /\ counters' = CountersAfter(Head(script))
    /\ script' = Tail(script)
    /\ UNCHANGED <<cursor, redeliver, msg, redelivered>>

(* The message is acknowledged, whether or not STREAM took the enriched event. *)
Acknowledge ==
    /\ msg # 0 /\ script = <<>>
    /\ msg' = 0
    /\ UNCHANGED <<counters, tables, cursor, redeliver, script, redelivered>>

(* A statement fails, or the read of a large event's payload from the write
   database: Nak. *)
StatementFails ==
    /\ script # <<>>
    /\ Fault
    /\ redeliver' = redeliver \cup {msg}
    /\ redelivered' = TRUE
    /\ msg' = 0 /\ script' = <<>>
    /\ UNCHANGED <<counters, tables, cursor>>

(* The server stops waiting for an acknowledgement, or it is lost. *)
AckWaitExpires ==
    /\ msg # 0
    /\ Fault
    /\ redeliver' = redeliver \cup {msg}
    /\ redelivered' = TRUE
    /\ UNCHANGED <<counters, tables, cursor, msg, script>>

(* A new ephemeral consumer begins with the first message of the stream. *)
ProjectionRestart ==
    /\ Fault
    /\ cursor' = 1 /\ redeliver' = {}
    /\ msg' = 0 /\ script' = <<>>
    /\ redelivered' = (redelivered \/ cursor > 1)
    /\ UNCHANGED <<counters, tables>>

ProjectStep == DeliverNext \/ Redeliver \/ ExecuteStatement \/ Acknowledge

ProjectionFault ==
    StatementFails \/ AckWaitExpires \/ ProjectionRestart

ReadInit == IngestionInit /\ ProjectionInit

ReadNext ==
    \/ IngestionNext /\ UNCHANGED projectionVars
    \/ ProjectStep /\ UNCHANGED ingestionVars
    \/ /\ ProjectionFault
       /\ UNCHANGED <<latest, stored, published, stream, lastProcessed, todo, step,
                      batch, filled, lost>>

(* The two tickers and the consumer go on. *)
ReadFairness ==
    /\ WF_readVars(BackfillStep /\ UNCHANGED projectionVars)
    /\ WF_readVars(ProjectStep /\ UNCHANGED ingestionVars)

ReadSpec == ReadInit /\ [][ReadNext]_readVars /\ ReadFairness

-----------------------------------------------------------------------------
RowsOf(table) == {k \in DOMAIN tables : k[1] = table}

BridgeRows(chain) == {k \in RowsOf("bridge_events") : k[4] = chain}

SignatureRows(v) == {k \in RowsOf("validator_signatures") : k[3] = v}

Validators == {c[2] : c \in {d \in Cells : d[1] = "total_blocks"}}

(* No message was or will be projected twice, and none is half projected. *)
EachProjectedOnce ==
    ~redelivered /\ IsInjective(stream) /\ msg = 0

(* The counters of the read database never fall behind the rows beside them,
   nor a bucket behind the one written after it; and they agree unless a
   message came twice (projection main.go:341, 445). *)
CountersDriftOnlyByRedelivery ==
    /\ \A c \in Chains :
         /\ counters[<<"hourly", c>>] >= counters[<<"daily", c>>]
         /\ counters[<<"daily", c>>] >= counters[<<"all", c>>]
         /\ counters[<<"all", c>>] >= Cardinality(BridgeRows(c))
         /\ EachProjectedOnce => counters[<<"hourly", c>>] = Cardinality(BridgeRows(c))
    /\ \A v \in Validators :
         /\ counters[<<"total_blocks", v>>] >= Cardinality(SignatureRows(v))
         /\ EachProjectedOnce =>
              counters[<<"total_blocks", v>>] = Cardinality(SignatureRows(v))

(* What ingestion has stored ends in the read database, through faults that
   come to an end (ingestion main.go:252, projection main.go:160). *)
StoredIsProjected ==
    <>[](\A e \in stored : \A s \in Range(Statements(e)) :
             s.does # "add" => s.key \in DOMAIN tables)
=============================================================================
