-------------------------- MODULE Projection_proofs --------------------------
(***************************************************************************)
(* The read side for every chain and every number of faults.  Ingestion:   *)
(* an event of a block that counts as processed is stored, or its save     *)
(* failed, or a crash passed it over; the invariant follows the block in   *)
(* hand, of which whatever is neither stored nor lost is still to do, and  *)
(* whatever lies below a stored event is stored or lost.  Projection: the  *)
(* counters keep ahead of the rows, since in the statements of every event *)
(* each counter is moved directly behind the one before it and the row     *)
(* last, and until a message has come twice no row of the message in hand  *)
(* is there before its turn.                                               *)
(***************************************************************************)
EXTENDS Projection, FiniteSetTheorems, SequenceTheorems, TLAPS

Heights == {0} \cup {e.height : e \in stored}

TypesHold ==
    /\ latest \in 0 .. Len(Chain)
    /\ lastProcessed \in 0 .. latest
    /\ stored \subseteq EventIds
    /\ todo \in Seq(EventIds)
    /\ step \in {"idle", "save", "publish", "mark"}

BlockInHand ==
    /\ step = "idle" <=> todo = <<>>
    /\ step # "idle" => lastProcessed < latest
    /\ \A i \in DOMAIN todo : todo[i].height = lastProcessed + 1
    /\ step \in {"publish", "mark"} => Head(todo) \in stored
    /\ step # "idle" =>
         \A e \in EventIds : e.height = lastProcessed + 1
                             => e \in stored \cup lost \cup Range(todo)

NothingBelow ==
    /\ \A e \in stored : e.height <= latest
    /\ \A e \in stored, d \in EventIds : d.height < e.height => d \in stored \cup lost
    /\ \E m \in Heights : \A k \in Heights : k <= m

IngestionInv == TypesHold /\ BlockInHand /\ NothingBelow /\ IngestedUnlessFault

-----------------------------------------------------------------------------
(* The events of a block are listed from the commit's on, of which there is one. *)
LEMMA FetchedIsList ==
    ASSUME NEW h \in DOMAIN Chain
    PROVE  /\ Len(Fetched(h)) \in Nat \ {0} /\ DOMAIN Fetched(h) = 1 .. Len(Fetched(h))
           /\ Fetched(h)[1] = [type |-> "validator_uptime", validators |-> Reported(h)]
           /\ \A i \in DOMAIN Fetched(h) : i # 1 => Fetched(h)[i].type \in Known
<1> DEFINE first == [type |-> "validator_uptime", validators |-> Reported(h)]
           rest == OfTransactions(h)
<1>1. rest \in Seq(Range(rest)) /\ \A r \in Range(rest) : r.type \in Known
  BY BlocksAreLists
<1>2. Fetched(h) = <<first>> \o rest
  BY DEF Fetched
<1> HIDE DEF first, rest
<1>3. /\ Len(<<first>> \o rest) = 1 + Len(rest)
      /\ DOMAIN (<<first>> \o rest) = 1 .. 1 + Len(rest)
      /\ (<<first>> \o rest)[1] = first
      /\ \A i \in 1 .. 1 + Len(rest) : i # 1 => (<<first>> \o rest)[i] = rest[i - 1]
  BY <1>1
<1>4. Len(rest) \in Nat /\ \A i \in 1 .. Len(rest) : rest[i] \in Range(rest)
  BY <1>1 DEF Range
<1>5. \A i \in 1 .. 1 + Len(rest) : i # 1 => i - 1 \in 1 .. Len(rest)
  BY <1>4
<1>. QED  BY <1>1, <1>2, <1>3, <1>4, <1>5 DEF first

(* The events of the chain are those of its blocks, each under its height. *)
LEMMA EventsOfBlocks ==
    /\ \A e \in EventIds : e.height \in 1 .. Len(Chain) /\ e \in Range(BlockEvents(e.height))
    /\ \A h \in 1 .. Len(Chain) :
         /\ BlockEvents(h) \in Seq(EventIds) /\ BlockEvents(h) # <<>>
         /\ \A i \in DOMAIN BlockEvents(h) : BlockEvents(h)[i].height = h
<1>1. ASSUME NEW e \in EventIds
      PROVE  e.height \in 1 .. Len(Chain) /\ e \in Range(BlockEvents(e.height))
  <2>1. PICK h \in DOMAIN Chain : e \in Range(BlockEvents(h))
    BY DEF EventIds
  <2>2. e.height = h
    BY <2>1 DEF Range, BlockEvents
  <2>. QED  BY <2>1, <2>2, BlocksAreLists
<1>2. ASSUME NEW h \in 1 .. Len(Chain)
      PROVE  /\ BlockEvents(h) \in Seq(EventIds) /\ BlockEvents(h) # <<>>
             /\ \A i \in DOMAIN BlockEvents(h) : BlockEvents(h)[i].height = h
  <2>1. h \in DOMAIN Chain /\ DOMAIN BlockEvents(h) = 1 .. Len(Fetched(h))
        /\ Len(Fetched(h)) \in Nat \ {0}
    BY FetchedIsList, BlocksAreLists DEF BlockEvents
  <2>2. \A i \in DOMAIN BlockEvents(h) : BlockEvents(h)[i] \in EventIds
    BY <2>1 DEF EventIds, Range
  <2>3. BlockEvents(h) = [i \in 1 .. Len(Fetched(h)) |-> BlockEvents(h)[i]]
    BY <2>1 DEF BlockEvents
  <2>4. BlockEvents(h) \in Seq(EventIds)
    BY <2>1, <2>2, <2>3
  <2>5. BlockEvents(h) # <<>>
    BY <2>1, <2>4
  <2>. QED  BY <2>4, <2>5 DEF BlockEvents
<1>. QED  BY <1>1, <1>2

(* The height that ingestion resumes at is that of a stored event, or 0, and no
   stored event is above it. *)
LEMMA MaxStoredIsMax ==
    ASSUME NothingBelow, stored \subseteq EventIds
    PROVE  MaxStored \in Heights /\ \A e \in stored : e.height <= MaxStored
<1>1. MaxStored = CHOOSE m \in Heights : \A k \in Heights : m >= k
  BY DEF MaxStored, Heights, Max
<1>2. PICK m \in Heights : \A k \in Heights : k <= m
  BY DEF NothingBelow
<1>3. Heights \subseteq Int
  BY EventsOfBlocks DEF Heights
<1>4. \A k \in Heights : m >= k
  BY <1>2, <1>3
<1>5. MaxStored \in Heights /\ \A k \in Heights : MaxStored >= k
  BY <1>1, <1>2, <1>4
<1>. QED  BY <1>3, <1>5 DEF Heights

-----------------------------------------------------------------------------
LEMMA IngestionInvInit == IngestionInit => IngestionInv
<1> SUFFICES ASSUME IngestionInit PROVE IngestionInv
  OBVIOUS
<1>1. TypesHold
  BY BlocksAreLists DEF IngestionInit, TypesHold
<1>2. BlockInHand
  BY DEF IngestionInit, BlockInHand
<1>3. NothingBelow
  BY DEF IngestionInit, NothingBelow, Heights
<1>4. IngestedUnlessFault
  BY EventsOfBlocks, BlocksAreLists DEF IngestionInit, IngestedUnlessFault
<1>. QED  BY <1>1, <1>2, <1>3, <1>4 DEF IngestionInv

(* Going on to the next event loses nothing, when the current one is stored or
   counted as lost. *)
LEMMA NextEventKeeps ==
    ASSUME IngestionInv, step # "idle", NextEvent,
           stored' = stored, latest' = latest,
           lost \subseteq lost', Head(todo) \in stored \cup lost'
    PROVE  IngestionInv'
<1> USE DEF IngestionInv, TypesHold, BlockInHand, NothingBelow
<1>1. /\ todo \in Seq(EventIds) /\ todo # <<>> /\ Head(todo) \in EventIds
      /\ Tail(todo) \in Seq(EventIds) /\ DOMAIN Tail(todo) = 1 .. Len(todo) - 1
      /\ \A i \in DOMAIN Tail(todo) : i + 1 \in DOMAIN todo /\ Tail(todo)[i] = todo[i + 1]
  OBVIOUS
<1>2. Head(todo).height = lastProcessed + 1
  BY <1>1
<1>3. Range(todo) = {Head(todo)} \cup Range(Tail(todo))
  <2>1. ASSUME NEW i \in DOMAIN todo
        PROVE  todo[i] \in {Head(todo)} \cup Range(Tail(todo))
    <3>1. CASE i = 1
      BY <3>1, <1>1
    <3>2. CASE i # 1
      <4>1. i - 1 \in DOMAIN Tail(todo) /\ Tail(todo)[i - 1] = todo[i]
        BY <3>2, <1>1
      <4>. QED  BY <4>1 DEF Range
    <3>. QED  BY <3>1, <3>2
  <2>2. \A i \in DOMAIN Tail(todo) : Tail(todo)[i] \in Range(todo)
    BY <1>1 DEF Range
  <2>3. Head(todo) \in Range(todo)
    BY <1>1 DEF Range
  <2>. QED  BY <2>1, <2>2, <2>3 DEF Range
<1>4. \A e \in EventIds : e.height \in Nat
  BY EventsOfBlocks, BlocksAreLists
<1>5. CASE Tail(todo) = <<>>
  <2>1. todo' = <<>> /\ step' = "idle" /\ lastProcessed' = lastProcessed + 1
    BY <1>2, <1>5 DEF NextEvent
  <2>2. TypesHold'
    BY <2>1, BlocksAreLists
  <2>3. BlockInHand'
    BY <2>1
  <2>4. \A e \in EventIds : e.height = lastProcessed + 1 => e \in stored \cup lost'
    <3>1. Range(Tail(todo)) = {}
      BY <1>1, <1>5 DEF Range
    <3>. QED  BY <3>1, <1>3
  <2>5. \A e \in EventIds : e.height <= lastProcessed' => e \in stored' \cup lost'
    <3>1. \A e \in EventIds : e.height <= lastProcessed + 1
                             => e.height <= lastProcessed \/ e.height = lastProcessed + 1
      BY <1>4, BlocksAreLists
    <3>. QED  BY <2>1, <2>4, <3>1 DEF IngestedUnlessFault
  <2>6. NothingBelow'
    BY DEF Heights
  <2>. QED  BY <2>2, <2>3, <2>5, <2>6 DEF IngestedUnlessFault
<1>6. CASE Tail(todo) # <<>>
  <2>1. todo' = Tail(todo) /\ step' = "save" /\ lastProcessed' = lastProcessed
    BY <1>6 DEF NextEvent
  <2>2. TypesHold'
    BY <2>1, <1>1
  <2>3. \A e \in EventIds : e.height = lastProcessed + 1
                            => e \in stored \cup lost' \cup Range(Tail(todo))
    BY <1>3
  <2>4. \A i \in DOMAIN todo' : todo'[i].height = lastProcessed' + 1
    BY <2>1, <1>1
  <2>5. BlockInHand'
    BY <2>1, <2>3, <2>4, <1>6
  <2>6. NothingBelow'
    BY <2>1 DEF Heights
  <2>7. IngestedUnlessFault'
    BY <2>1 DEF IngestedUnlessFault
  <2>. QED  BY <2>2, <2>5, <2>6, <2>7
<1>. QED  BY <1>5, <1>6

LEMMA IngestionInvStep == IngestionInv /\ [IngestionNext]_ingestionVars => IngestionInv'
<1> SUFFICES ASSUME IngestionInv, [IngestionNext]_ingestionVars PROVE IngestionInv'
  OBVIOUS
<1>h. /\ latest \in Nat /\ lastProcessed \in Nat
      /\ \A e \in EventIds : e.height \in Nat
  BY EventsOfBlocks, BlocksAreLists DEF IngestionInv, TypesHold
<1>1. CASE NewBlock
  <2>1. /\ latest' = latest + 1 /\ latest < Len(Chain)
        /\ UNCHANGED <<stored, lastProcessed, todo, step, lost>>
    BY <1>1 DEF NewBlock
  <2>2. TypesHold'
    BY <2>1, <1>h, BlocksAreLists DEF IngestionInv, TypesHold
  <2>3. lastProcessed < latest => lastProcessed < latest'
    BY <2>1, <1>h
  <2>4. BlockInHand'
    BY <2>1, <2>3 DEF IngestionInv, BlockInHand
  <2>5. \A e \in stored' : e.height <= latest'
    BY <2>1, <1>h DEF IngestionInv, TypesHold, NothingBelow
  <2>6. NothingBelow'
    BY <2>1, <2>5 DEF IngestionInv, NothingBelow, Heights
  <2>7. IngestedUnlessFault'
    BY <2>1 DEF IngestionInv, IngestedUnlessFault
  <2>. QED  BY <2>2, <2>4, <2>6, <2>7 DEF IngestionInv
<1>2. CASE FetchBlock
  <2>1. /\ todo' = BlockEvents(lastProcessed + 1) /\ step = "idle" /\ step' = "save"
        /\ lastProcessed < latest
        /\ UNCHANGED <<latest, stored, lastProcessed, lost>>
    BY <1>2 DEF FetchBlock
  <2>2. lastProcessed + 1 \in 1 .. Len(Chain)
    BY <2>1, <1>h, BlocksAreLists DEF IngestionInv, TypesHold
  <2>3. TypesHold'
    BY <2>1, <2>2, EventsOfBlocks DEF IngestionInv, TypesHold
  <2>4. \A e \in EventIds : e.height = lastProcessed + 1 => e \in Range(todo')
    BY <2>1, EventsOfBlocks
  <2>5. \A i \in DOMAIN todo' : todo'[i].height = lastProcessed' + 1
    BY <2>1, <2>2, EventsOfBlocks
  <2>6. todo' # <<>>
    BY <2>1, <2>2, EventsOfBlocks
  <2>7. BlockInHand'
    BY <2>1, <2>4, <2>5, <2>6 DEF BlockInHand
  <2>8. NothingBelow'
    BY <2>1 DEF IngestionInv, NothingBelow, Heights
  <2>9. IngestedUnlessFault'
    BY <2>1 DEF IngestionInv, IngestedUnlessFault
  <2>. QED  BY <2>3, <2>7, <2>8, <2>9 DEF IngestionInv
<1>3. CASE SaveEvent
  <2>1. /\ stored' = stored \cup {Head(todo)} /\ step = "save" /\ step' = "publish"
        /\ UNCHANGED <<latest, lastProcessed, todo, lost>>
    BY <1>3 DEF SaveEvent
  <2>2. Head(todo) \in EventIds /\ Head(todo).height = lastProcessed + 1
    BY <2>1 DEF IngestionInv, TypesHold, BlockInHand
  <2>3. TypesHold'
    BY <2>1, <2>2 DEF IngestionInv, TypesHold
  <2>4. BlockInHand'
    BY <2>1 DEF IngestionInv, BlockInHand
  <2>5. NothingBelow'
    <3>1. Heights' = Heights \cup {lastProcessed + 1}
      BY <2>1, <2>2 DEF Heights
    <3>2. Heights \subseteq Nat
      BY <1>h DEF Heights, IngestionInv, TypesHold
    <3>3. PICK m \in Heights : \A k \in Heights : k <= m
      BY DEF IngestionInv, NothingBelow
    <3>4. \E n \in Heights' : \A k \in Heights' : k <= n
      <4>1. CASE m <= lastProcessed + 1
        <5>1. \A k \in Heights' : k <= lastProcessed + 1
          BY <4>1, <3>1, <3>2, <3>3, <1>h
        <5>. QED  BY <5>1, <3>1
      <4>2. CASE ~(m <= lastProcessed + 1)
        <5>1. \A k \in Heights' : k <= m
          BY <4>2, <3>1, <3>2, <3>3, <1>h
        <5>. QED  BY <5>1, <3>1, <3>3
      <4>. QED  BY <4>1, <4>2
    <3>5. lastProcessed + 1 <= latest
      BY <2>1, <1>h DEF IngestionInv, BlockInHand, TypesHold
    <3>6. ASSUME NEW d \in EventIds, d.height < Head(todo).height
          PROVE  d \in stored' \cup lost'
      BY <3>6, <2>1, <2>2, <1>h DEF IngestionInv, IngestedUnlessFault
    <3>7. \A e \in stored' : e.height <= latest'
      BY <3>5, <2>1, <2>2 DEF IngestionInv, NothingBelow
    <3>8. \A e \in stored', d \in EventIds : d.height < e.height => d \in stored' \cup lost'
      BY <3>6, <2>1 DEF IngestionInv, NothingBelow
    <3>. QED  BY <3>4, <3>7, <3>8 DEF NothingBelow
  <2>6. IngestedUnlessFault'
    BY <2>1 DEF IngestionInv, IngestedUnlessFault
  <2>. QED  BY <2>3, <2>4, <2>5, <2>6 DEF IngestionInv
<1>4. CASE SaveFails
  BY <1>4, NextEventKeeps DEF SaveFails
<1>5. CASE PublishEvent
  BY <1>5
  DEF PublishEvent, IngestionInv, TypesHold, BlockInHand, NothingBelow, Heights,
      IngestedUnlessFault
<1>6. CASE PublishFails
  BY <1>6, NextEventKeeps DEF PublishFails, IngestionInv, BlockInHand
<1>7. CASE MarkEvent
  BY <1>7, NextEventKeeps DEF MarkEvent, IngestionInv, BlockInHand
<1>8. CASE MarkFails
  BY <1>8, NextEventKeeps DEF MarkFails, IngestionInv, BlockInHand
<1>9. CASE \/ BackfillStep \/ BackfillPublishFails \/ BackfillMarkFails
           \/ UNCHANGED ingestionVars
  <2>1. UNCHANGED <<latest, stored, lastProcessed, todo, step, lost>>
    BY <1>9 DEF BackfillStep, BackfillQuery, BackfillPublish, BackfillMark,
                BackfillPublishFails, BackfillMarkFails, ingestionVars
  <2>. QED
    BY <2>1 DEF IngestionInv, TypesHold, BlockInHand, NothingBelow, Heights,
                IngestedUnlessFault
<1>10. CASE IngestionRestart
  <2>1. /\ \/ lastProcessed' = MaxStored /\ lost' = lost \cup LeftBehind
           \/ lastProcessed' = 0 /\ lost' = lost
        /\ todo' = <<>> /\ step' = "idle"
        /\ UNCHANGED <<latest, stored>>
    BY <1>10 DEF IngestionRestart, RestartHeight
  <2>2. stored \subseteq EventIds /\ NothingBelow
    BY DEF IngestionInv, TypesHold
  <2>3. MaxStored \in Heights /\ \A e \in stored : e.height <= MaxStored
    BY <2>2, MaxStoredIsMax
  <2>4. MaxStored \in 0 .. latest
    <3>1. CASE MaxStored = 0
      BY <3>1, <1>h
    <3>2. CASE MaxStored # 0
      <4>1. PICK e \in stored : MaxStored = e.height
        BY <2>3, <3>2 DEF Heights
      <4>. QED  BY <4>1, <2>2, <1>h DEF NothingBelow
    <3>. QED  BY <3>1, <3>2
  <2>5. TypesHold'
    BY <2>1, <2>4, <1>h DEF IngestionInv, TypesHold
  <2>6. BlockInHand'
    BY <2>1 DEF BlockInHand
  <2>7. NothingBelow'
    BY <2>1, <2>2 DEF NothingBelow, Heights
  <2>8. ASSUME NEW e \in EventIds, e.height <= MaxStored
        PROVE  e \in stored \cup lost \cup LeftBehind
    <3>1. CASE e.height = MaxStored
      BY <3>1 DEF LeftBehind
    <3>2. CASE e.height < MaxStored
      <4>1. MaxStored # 0
        BY <3>2, <1>h, <2>4
      <4>2. PICK d \in stored : MaxStored = d.height
        BY <2>3, <4>1 DEF Heights
      <4>. QED  BY <4>2, <3>2, <2>2 DEF NothingBelow
    <3>. QED  BY <3>1, <3>2, <2>8, <2>4, <1>h
  <2>9. \A e \in EventIds : ~(e.height <= 0)
    BY EventsOfBlocks, BlocksAreLists
  <2>10. IngestedUnlessFault'
    <3>1. CASE lastProcessed' = MaxStored /\ lost' = lost \cup LeftBehind
      BY <3>1, <2>1, <2>8 DEF IngestedUnlessFault
    <3>2. CASE lastProcessed' = 0
      BY <3>2, <2>9 DEF IngestedUnlessFault
    <3>. QED  BY <3>1, <3>2, <2>1
  <2>. QED  BY <2>5, <2>6, <2>7, <2>10 DEF IngestionInv
<1>. QED
  BY <1>1, <1>2, <1>3, <1>4, <1>5, <1>6, <1>7, <1>8, <1>9, <1>10
  DEF IngestionNext, PollStep, IngestionFault

(* Whatever fails and whenever the process crashes, an event of a block that
   counts as processed is stored, or its save failed, or a crash in the middle of
   its block left it behind (ingestion main.go:205, 229). *)
THEOREM NothingElseIsLost == IngestionSpec => []IngestedUnlessFault
<1>1. IngestionInv => IngestedUnlessFault
  BY DEF IngestionInv
<1>. QED  BY IngestionInvInit, IngestionInvStep, <1>1, PTL DEF IngestionSpec
-----------------------------------------------------------------------------
(* What the two loops and their faults do to the rest of ingestion's state. *)
RestTyped ==
    /\ IsFiniteSet(stored)
    /\ published \subseteq EventIds
    /\ stream \in Seq(EventIds)
    /\ batch \in Seq(EventIds)
    /\ filled \in BOOLEAN
    /\ filled => batch # <<>>
    /\ faults \in 0 .. MaxFaults
    /\ lost \subseteq EventIds

LEMMA OldestAreRecords ==
    ASSUME stored \subseteq EventIds, IsFiniteSet(stored), NEW t \in OldestUnpublished
    PROVE  t \in Seq(EventIds)
<1> DEFINE sizes == {BatchLimit, Cardinality(Unpublished)}
<1>1. IsFiniteSet(Unpublished) /\ Unpublished \subseteq EventIds
  BY FS_Subset DEF Unpublished
<1>2. Cardinality(Unpublished) \in Nat
  BY <1>1, FS_CardinalityType
<1>3. \E n \in sizes : \A m \in sizes : n <= m
  BY <1>2, IngestionParams
<1>4. Min(sizes) \in sizes
  BY <1>3 DEF Min
<1>5. PICK n \in Nat : t \in [1 .. n -> Unpublished]
  BY <1>2, <1>4, IngestionParams DEF OldestUnpublished
<1>. QED  BY <1>1, <1>5

LEMMA RestTypedInit == IngestionInit => RestTyped
<1>1. IsFiniteSet({}) /\ <<>> \in Seq(EventIds) /\ 0 \in 0 .. MaxFaults
  BY FS_EmptySet, IngestionParams
<1>. QED  BY <1>1 DEF IngestionInit, RestTyped

LEMMA RestTypedStep ==
    ASSUME IngestionInv, RestTyped, [IngestionNext]_ingestionVars
    PROVE  RestTyped'
<1>1. /\ step # "idle" => Head(todo) \in EventIds
      /\ batch # <<>> => Head(batch) \in EventIds /\ Tail(batch) \in Seq(EventIds)
  BY DEF IngestionInv, TypesHold, BlockInHand, RestTyped
<1>2. Fault => faults' \in 0 .. MaxFaults
  BY IngestionParams DEF Fault, RestTyped
<1>3. ASSUME NEW e \in EventIds
      PROVE  Append(stream, e) \in Seq(EventIds)
  BY DEF RestTyped
<1>4. CASE NewBlock \/ FetchBlock \/ MarkEvent \/ MarkFails
  BY <1>1, <1>2, <1>4 DEF NewBlock, FetchBlock, MarkEvent, MarkFails, RestTyped
<1>5. CASE SaveEvent
  <2>1. IsFiniteSet(stored \cup {Head(todo)})
    BY FS_AddElement DEF RestTyped
  <2>. QED  BY <1>5, <2>1 DEF SaveEvent, RestTyped
<1>6. CASE SaveFails
  BY <1>1, <1>2, <1>6 DEF SaveFails, RestTyped
<1>7. CASE PublishEvent \/ PublishFails
  <2>1. stream' \in Seq(EventIds)
    BY <1>1, <1>3, <1>7 DEF PublishEvent, PublishFails, RestTyped
  <2>2. /\ faults' \in 0 .. MaxFaults
        /\ UNCHANGED <<stored, published, batch, filled, lost>>
    BY <1>2, <1>7 DEF PublishEvent, PublishFails, RestTyped
  <2>. QED  BY <2>1, <2>2 DEF RestTyped
<1>8. CASE BackfillQuery
  <2>1. batch' \in Seq(EventIds)
    BY <1>8, OldestAreRecords DEF BackfillQuery, RestTyped, IngestionInv, TypesHold
  <2>2. ~filled
    BY <1>8 DEF BackfillQuery, RestTyped
  <2>. QED  BY <1>8, <2>1, <2>2 DEF BackfillQuery, RestTyped
<1>9. CASE BackfillPublish \/ BackfillPublishFails
  <2>1. stream' \in Seq(EventIds)
    BY <1>1, <1>3, <1>9 DEF BackfillPublish, BackfillPublishFails, RestTyped
  <2>2. /\ batch' \in Seq(EventIds) /\ filled' \in BOOLEAN
        /\ filled' => batch' # <<>>
    <3>1. CASE BackfillPublish
      BY <3>1 DEF BackfillPublish, RestTyped
    <3>2. CASE BackfillPublishFails
      <4>1. batch' = <<>> /\ ~filled /\ filled' = filled /\ filled \in BOOLEAN
        BY <3>2 DEF BackfillPublishFails, RestTyped
      <4>2. <<>> \in Seq(EventIds)
        OBVIOUS
      <4>. QED  BY <4>1, <4>2
    <3>. QED  BY <1>9, <3>1, <3>2
  <2>3. /\ faults' \in 0 .. MaxFaults
        /\ UNCHANGED <<stored, published, lost>>
    BY <1>2, <1>9 DEF BackfillPublish, BackfillPublishFails, RestTyped
  <2>. QED  BY <2>1, <2>2, <2>3 DEF RestTyped
<1>10. CASE BackfillMark \/ BackfillMarkFails
  BY <1>1, <1>2, <1>10 DEF BackfillMark, BackfillMarkFails, RestTyped
<1>11. CASE IngestionRestart
  <2>1. faults' \in 0 .. MaxFaults
    BY <1>2, <1>11, IngestionParams DEF IngestionRestart, RestTyped
  <2>2. lost' \subseteq EventIds
    BY <1>11 DEF IngestionRestart, LeftBehind, RestTyped
  <2>3. /\ batch' = <<>> /\ filled' = FALSE
        /\ UNCHANGED <<stored, published, stream>>
    BY <1>11 DEF IngestionRestart
  <2>4. <<>> \in Seq(EventIds)
    OBVIOUS
  <2>. QED  BY <2>1, <2>2, <2>3, <2>4 DEF RestTyped
<1>12. CASE UNCHANGED ingestionVars
  BY <1>12 DEF ingestionVars, RestTyped
<1>. QED
  BY <1>4, <1>5, <1>6, <1>7, <1>8, <1>9, <1>10, <1>11, <1>12
  DEF IngestionNext, PollStep, BackfillStep, IngestionFault

LEMMA IngestionTypesHold == IngestionInv /\ RestTyped => IngestionTypeOK
BY DEF IngestionInv, TypesHold, RestTyped, IngestionTypeOK

-----------------------------------------------------------------------------
(* What a statement counts for: the cells it adds to, or the table whose rows
   the counters run ahead of.  Every statement of a stage is written directly
   behind one of the stage before it. *)
Marks(s) ==
    IF s.does = "add" THEN s.cells
    ELSE IF s.key[1] = "bridge_events" THEN {<<"bridge_rows", s.key[4]>>}
    ELSE IF s.key[1] = "validator_signatures" THEN {<<"signature_rows", s.key[3]>>}
    ELSE {}

Stages ==
    {<<<<"hourly", c>>, <<"daily", c>>>> : c \in Chains}
    \cup {<<<<"daily", c>>, <<"all", c>>>> : c \in Chains}
    \cup {<<<<"all", c>>, <<"bridge_rows", c>>>> : c \in Chains}
    \cup {<<<<"total_blocks", v>>, <<"signature_rows", v>>>> : v \in Validators}

\* Statements that leave a row the counters run ahead of.
Counted(s) == s.does # "add" /\ s.key[1] \in {"bridge_events", "validator_signatures"}

\* The event that the row of a key belongs to.
Owns(e, key) ==
    /\ key[2] = e.height
    /\ key[1] = "bridge_events" => key[3] = e.index
    /\ key[1] = "validator_signatures" => e.index = 0

\* Two events that own one key of a kind are the same.
LEMMA OneOwner ==
    ASSUME NEW d \in EventIds, NEW e \in EventIds, NEW key,
           key[1] \in {"bridge_events", "validator_signatures"},
           Owns(d, key), Owns(e, key)
    PROVE  d = e
<1>1. d = [height |-> d.height, index |-> d.index] /\ e = [height |-> e.height, index |-> e.index]
  BY DEF EventIds, BlockEvents, Range
<1>2. d.height = e.height /\ d.index = e.index
  BY DEF Owns
<1>. QED  BY <1>1, <1>2

(* A list of statements in which each stage stands directly behind the one
   before it, and no two leave the same row, the rows of one event. *)
Ordered(list) ==
    \A pq \in Stages, i \in DOMAIN list :
        /\ pq[1] \in Marks(list[i]) => i + 1 \in DOMAIN list /\ pq[2] \in Marks(list[i + 1])
        /\ i + 1 \in DOMAIN list /\ pq[2] \in Marks(list[i + 1]) => pq[1] \in Marks(list[i])

RowsApart(list) ==
    \A i, j \in DOMAIN list :
        Counted(list[i]) /\ Counted(list[j]) /\ list[i].key = list[j].key => i = j

RowsOwned(list, e) ==
    \A i \in DOMAIN list : Counted(list[i]) => Owns(e, list[i].key)

CellsNamed(list) ==
    \A s \in Range(list) :
        s.does = "add" => \A c \in s.cells :
            c = <<c[1], c[2]>> /\ c[1] \notin {"bridge_rows", "signature_rows"}

WellFormed(list, e) ==
    Ordered(list) /\ RowsApart(list) /\ RowsOwned(list, e) /\ CellsNamed(list)

\* The stages never pair a mark with itself, and hold for every validator.
LEMMA StageMarks ==
    ASSUME NEW pq \in Stages
    PROVE  /\ pq[1][1] \in {"hourly", "daily", "all", "total_blocks"}
           /\ pq[2][1] \in {"daily", "all", "bridge_rows", "signature_rows"}
           /\ pq[1] # pq[2]
           /\ pq[1] = <<pq[1][1], pq[1][2]>> /\ pq[2] = <<pq[2][1], pq[2][2]>>
           /\ pq[1][2] = pq[2][2]
           /\ pq[1][1] = "hourly" <=> pq[2][1] = "daily"
           /\ pq[1][1] = "daily" <=> pq[2][1] = "all"
           /\ pq[1][1] = "all" <=> pq[2][1] = "bridge_rows"
           /\ pq[1][1] = "total_blocks" <=> pq[2][1] = "signature_rows"
BY DEF Stages

-----------------------------------------------------------------------------
\* Event 0 of a block reports its commit; the others are of its transactions.
LEMMA BodyOfEvent ==
    ASSUME NEW e \in EventIds
    PROVE  /\ e.height \in DOMAIN Chain
           /\ e.index \in Nat
           /\ Body(e).type \in Known \cup {"validator_uptime"}
           /\ Body(e).type = "validator_uptime"
                => e.index = 0 /\ Body(e).validators = Reported(e.height)
<1>1. PICK h \in DOMAIN Chain : \E i \in DOMAIN BlockEvents(h) : e = BlockEvents(h)[i]
  BY DEF EventIds, Range
<1>8. PICK i \in DOMAIN BlockEvents(h) : e = BlockEvents(h)[i]
  BY <1>1
<1>2. i \in DOMAIN Fetched(h) /\ e = [height |-> h, index |-> i - 1]
  BY <1>8 DEF BlockEvents
<1>3. i \in Nat \ {0}
  BY <1>2, FetchedIsList
<1>4. e.height = h /\ e.index = i - 1 /\ e.index + 1 = i
  BY <1>2, <1>3
<1>5. Body(e) = Fetched(h)[i]
  BY <1>4 DEF Body
<1>6. CASE i = 1
  <2>1. Body(e) = [type |-> "validator_uptime", validators |-> Reported(h)]
    BY <1>5, <1>6, FetchedIsList
  <2>. QED  BY <2>1, <1>1, <1>4, <1>6
<1>7. CASE i # 1
  <2>1. Body(e).type \in Known
    BY <1>2, <1>5, <1>7, FetchedIsList
  <2>. QED  BY <2>1, <1>1, <1>3, <1>4 DEF Known
<1>. QED  BY <1>6, <1>7

(* What is stated of a list of statements when it is begun. *)
Begins(list, e) ==
    /\ list # <<>> /\ \E S : list \in Seq(S)
    /\ WellFormed(list, e)
    /\ \A pq \in Stages : pq[2] \notin Marks(list[1])

LEMMA FiveInARow ==
    ASSUME NEW r, NEW s, NEW t, NEW u, NEW v
    PROVE  <<r>> \o <<s, t, u>> \o <<v>> = <<r, s, t, u, v>>
<1> DEFINE T == {r, s, t, u, v}
<1>1. <<r>> \o <<s, t, u>> = <<r, s, t, u>>
  <2>1. <<r>> \in Seq(T) /\ <<s, t, u>> \in Seq(T) /\ <<r, s, t, u>> \in Seq(T)
    OBVIOUS
  <2>2. Len(<<r>> \o <<s, t, u>>) = 4
    BY <2>1
  <2>3. \A i \in 1 .. 4 : (<<r>> \o <<s, t, u>>)[i] = <<r, s, t, u>>[i]
    BY <2>1
  <2>4. <<r>> \o <<s, t, u>> \in Seq(T)
    BY <2>1
  <2>. QED  BY <2>1, <2>2, <2>3, <2>4, SeqEqual
<1>2. <<r, s, t, u>> \o <<v>> = <<r, s, t, u, v>>
  <2>1. <<v>> \in Seq(T) /\ <<r, s, t, u, v>> \in Seq(T) /\ <<r, s, t, u>> \in Seq(T)
    OBVIOUS
  <2>2. Len(<<r, s, t, u>> \o <<v>>) = 5
    BY <2>1
  <2>3. \A i \in 1 .. 5 : (<<r, s, t, u>> \o <<v>>)[i] = <<r, s, t, u, v>>[i]
    BY <2>1
  <2>4. <<r, s, t, u>> \o <<v>> \in Seq(T)
    BY <2>1
  <2>. QED  BY <2>1, <2>2, <2>3, <2>4, SeqEqual
<1>. QED  BY <1>1, <1>2

BridgeStatements(e, c) ==
    <<Upsert(<<"bridge_pending", PendingKey(e)>>),
      Add({<<"hourly", c>>}), Add({<<"daily", c>>}), Add({<<"all", c>>}),
      InsertNew(<<"bridge_events", e.height, e.index, c>>)>>

LEMMA BridgeBegins ==
    ASSUME NEW e \in EventIds, NEW c
    PROVE  Begins(BridgeStatements(e, c), e)
<1> DEFINE list == BridgeStatements(e, c)
<1>1. DOMAIN list = 1 .. 5 /\ Len(list) = 5
  BY DEF BridgeStatements
<1>2. /\ list[1] = Upsert(<<"bridge_pending", PendingKey(e)>>)
      /\ list[2] = Add({<<"hourly", c>>}) /\ list[3] = Add({<<"daily", c>>})
      /\ list[4] = Add({<<"all", c>>})
      /\ list[5] = InsertNew(<<"bridge_events", e.height, e.index, c>>)
  BY DEF BridgeStatements
<1>12. list # <<>> /\ list \in Seq({list[1], list[2], list[3], list[4], list[5]})
  BY DEF BridgeStatements
<1> HIDE DEF list
<1>3. /\ Marks(list[1]) = {}
      /\ Marks(list[2]) = {<<"hourly", c>>} /\ Marks(list[3]) = {<<"daily", c>>}
      /\ Marks(list[4]) = {<<"all", c>>} /\ Marks(list[5]) = {<<"bridge_rows", c>>}
  BY <1>2 DEF Marks, Upsert, Add, InsertNew
<1>4. \A i \in DOMAIN list : i \in {1, 2, 3, 4, 5}
  BY <1>1
<1>5. ASSUME NEW pq \in Stages, NEW i \in DOMAIN list, pq[1] \in Marks(list[i])
      PROVE  i + 1 \in DOMAIN list /\ pq[2] \in Marks(list[i + 1])
  <2>1. i \in {2, 3, 4}
    BY <1>3, <1>4, <1>5, StageMarks
  <2>2. CASE i = 2
    BY <2>2, <1>1, <1>3, <1>5, StageMarks
  <2>3. CASE i = 3
    BY <2>3, <1>1, <1>3, <1>5, StageMarks
  <2>4. CASE i = 4
    BY <2>4, <1>1, <1>3, <1>5, StageMarks
  <2>. QED  BY <2>1, <2>2, <2>3, <2>4
<1>6. ASSUME NEW pq \in Stages, NEW i \in DOMAIN list,
             i + 1 \in DOMAIN list, pq[2] \in Marks(list[i + 1])
      PROVE  pq[1] \in Marks(list[i])
  <2>1. i \in {1, 2, 3, 4}
    BY <1>1, <1>6
  <2>2. CASE i = 1
    BY <2>2, <1>3, <1>6, StageMarks
  <2>3. CASE i = 2
    BY <2>3, <1>3, <1>6, StageMarks
  <2>4. CASE i = 3
    BY <2>4, <1>3, <1>6, StageMarks
  <2>5. CASE i = 4
    BY <2>5, <1>3, <1>6, StageMarks
  <2>. QED  BY <2>1, <2>2, <2>3, <2>4, <2>5
<1>7. Ordered(list)
  BY <1>5, <1>6 DEF Ordered
<1>8. \A i \in DOMAIN list : Counted(list[i]) => i = 5
  BY <1>2, <1>4 DEF Counted, Upsert, Add
<1>9. Owns(e, list[5].key)
  BY <1>2 DEF InsertNew, Owns
<1>10. CellsNamed(list)
  <2>1. \A i \in {2, 3, 4} : \A m \in list[i].cells :
          m = <<m[1], m[2]>> /\ m[1] \notin {"bridge_rows", "signature_rows"}
    BY <1>2 DEF Add
  <2>2. list[1].does # "add" /\ list[5].does # "add"
    BY <1>2 DEF Upsert, InsertNew
  <2>. QED  BY <1>4, <2>1, <2>2 DEF Range, CellsNamed
<1>11. WellFormed(list, e)
  BY <1>7, <1>8, <1>9, <1>10 DEF WellFormed, RowsApart, RowsOwned
<1>. QED  BY <1>3, <1>11, <1>12 DEF Begins, list

LEMMA SettlementBegins ==
    ASSUME NEW e \in EventIds, NEW w
    PROVE  Begins(<<InsertNew(<<"settlements", w>>)>>, e)
<1> DEFINE list == <<InsertNew(<<"settlements", w>>)>>
<1>1. DOMAIN list = 1 .. 1 /\ Len(list) = 1 /\ list[1] = InsertNew(<<"settlements", w>>)
  OBVIOUS
<1>5. list # <<>> /\ list \in Seq({list[1]})
  OBVIOUS
<1> HIDE DEF list
<1>2. Marks(list[1]) = {} /\ ~Counted(list[1])
  BY <1>1 DEF Marks, Counted, InsertNew
<1>3. \A i \in DOMAIN list : i = 1 /\ i + 1 \notin DOMAIN list
  BY <1>1
<1>4. \A s \in Range(list) : s.does # "add"
  BY <1>1, <1>3 DEF Range, InsertNew
<1>6. WellFormed(list, e)
  BY <1>2, <1>3, <1>4 DEF WellFormed, Ordered, RowsApart, RowsOwned, CellsNamed
<1>. QED  BY <1>2, <1>5, <1>6 DEF Begins, list

UptimeStatements(e, votes) ==
    <<InsertNew(<<"block_stats", e.height>>)>>
    \o [i \in 1 .. 2 * Len(votes) |-> Uptime(e, votes[(i + 1) \div 2])[2 - (i % 2)]]

\* The positions of the pair of vote j.
Early(j) == 2 * j
Late(j) == 2 * j + 1

\* A position behind the first is the earlier or the later one of a pair.
LEMMA PairPositions ==
    ASSUME NEW n \in Nat, NEW i \in 1 .. Early(n) + 1
    PROVE  \/ i = 1
           \/ \E j \in 1 .. n : i = Early(j)
           \/ \E j \in 1 .. n : i = Late(j)
<1>1. i = 2 * (i \div 2) + (i % 2) /\ i % 2 \in {0, 1} /\ i \div 2 \in 0 .. n
  BY DEF Early
<1>2. PICK j \in 0 .. n : j = i \div 2
  BY <1>1
<1>3. i = 2 * j \/ i = 2 * j + 1
  BY <1>1, <1>2
<1>. QED  BY <1>3 DEF Early, Late

LEMMA PairOrder ==
    ASSUME NEW n \in Nat, NEW j \in 1 .. n
    PROVE  /\ Early(j) \in 1 .. Early(n) + 1 /\ Late(j) \in 1 .. Early(n) + 1
           /\ Late(j) = Early(j) + 1 /\ Early(j) # 1 /\ Late(j) # 1
           /\ \A i \in Nat : i + 1 = Late(j) => i = Early(j)
           /\ \A k \in 1 .. n : (Late(j) = Late(k) => j = k) /\ Late(j) # Early(k)
BY DEF Early, Late

LEMMA UptimeListed ==
    ASSUME NEW S, NEW votes \in Seq(S), NEW e
    PROVE  /\ UptimeStatements(e, votes) # <<>>
           /\ \E T : UptimeStatements(e, votes) \in Seq(T)
           /\ DOMAIN UptimeStatements(e, votes) = 1 .. Early(Len(votes)) + 1
           /\ UptimeStatements(e, votes)[1] = InsertNew(<<"block_stats", e.height>>)
           /\ \A j \in 1 .. Len(votes) :
                /\ UptimeStatements(e, votes)[Early(j)] = Uptime(e, votes[j])[1]
                /\ UptimeStatements(e, votes)[Late(j)] = Uptime(e, votes[j])[2]
<1> DEFINE first == InsertNew(<<"block_stats", e.height>>)
           n == Len(votes)
           rest == [i \in 1 .. 2 * n |-> Uptime(e, votes[(i + 1) \div 2])[2 - (i % 2)]]
           values == {rest[i] : i \in 1 .. 2 * n}
<1>1. n \in Nat /\ 2 * n \in Nat
  OBVIOUS
<1>2. \A i \in 1 .. 2 * n : rest[i] = Uptime(e, votes[(i + 1) \div 2])[2 - (i % 2)]
  OBVIOUS
<1>3. rest \in Seq(values) /\ Len(rest) = 2 * n
  BY <1>1
<1>4. ASSUME NEW j \in 1 .. n
      PROVE  rest[2 * j - 1] = Uptime(e, votes[j])[1] /\ rest[2 * j] = Uptime(e, votes[j])[2]
  <2>1. /\ 2 * j - 1 \in 1 .. 2 * n /\ 2 * j \in 1 .. 2 * n
        /\ (2 * j - 1 + 1) \div 2 = j /\ (2 * j + 1) \div 2 = j
        /\ 2 - ((2 * j - 1) % 2) = 1 /\ 2 - ((2 * j) % 2) = 2
    BY <1>1
  <2>2. rest[2 * j - 1] = Uptime(e, votes[(2 * j - 1 + 1) \div 2])[2 - ((2 * j - 1) % 2)]
    BY <1>2, <2>1
  <2>3. rest[2 * j] = Uptime(e, votes[(2 * j + 1) \div 2])[2 - ((2 * j) % 2)]
    BY <1>2, <2>1
  <2>. QED  BY <2>1, <2>2, <2>3
<1>5. UptimeStatements(e, votes) = <<first>> \o rest
  BY DEF UptimeStatements
<1> HIDE DEF first, n, rest, values
<1>6. LET list == <<first>> \o rest
      IN  /\ DOMAIN list = 1 .. 2 * n + 1 /\ Len(list) = 2 * n + 1
          /\ list[1] = first
          /\ \A i \in 1 .. 2 * n : list[i + 1] = rest[i]
  BY <1>1, <1>3
<1>9. <<first>> \o rest # <<>> /\ <<first>> \o rest \in Seq({first} \cup values)
  BY <1>3
<1>7. ASSUME NEW j \in 1 .. n
      PROVE  2 * j - 1 \in 1 .. 2 * n /\ 2 * j \in 1 .. 2 * n /\ 2 * j - 1 + 1 = 2 * j
  BY <1>1
<1>8. ASSUME NEW j \in 1 .. n
      PROVE  /\ (<<first>> \o rest)[2 * j] = Uptime(e, votes[j])[1]
             /\ (<<first>> \o rest)[2 * j + 1] = Uptime(e, votes[j])[2]
  BY <1>4, <1>6, <1>7
<1>. QED  BY <1>5, <1>6, <1>8, <1>9 DEF first, n, Early, Late

LEMMA UptimeBegins ==
    ASSUME NEW e \in EventIds, e.index = 0,
           NEW S, NEW votes \in Seq(S),
           \A i, j \in DOMAIN votes : votes[i].validator = votes[j].validator => i = j
    PROVE  Begins(UptimeStatements(e, votes), e)
<1> DEFINE list == UptimeStatements(e, votes)
           n == Len(votes)
           added(j) == {<<"total_blocks", votes[j].validator>>}
                       \cup (IF votes[j].flag = "commit" THEN {}
                             ELSE {<<"missed_blocks", votes[j].validator>>})
<1>1. n \in Nat /\ DOMAIN votes = 1 .. n
  OBVIOUS
<1>0. /\ DOMAIN list = 1 .. Early(n) + 1
      /\ list[1] = InsertNew(<<"block_stats", e.height>>)
      /\ \A j \in 1 .. n : list[Early(j)] = Uptime(e, votes[j])[1]
                         /\ list[Late(j)] = Uptime(e, votes[j])[2]
  BY UptimeListed
<1>2. DOMAIN list = 1 .. Early(n) + 1
  BY <1>0
<1>3. list[1] = InsertNew(<<"block_stats", e.height>>)
  BY <1>0
<1>4. ASSUME NEW j \in 1 .. n
      PROVE  /\ list[Early(j)] = Add(added(j))
             /\ list[Late(j)]
                  = InsertNew(<<"validator_signatures", e.height, votes[j].validator>>)
  <2>1. list[Early(j)] = Uptime(e, votes[j])[1] /\ list[Late(j)] = Uptime(e, votes[j])[2]
    BY <1>0
  <2>2. Uptime(e, votes[j]) = <<Add(added(j)),
                                InsertNew(<<"validator_signatures", e.height,
                                            votes[j].validator>>)>>
    BY DEF Uptime
  <2>. QED  BY <2>1, <2>2
<1> HIDE DEF list, added
<1>5. Marks(list[1]) = {} /\ ~Counted(list[1])
  BY <1>3 DEF Marks, Counted, InsertNew
<1>6. ASSUME NEW j \in 1 .. n
      PROVE  /\ Marks(list[Early(j)]) = added(j) /\ ~Counted(list[Early(j)])
             /\ Marks(list[Late(j)]) = {<<"signature_rows", votes[j].validator>>}
             /\ list[Late(j)].key
                  = <<"validator_signatures", e.height, votes[j].validator>>
  <2> DEFINE key == <<"validator_signatures", e.height, votes[j].validator>>
  <2>6. list[Early(j)] = Add(added(j)) /\ list[Late(j)] = InsertNew(key)
    BY <1>4
  <2>1. list[Early(j)].does = "add" /\ list[Early(j)].cells = added(j)
    BY <2>6 DEF Add
  <2>2. list[Late(j)].does = "insert" /\ list[Late(j)].key = key
    BY <2>6 DEF InsertNew
  <2>3. key[1] = "validator_signatures" /\ key[3] = votes[j].validator
    OBVIOUS
  <2>4. Marks(list[Early(j)]) = added(j) /\ ~Counted(list[Early(j)])
    BY <2>1 DEF Marks, Counted
  <2>5. Marks(list[Late(j)]) = {<<"signature_rows", votes[j].validator>>}
    BY <2>2, <2>3 DEF Marks
  <2>. QED  BY <2>2, <2>4, <2>5
<1>7. ASSUME NEW pq \in Stages, NEW j \in 1 .. n
      PROVE  /\ pq[1] \in added(j) <=> pq[2] = <<"signature_rows", votes[j].validator>>
             /\ pq[2] \notin added(j)
             /\ pq[1] # <<"signature_rows", votes[j].validator>>
  <2> DEFINE v == votes[j].validator
  <2>1. added(j) \subseteq {<<"total_blocks", v>>, <<"missed_blocks", v>>}
        /\ <<"total_blocks", v>> \in added(j)
    BY DEF added
  <2>2. pq[1] \in added(j) <=> pq[1][1] = "total_blocks" /\ pq[1][2] = v
    <3>1. CASE pq[1] \in added(j)
      <4>1. pq[1] = <<"total_blocks", v>> \/ pq[1] = <<"missed_blocks", v>>
        BY <2>1, <3>1
      <4>. QED  BY <3>1, <4>1, StageMarks
    <3>2. CASE pq[1][1] = "total_blocks" /\ pq[1][2] = v
      BY <2>1, <3>2, StageMarks
    <3>. QED  BY <3>1, <3>2
  <2>3. pq[2] = <<"signature_rows", v>> <=> pq[2][1] = "signature_rows" /\ pq[2][2] = v
    BY StageMarks
  <2>4. pq[2] \notin added(j)
    <3>1. pq[2] # <<"total_blocks", v>> /\ pq[2] # <<"missed_blocks", v>>
      BY StageMarks
    <3>. QED  BY <2>1, <3>1
  <2>5. pq[1] # <<"signature_rows", v>>
    BY StageMarks
  <2>. QED  BY <2>2, <2>3, <2>4, <2>5, StageMarks
<1>8. ASSUME NEW j \in 1 .. n
      PROVE  /\ Late(j) \in DOMAIN list /\ Early(j) \in DOMAIN list
             /\ \A i \in DOMAIN list : i + 1 = Late(j) => i = Early(j)
  <2>1. \A i \in DOMAIN list : i \in Nat
    BY <1>2
  <2>. QED  BY <1>1, <1>2, <2>1, PairOrder
<1>9. ASSUME NEW i \in DOMAIN list
      PROVE  \/ i = 1
             \/ \E j \in 1 .. n : i = Early(j)
             \/ \E j \in 1 .. n : i = Late(j)
  <2>1. i \in 1 .. Early(n) + 1
    BY <1>2
  <2>. QED  BY <1>1, <2>1, PairPositions
<1>10. ASSUME NEW pq \in Stages, NEW i \in DOMAIN list, pq[1] \in Marks(list[i])
       PROVE  i + 1 \in DOMAIN list /\ pq[2] \in Marks(list[i + 1])
  <2>1. PICK j \in 1 .. n : i = Early(j) \/ i = Late(j)
    BY <1>5, <1>9, <1>10
  <2>2. i = Early(j)
    <3>1. ASSUME i = Late(j) PROVE FALSE
      <4>1. pq[1] = <<"signature_rows", votes[j].validator>>
        BY <1>6, <1>10, <3>1
      <4>. QED  BY <1>7, <4>1
    <3>. QED  BY <2>1, <3>1
  <2>3. Late(j) = i + 1 /\ Late(j) \in DOMAIN list
    BY <1>1, <1>8, <2>2, PairOrder
  <2>4. pq[2] = <<"signature_rows", votes[j].validator>>
    BY <1>6, <1>7, <1>10, <2>2
  <2>. QED  BY <1>6, <2>3, <2>4
<1>11. ASSUME NEW pq \in Stages, NEW i \in DOMAIN list,
              i + 1 \in DOMAIN list, pq[2] \in Marks(list[i + 1])
       PROVE  pq[1] \in Marks(list[i])
  <2>1. i + 1 # 1
    BY <1>2
  <2>2. PICK j \in 1 .. n : i + 1 = Early(j) \/ i + 1 = Late(j)
    BY <1>9, <1>11, <2>1
  <2>3. i + 1 = Late(j)
    <3>1. CASE i + 1 = Early(j)
      <4>1. pq[2] \in Marks(list[Early(j)])
        BY <1>11, <3>1
      <4>. QED  BY <1>6, <1>7, <4>1
    <3>. QED  BY <2>2, <3>1
  <2>4. pq[2] \in Marks(list[Late(j)])
    BY <1>11, <2>3
  <2>. QED  BY <1>6, <1>7, <1>8, <2>3, <2>4
<1>12. Ordered(list)
  BY <1>10, <1>11 DEF Ordered
<1>13. ASSUME NEW i \in DOMAIN list, Counted(list[i])
       PROVE  \E j \in 1 .. n :
                /\ i = Late(j)
                /\ list[i].key = <<"validator_signatures", e.height, votes[j].validator>>
  BY <1>5, <1>6, <1>9, <1>13
<1>14. RowsApart(list)
  <2> SUFFICES ASSUME NEW i \in DOMAIN list, NEW k \in DOMAIN list,
                      Counted(list[i]), Counted(list[k]), list[i].key = list[k].key
               PROVE  i = k
    BY DEF RowsApart
  <2>1. PICK j \in 1 .. n :
          /\ i = Late(j)
          /\ list[i].key = <<"validator_signatures", e.height, votes[j].validator>>
    BY <1>13
  <2>2. PICK l \in 1 .. n :
          /\ k = Late(l)
          /\ list[k].key = <<"validator_signatures", e.height, votes[l].validator>>
    BY <1>13
  <2>3. votes[j].validator = votes[l].validator
    BY <2>1, <2>2
  <2>. QED  BY <1>1, <2>1, <2>2, <2>3
<1>15. RowsOwned(list, e)
  BY <1>13 DEF RowsOwned, Owns
<1>16. ASSUME NEW s \in Range(list), s.does = "add"
       PROVE  \A c \in s.cells :
                c = <<c[1], c[2]>> /\ c[1] \notin {"bridge_rows", "signature_rows"}
  <2>1. PICK i \in DOMAIN list : s = list[i]
    BY DEF Range
  <2>2. i # 1 /\ \A j \in 1 .. n : i # Late(j)
    <3>1. list[1].does = "insert"
      BY <1>3 DEF InsertNew
    <3>2. ASSUME NEW j \in 1 .. n PROVE list[Late(j)].does = "insert"
      <4>1. list[Late(j)] = InsertNew(<<"validator_signatures", e.height, votes[j].validator>>)
        BY <1>4
      <4>. QED  BY <4>1 DEF InsertNew
    <3>. QED  BY <1>16, <2>1, <3>1, <3>2
  <2>3. PICK j \in 1 .. n : s = Add(added(j))
    BY <1>4, <1>9, <2>1, <2>2
  <2>. QED  BY <2>3 DEF Add, added
<1>17. list # <<>> /\ \E T : list \in Seq(T)
  BY UptimeListed DEF list
<1>. QED  BY <1>5, <1>12, <1>14, <1>15, <1>16, <1>17 DEF Begins, WellFormed, CellsNamed, list

\* projectEvent begins each event's statements well formed.
LEMMA StatementsBegin ==
    ASSUME NEW e \in EventIds
    PROVE  Begins(Statements(e), e)
<1>1. CASE Body(e).type = "MsgBridgeIn"
  <2>1. Statements(e) = BridgeStatements(e, "sovereign")
    BY <1>1, FiveInARow DEF Statements, UpdateBridgeVolume, BridgeStatements
  <2>. QED  BY <2>1, BridgeBegins
<1>2. CASE Body(e).type = "MsgBridgeOut"
  <2>1. Statements(e) = BridgeStatements(e, "bsc")
    BY <1>2, FiveInARow DEF Statements, UpdateBridgeVolume, BridgeStatements
  <2>. QED  BY <2>1, BridgeBegins
<1>3. CASE Body(e).type = "settlement_executed"
  <2>1. Statements(e) = <<InsertNew(<<"settlements", Body(e).witness>>)>>
    BY <1>3 DEF Statements
  <2>. QED  BY <2>1, SettlementBegins
<1>4. CASE Body(e).type = "validator_uptime"
  <2>1. Statements(e) = UptimeStatements(e, Reported(e.height)) /\ e.index = 0
    BY <1>4, BodyOfEvent DEF Statements, UptimeStatements
  <2>2. /\ Reported(e.height) \in Seq(Range(Reported(e.height)))
        /\ \A i, j \in DOMAIN Reported(e.height) :
             Reported(e.height)[i].validator = Reported(e.height)[j].validator => i = j
    BY BodyOfEvent, BlocksAreLists
  <2>. QED  BY <2>1, <2>2, UptimeBegins
<1>. QED  BY <1>1, <1>2, <1>3, <1>4, BodyOfEvent DEF Known

-----------------------------------------------------------------------------
(* The state of the service.  A row is written once; until a message comes
   twice the messages come in the order of the stream. *)
ServiceTyped ==
    /\ counters \in [Cells -> Nat]
    /\ IsFiniteSet(DOMAIN tables)
    /\ Range(tables) \subseteq EventIds
    /\ cursor \in 1 .. Len(stream) + 1
    /\ redeliver \subseteq 1 .. cursor - 1
    /\ msg \in 0 .. cursor - 1
    /\ redelivered \in BOOLEAN
    /\ ~redelivered => redeliver = {} /\ (msg # 0 => msg = cursor - 1)

ScriptInHand ==
    /\ \E S : script \in Seq(S)
    /\ script # <<>> => msg # 0 /\ WellFormed(script, stream[msg])

Once == ~redelivered /\ IsInjective(stream)

RowsTraced ==
    /\ \A k \in DOMAIN tables :
         /\ k[1] \in {"bridge_events", "validator_signatures"} => Owns(tables[k], k)
         /\ ~redelivered => \E j \in 1 .. cursor - 1 : tables[k] = stream[j]
    /\ Once => \A i \in DOMAIN script :
                 Counted(script[i]) => script[i].key \notin DOMAIN tables

(* How often a mark has been made, and whether the statement that makes it is the
   next one: then the one before it has been counted already. *)
Level(m) ==
    IF m[1] = "bridge_rows" THEN Cardinality(BridgeRows(m[2]))
    ELSE IF m[1] = "signature_rows" THEN Cardinality(SignatureRows(m[2]))
    ELSE counters[m]

At(m, s) == IF m \in Marks(s) THEN 1 ELSE 0

Due(m) == IF script = <<>> THEN 0 ELSE At(m, Head(script))

Balanced ==
    \A pq \in Stages :
        /\ Level(pq[1]) >= Level(pq[2]) + Due(pq[2])
        /\ Once => Level(pq[1]) = Level(pq[2]) + Due(pq[2])

ReadInv ==
    /\ IngestionInv /\ RestTyped
    /\ ServiceTyped /\ ScriptInHand /\ RowsTraced /\ Balanced

-----------------------------------------------------------------------------
\* Every cell is a pair, and every stage begins with one.
LEMMA CellsArePairs == \A c \in Cells : c = <<c[1], c[2]>>
<1> SUFFICES ASSUME NEW c \in Cells PROVE c = <<c[1], c[2]>>
  OBVIOUS
<1>1. CASE c \in {"hourly", "daily", "all"} \X Chains
  BY <1>1
<1>2. CASE c \notin {"hourly", "daily", "all"} \X Chains
  <2>1. PICK e \in EventIds :
          \E s \in Range(Statements(e)) : s.does = "add" /\ c \in s.cells
    BY <1>2 DEF Cells
  <2>2. PICK s \in Range(Statements(e)) : s.does = "add" /\ c \in s.cells
    BY <2>1
  <2>. QED  BY <2>2, StatementsBegin DEF Begins, WellFormed, CellsNamed
<1>. QED  BY <1>1, <1>2

LEMMA StageCells ==
    ASSUME NEW pq \in Stages
    PROVE  /\ pq[1] \in Cells
           /\ pq[2] \in Cells \/ pq[2][1] \in {"bridge_rows", "signature_rows"}
<1>1. ASSUME NEW v \in Validators PROVE <<"total_blocks", v>> \in Cells
  <2>1. PICK c \in Cells : c[1] = "total_blocks" /\ v = c[2]
    BY DEF Validators
  <2>. QED  BY <2>1, CellsArePairs
<1>2. \A t \in {"hourly", "daily", "all"}, c \in Chains : <<t, c>> \in Cells
  BY DEF Cells
<1>. QED  BY <1>1, <1>2 DEF Stages

LEMMA RowsFinite ==
    ASSUME ServiceTyped, NEW x
    PROVE  /\ IsFiniteSet(BridgeRows(x)) /\ Cardinality(BridgeRows(x)) \in Nat
           /\ IsFiniteSet(SignatureRows(x)) /\ Cardinality(SignatureRows(x)) \in Nat
<1>1. BridgeRows(x) \subseteq DOMAIN tables /\ SignatureRows(x) \subseteq DOMAIN tables
  BY DEF BridgeRows, SignatureRows, RowsOf
<1>. QED  BY <1>1, FS_Subset, FS_CardinalityType DEF ServiceTyped

LEMMA LevelType ==
    ASSUME ServiceTyped, NEW pq \in Stages
    PROVE  Level(pq[1]) \in Nat /\ Level(pq[2]) \in Nat
<1>1. counters \in [Cells -> Nat]
  BY DEF ServiceTyped
<1>2. pq[1][1] \notin {"bridge_rows", "signature_rows"}
  BY StageMarks
<1>3. Level(pq[1]) \in Nat
  BY <1>1, <1>2, StageCells DEF Level
<1>4. Level(pq[2]) \in Nat
  BY <1>1, RowsFinite, StageCells DEF Level
<1>. QED  BY <1>3, <1>4

LEMMA DueType == \A m : Due(m) \in {0, 1}
BY DEF Due, At

\* What RowsAfter leaves.
LEMMA RowsAfterIs ==
    ASSUME NEW s, NEW e
    PROVE  /\ s.does = "add" => RowsAfter(s, e) = tables
           /\ s.does # "add" => DOMAIN RowsAfter(s, e) = DOMAIN tables \cup {s.key}
           /\ \A k \in DOMAIN tables : RowsAfter(s, e)[k] = tables[k]
           /\ s.does # "add" /\ s.key \notin DOMAIN tables => RowsAfter(s, e)[s.key] = e
BY DEF RowsAfter

-----------------------------------------------------------------------------
\* Positions below a cursor.
LEMMA BelowCursor ==
    ASSUME NEW c \in Nat, NEW d \in Nat, NEW i \in 1 .. c - 1
    PROVE  /\ i \in 0 .. c - 1
           /\ c <= d + 1 => i \in 1 .. d
           /\ c <= d => i \in 1 .. d - 1
OBVIOUS

LEMMA ReadInvInit == ReadInit => ReadInv
<1> SUFFICES ASSUME ReadInit PROVE ReadInv
  OBVIOUS
<1>1. IngestionInv /\ RestTyped
  BY IngestionInvInit, RestTypedInit DEF ReadInit
<1>2. stream = <<>> /\ tables = <<>> /\ script = <<>>
      /\ counters = [c \in Cells |-> 0] /\ cursor = 1 /\ msg = 0 /\ redeliver = {}
      /\ redelivered = FALSE
  BY DEF ReadInit, IngestionInit, ProjectionInit
<1>3. DOMAIN tables = {}
  BY <1>2
<1>4. ServiceTyped
  <2>1. IsFiniteSet(DOMAIN tables) /\ Range(tables) = {}
    BY <1>3, FS_EmptySet DEF Range
  <2>2. counters \in [Cells -> Nat]
    BY <1>2
  <2>3. Len(stream) = 0
    BY <1>2
  <2>5. cursor = 1 /\ msg = 0 /\ redeliver = {}
    BY <1>2
  <2>6. redelivered \in BOOLEAN
    BY <1>2
  <2>4. cursor \in 1 .. Len(stream) + 1 /\ msg \in 0 .. cursor - 1
    BY <2>3, <2>5
  <2>. QED  BY <2>1, <2>2, <2>4, <2>5, <2>6 DEF ServiceTyped
<1>5. ScriptInHand
  <2>1. script \in Seq({})
    BY <1>2
  <2>. QED  BY <1>2, <2>1 DEF ScriptInHand
<1>6. RowsTraced
  BY <1>2, <1>3 DEF RowsTraced
<1>7. Balanced
  <2> SUFFICES ASSUME NEW pq \in Stages
               PROVE  Level(pq[1]) = 0 /\ Level(pq[2]) = 0 /\ Due(pq[2]) = 0
    BY DEF Balanced
  <2>1. \A x : BridgeRows(x) = {} /\ SignatureRows(x) = {}
    BY <1>3 DEF BridgeRows, SignatureRows, RowsOf
  <2>2. Cardinality({}) = 0
    BY FS_EmptySet
  <2>3. pq[1][1] \notin {"bridge_rows", "signature_rows"}
    BY StageMarks
  <2>. QED  BY <1>2, <2>1, <2>2, <2>3, StageCells DEF Level, Due
<1>. QED  BY <1>1, <1>4, <1>5, <1>6, <1>7 DEF ReadInv

-----------------------------------------------------------------------------
(* A step of ingestion adds at most one message at the end of the stream. *)
LEMMA StreamGrows ==
    ASSUME IngestionInv, RestTyped, [IngestionNext]_ingestionVars
    PROVE  /\ Len(stream') >= Len(stream) /\ DOMAIN stream \subseteq DOMAIN stream'
           /\ \A i \in DOMAIN stream : stream'[i] = stream[i]
<1>1. stream' = stream \/ \E e \in EventIds : stream' = Append(stream, e)
  <2>1. /\ step # "idle" => Head(todo) \in EventIds
        /\ batch # <<>> => Head(batch) \in EventIds
    BY DEF IngestionInv, TypesHold, BlockInHand, RestTyped
  <2>. QED
    BY <2>1
    DEF IngestionNext, PollStep, BackfillStep, IngestionFault, ingestionVars, NewBlock,
        FetchBlock, SaveEvent, PublishEvent, MarkEvent, BackfillQuery, BackfillPublish,
        BackfillMark, SaveFails, PublishFails, MarkFails, BackfillPublishFails,
        BackfillMarkFails, IngestionRestart
<1>2. stream \in Seq(EventIds)
  BY DEF RestTyped
<1>. QED  BY <1>1, <1>2

(* Messages that were injective before the stream grew are so after it. *)
LEMMA IngestionKeeps ==
    ASSUME ReadInv, [IngestionNext]_ingestionVars, UNCHANGED projectionVars
    PROVE  ReadInv'
<1>1. IngestionInv' /\ RestTyped'
  BY IngestionInvStep, RestTypedStep DEF ReadInv
<1>2. /\ stream \in Seq(EventIds) /\ stream' \in Seq(EventIds)
      /\ Len(stream') >= Len(stream) /\ DOMAIN stream \subseteq DOMAIN stream'
      /\ \A i \in DOMAIN stream : stream'[i] = stream[i]
  BY <1>1, StreamGrows DEF ReadInv, RestTyped
<1>3. UNCHANGED <<counters, tables, cursor, redeliver, msg, script, redelivered>>
  BY DEF projectionVars
<1>4. ServiceTyped'
  BY <1>2, <1>3 DEF ReadInv, ServiceTyped
<1>5. \A j \in 1 .. cursor - 1 : j \in DOMAIN stream /\ stream'[j] = stream[j]
  BY <1>2 DEF ReadInv, ServiceTyped
<1>6. msg # 0 => stream'[msg] = stream[msg]
  BY <1>5 DEF ReadInv, ServiceTyped
<1>7. ScriptInHand'
  BY <1>3, <1>6 DEF ReadInv, ScriptInHand
<1>8. Once' => Once
  BY <1>2, <1>3 DEF Once, IsInjective
<1>9. RowsTraced'
  BY <1>3, <1>5, <1>8 DEF ReadInv, RowsTraced
<1>10. \A m : Level(m)' = Level(m) /\ Due(m)' = Due(m)
  BY <1>3 DEF Level, Due, At, BridgeRows, SignatureRows, RowsOf
<1>11. Balanced'
  BY <1>8, <1>10 DEF ReadInv, Balanced
<1>. QED  BY <1>1, <1>4, <1>7, <1>9, <1>11 DEF ReadInv

(* A message comes: its first statement follows no stage, and the first time it
   comes it has left no row. *)
LEMMA DeliverKeeps ==
    ASSUME ReadInv, UNCHANGED ingestionVars, DeliverNext \/ Redeliver
    PROVE  ReadInv'
<1>1. IngestionInv' /\ RestTyped'
  BY IngestionInvStep, RestTypedStep DEF ReadInv
<1>2. stream' = stream /\ stream \in Seq(EventIds) /\ Len(stream) \in Nat
  BY DEF ReadInv, RestTyped, ingestionVars
<1>3. PICK i \in 1 .. cursor' - 1 :
        /\ msg' = i /\ script' = Statements(stream[i])
        /\ ~redelivered => i = cursor /\ cursor' = cursor + 1 /\ redeliver' = {}
        /\ redeliver' \subseteq redeliver
        /\ cursor' \in 1 .. Len(stream) + 1 /\ cursor <= cursor'
        /\ msg = 0 /\ UNCHANGED <<counters, tables, redelivered>>
  <2>1. CASE DeliverNext
    BY <1>2, <2>1 DEF DeliverNext, Deliver, ReadInv, ServiceTyped
  <2>2. CASE Redeliver
    BY <1>2, <2>2 DEF Redeliver, Deliver, ReadInv, ServiceTyped
  <2>. QED  BY <2>1, <2>2
<1>4. i \in DOMAIN stream /\ stream[i] \in EventIds
  <2>1. PICK n \in Nat, c \in Nat : n = Len(stream) /\ c = cursor' /\ c <= n + 1
    BY <1>2, <1>3
  <2>2. i \in 1 .. c - 1
    BY <1>3, <2>1
  <2>3. i \in 1 .. n
    BY <2>1, <2>2, BelowCursor
  <2>. QED  BY <1>2, <2>1, <2>3
<1>5. Begins(script', stream[i])
  BY <1>3, <1>4, StatementsBegin
<1>6. cursor \in Nat /\ cursor' \in Nat
  BY <1>2, <1>3 DEF ReadInv, ServiceTyped
<1>9. /\ \A j \in 1 .. cursor - 1 : j \in 1 .. cursor' - 1
      /\ \A j \in 1 .. cursor' - 1 : j \in 0 .. cursor' - 1
  <2>1. PICK c \in Nat, d \in Nat : c = cursor /\ d = cursor' /\ c <= d
    BY <1>3, <1>6
  <2>2. /\ \A j \in 1 .. c - 1 : j \in 1 .. d - 1
        /\ \A j \in 1 .. d - 1 : j \in 0 .. d - 1
    BY <2>1, BelowCursor
  <2>. QED  BY <2>1, <2>2
<1>7. ServiceTyped'
  <2>1. redeliver' \subseteq 1 .. cursor' - 1 /\ msg' \in 0 .. cursor' - 1
    <3>1. redeliver' \subseteq 1 .. cursor - 1
      BY <1>3 DEF ReadInv, ServiceTyped
    <3>. QED  BY <1>3, <1>9, <3>1
  <2>2. ~redelivered' => redeliver' = {} /\ msg' = cursor' - 1
    BY <1>3, <1>6
  <2>. QED  BY <1>2, <1>3, <2>1, <2>2 DEF ReadInv, ServiceTyped
<1>8. ScriptInHand'
  <2>1. msg' # 0 /\ stream'[msg'] = stream[i]
    BY <1>2, <1>3, <1>6
  <2>. QED  BY <1>5, <2>1 DEF ScriptInHand, Begins
<1>12. Once' => Once
  BY <1>2, <1>3 DEF Once
<1>10. RowsTraced'
  <2>1. ASSUME NEW k \in DOMAIN tables
        PROVE  /\ k[1] \in {"bridge_events", "validator_signatures"} => Owns(tables[k], k)
               /\ ~redelivered => \E j \in 1 .. cursor' - 1 : tables[k] = stream[j]
    BY <1>9 DEF ReadInv, RowsTraced
  <2>2. ASSUME Once, NEW n \in DOMAIN script', Counted(script'[n]),
               script'[n].key \in DOMAIN tables
        PROVE  FALSE
    <3> DEFINE key == script'[n].key
    <3>1. Owns(stream[i], key)
      BY <1>5, <2>2 DEF Begins, WellFormed, RowsOwned
    <3>2. key[1] \in {"bridge_events", "validator_signatures"}
      BY <2>2 DEF Counted
    <3>3. Owns(tables[key], key) /\ tables[key] \in EventIds
      BY <2>2, <3>2 DEF ReadInv, RowsTraced, ServiceTyped, Range
    <3>4. tables[key] = stream[i]
      BY <1>4, <3>1, <3>2, <3>3, OneOwner
    <3>5. PICK j \in 1 .. cursor - 1 : tables[key] = stream[j]
      BY <2>2 DEF ReadInv, RowsTraced, Once
    <3>6. i = cursor /\ j # i /\ j \in DOMAIN stream
      BY <1>2, <1>3, <1>6, <2>2 DEF Once, ReadInv, ServiceTyped
    <3>. QED  BY <1>4, <2>2, <3>4, <3>5, <3>6 DEF Once, IsInjective
  <2>. QED  BY <1>2, <1>3, <1>12, <2>1, <2>2 DEF RowsTraced
<1>11. Balanced'
  <2>1. script = <<>>
    BY <1>3 DEF ReadInv, ScriptInHand
  <2>2. \A pq \in Stages : Due(pq[2]) = 0 /\ Due(pq[2])' = 0
    BY <1>5, <2>1 DEF Due, At, Begins
  <2>3. \A m : Level(m)' = Level(m)
    BY <1>3 DEF Level, BridgeRows, SignatureRows, RowsOf
  <2>. QED  BY <1>12, <2>2, <2>3 DEF ReadInv, Balanced
<1>. QED  BY <1>1, <1>7, <1>8, <1>10, <1>11 DEF ReadInv

\* A set of rows that gains a key or not.
LEMMA OneMore ==
    ASSUME NEW rows, IsFiniteSet(rows), NEW key, NEW fits \in BOOLEAN
    PROVE  LET more == IF fits THEN rows \cup {key} ELSE rows
               one == IF fits THEN 1 ELSE 0
           IN  /\ Cardinality(more) \in Nat
               /\ Cardinality(more) <= Cardinality(rows) + one
               /\ (fits => key \notin rows) => Cardinality(more) = Cardinality(rows) + one
<1>1. Cardinality(rows) \in Nat
  BY FS_CardinalityType
<1>2. PICK n \in Nat : n = Cardinality(rows)
  BY <1>1
<1>3. CASE fits
  <2>1. Cardinality(rows \cup {key}) = IF key \in rows THEN n ELSE n + 1
    BY <1>2, FS_AddElement
  <2>. QED  BY <1>2, <1>3, <2>1
<1>4. CASE ~fits
  BY <1>2, <1>4
<1>. QED  BY <1>3, <1>4

(* A statement counts as one of its own marks and of no other. *)
LEMMA LevelMoves ==
    ASSUME ReadInv, script # <<>>,
           tables' = RowsAfter(Head(script), stream[msg]),
           counters' = CountersAfter(Head(script)),
           NEW pq \in Stages
    PROVE  /\ Level(pq[1])' = Level(pq[1]) + At(pq[1], Head(script))
           /\ Level(pq[2])' <= Level(pq[2]) + At(pq[2], Head(script))
           /\ (Counted(Head(script)) => Head(script).key \notin DOMAIN tables)
                => Level(pq[2])' = Level(pq[2]) + At(pq[2], Head(script))
           /\ Level(pq[2])' \in Nat
<1> DEFINE s == Head(script)
<1>1. counters \in [Cells -> Nat] /\ ServiceTyped
  BY DEF ReadInv, ServiceTyped
<1>2. ASSUME NEW m \in Cells, m[1] \notin {"bridge_rows", "signature_rows"}
      PROVE  Level(m)' = Level(m) + At(m, s) /\ Level(m)' \in Nat
  <2>1. Level(m)' = counters'[m] /\ Level(m) = counters[m] /\ counters[m] \in Nat
    BY <1>1, <1>2 DEF Level
  <2>2. CASE s.does = "add"
    BY <1>1, <2>1, <2>2 DEF CountersAfter, At, Marks
  <2>3. CASE s.does # "add"
    BY <1>1, <1>2, <2>1, <2>3 DEF CountersAfter, At, Marks
  <2>. QED  BY <2>2, <2>3
<1>4. s \in Range(script) /\ (s.does = "add" => \A c \in s.cells :
                                c[1] \notin {"bridge_rows", "signature_rows"})
  BY DEF ReadInv, ScriptInHand, WellFormed, CellsNamed, Range
<1>5. ASSUME NEW x
      PROVE  /\ BridgeRows(x)' = IF <<"bridge_rows", x>> \in Marks(s)
                                 THEN BridgeRows(x) \cup {s.key} ELSE BridgeRows(x)
             /\ SignatureRows(x)' = IF <<"signature_rows", x>> \in Marks(s)
                                    THEN SignatureRows(x) \cup {s.key} ELSE SignatureRows(x)
  <2>1. CASE s.does = "add"
    <3>1. tables' = tables
      BY <2>1, RowsAfterIs
    <3>2. <<"bridge_rows", x>> \notin Marks(s) /\ <<"signature_rows", x>> \notin Marks(s)
      BY <1>4, <2>1 DEF Marks
    <3>. QED  BY <3>1, <3>2 DEF BridgeRows, SignatureRows, RowsOf
  <2>2. CASE s.does # "add"
    <3>1. DOMAIN tables' = DOMAIN tables \cup {s.key}
      BY <2>2, RowsAfterIs
    <3>2. /\ <<"bridge_rows", x>> \in Marks(s)
               <=> s.key[1] = "bridge_events" /\ s.key[4] = x
          /\ <<"signature_rows", x>> \in Marks(s)
               <=> s.key[1] = "validator_signatures" /\ s.key[3] = x
      BY <2>2 DEF Marks
    <3>. QED  BY <3>1, <3>2 DEF BridgeRows, SignatureRows, RowsOf
  <2>. QED  BY <2>1, <2>2
<1>6. ASSUME NEW x
      PROVE  /\ s.key \in BridgeRows(x) \/ s.key \in SignatureRows(x) => s.key \in DOMAIN tables
             /\ <<"bridge_rows", x>> \in Marks(s) \/ <<"signature_rows", x>> \in Marks(s)
                  => Counted(s)
  <2>1. s.key \in BridgeRows(x) \/ s.key \in SignatureRows(x) => s.key \in DOMAIN tables
    BY DEF BridgeRows, SignatureRows, RowsOf
  <2>. QED  BY <1>4, <2>1 DEF Marks, Counted
<1>7. CASE pq[2][1] \notin {"bridge_rows", "signature_rows"}
  BY <1>2, <1>7, StageCells, StageMarks, LevelType, <1>1 DEF At
<1>8. CASE pq[2][1] = "bridge_rows"
  <2> DEFINE x == pq[2][2]
  <2>1. pq[2] = <<"bridge_rows", x>>
    BY <1>8, StageMarks
  <2>2. Level(pq[2]) = Cardinality(BridgeRows(x)) /\ Level(pq[2])' = Cardinality(BridgeRows(x)')
    BY <1>8 DEF Level
  <2>3. IsFiniteSet(BridgeRows(x))
    BY <1>1, RowsFinite
  <2> DEFINE fits == <<"bridge_rows", x>> \in Marks(s)
             more == IF fits THEN BridgeRows(x) \cup {s.key} ELSE BridgeRows(x)
             one == IF fits THEN 1 ELSE 0
  <2>4. BridgeRows(x)' = more
    BY <1>5
  <2>5. fits => Counted(s) /\ (s.key \in BridgeRows(x) => s.key \in DOMAIN tables)
    BY <1>6
  <2>6. /\ Cardinality(more) \in Nat
        /\ Cardinality(more) <= Cardinality(BridgeRows(x)) + one
        /\ (fits => s.key \notin BridgeRows(x))
              => Cardinality(more) = Cardinality(BridgeRows(x)) + one
    BY <2>3, OneMore
  <2>7. one = At(pq[2], s)
    BY <2>1 DEF At
  <2>8. Level(pq[1])' = Level(pq[1]) + At(pq[1], s)
    BY <1>2, StageCells, StageMarks
  <2>. HIDE DEF x, fits, more, one
  <2>. QED  BY <2>2, <2>4, <2>5, <2>6, <2>7, <2>8
<1>9. CASE pq[2][1] = "signature_rows"
  <2> DEFINE x == pq[2][2]
  <2>1. pq[2] = <<"signature_rows", x>>
    BY <1>9, StageMarks
  <2>2. Level(pq[2]) = Cardinality(SignatureRows(x))
        /\ Level(pq[2])' = Cardinality(SignatureRows(x)')
    BY <1>9 DEF Level
  <2>3. IsFiniteSet(SignatureRows(x))
    BY <1>1, RowsFinite
  <2> DEFINE fits == <<"signature_rows", x>> \in Marks(s)
             more == IF fits THEN SignatureRows(x) \cup {s.key} ELSE SignatureRows(x)
             one == IF fits THEN 1 ELSE 0
  <2>4. SignatureRows(x)' = more
    BY <1>5
  <2>5. fits => Counted(s) /\ (s.key \in SignatureRows(x) => s.key \in DOMAIN tables)
    BY <1>6
  <2>6. /\ Cardinality(more) \in Nat
        /\ Cardinality(more) <= Cardinality(SignatureRows(x)) + one
        /\ (fits => s.key \notin SignatureRows(x))
              => Cardinality(more) = Cardinality(SignatureRows(x)) + one
    BY <2>3, OneMore
  <2>7. one = At(pq[2], s)
    BY <2>1 DEF At
  <2>8. Level(pq[1])' = Level(pq[1]) + At(pq[1], s)
    BY <1>2, StageCells, StageMarks
  <2>. HIDE DEF x, fits, more, one
  <2>. QED  BY <2>2, <2>4, <2>5, <2>6, <2>7, <2>8
<1>. QED  BY <1>7, <1>8, <1>9

LEMMA TailFacts ==
    ASSUME NEW S, NEW list \in Seq(S), list # <<>>
    PROVE  /\ Tail(list) \in Seq(S)
           /\ \A i \in DOMAIN Tail(list) :
                i \in Nat /\ i + 1 \in DOMAIN list /\ Tail(list)[i] = list[i + 1]
           /\ 1 \in DOMAIN list /\ Head(list) = list[1]
           /\ Tail(list) = <<>> <=> 2 \notin DOMAIN list
           /\ Tail(list) # <<>> => Head(Tail(list)) = list[2]
<1>1. /\ Tail(list) \in Seq(S) /\ Len(Tail(list)) = Len(list) - 1
      /\ Len(list) \in Nat /\ Len(list) # 0
      /\ DOMAIN list = 1 .. Len(list) /\ DOMAIN Tail(list) = 1 .. Len(list) - 1
      /\ \A i \in 1 .. Len(list) - 1 : Tail(list)[i] = list[i + 1]
  OBVIOUS
<1>2. PICK n \in Nat \ {0} : n = Len(list)
  BY <1>1
<1>3. \A i \in 1 .. n - 1 : i \in Nat /\ i + 1 \in 1 .. n
  OBVIOUS
<1>4. 1 \in 1 .. n /\ (2 \notin 1 .. n <=> n - 1 = 0) /\ (n - 1 # 0 => 1 \in 1 .. n - 1)
  OBVIOUS
<1>5. Tail(list) = <<>> <=> n - 1 = 0
  <2>1. \A t \in Seq(S) : t = <<>> <=> Len(t) = 0
    OBVIOUS
  <2>2. Tail(list) = <<>> <=> Len(Tail(list)) = 0
    BY <1>1, <2>1
  <2>. QED  BY <1>1, <1>2, <2>2
<1>6. ASSUME Tail(list) # <<>> PROVE Head(Tail(list)) = list[2]
  <2>1. Head(Tail(list)) = Tail(list)[1] /\ 1 \in 1 .. n - 1
    BY <1>1, <1>4, <1>5, <1>6
  <2>2. Tail(list)[1] = list[2]
    <3>1. 1 \in 1 .. Len(list) - 1 /\ 1 + 1 = 2
      BY <1>2, <2>1
    <3>2. Tail(list)[1] = list[1 + 1]
      BY <1>1, <3>1
    <3>. QED  BY <3>1, <3>2
  <2>. QED  BY <2>1, <2>2
<1>7. Head(list) = list[1]
  OBVIOUS
<1>. QED  BY <1>1, <1>2, <1>3, <1>4, <1>5, <1>6, <1>7

LEMMA TailWellFormed ==
    ASSUME NEW S, NEW list \in Seq(S), list # <<>>, NEW e, WellFormed(list, e)
    PROVE  WellFormed(Tail(list), e)
<1> DEFINE rest == Tail(list)
<1>1. \A i \in DOMAIN rest :
        /\ i \in Nat /\ i + 1 \in DOMAIN list /\ rest[i] = list[i + 1]
        /\ i + 1 \in DOMAIN rest <=> i + 1 + 1 \in DOMAIN list
        /\ i + 1 \in DOMAIN rest => rest[i + 1] = list[i + 1 + 1]
  BY TailFacts
<1> HIDE DEF rest
<1>2. Ordered(rest)
  BY <1>1 DEF Ordered, WellFormed
<1>3. RowsApart(rest)
  <2> SUFFICES ASSUME NEW i \in DOMAIN rest, NEW j \in DOMAIN rest,
                      Counted(rest[i]), Counted(rest[j]), rest[i].key = rest[j].key
               PROVE  i = j
    BY DEF RowsApart
  <2>1. i + 1 = j + 1 /\ i \in Nat /\ j \in Nat
    BY <1>1 DEF RowsApart, WellFormed
  <2>. QED  BY <2>1
<1>4. RowsOwned(rest, e)
  BY <1>1 DEF RowsOwned, WellFormed
<1>5. CellsNamed(rest)
  BY <1>1 DEF CellsNamed, WellFormed, Range
<1>. QED  BY <1>2, <1>3, <1>4, <1>5 DEF WellFormed, rest

(* A statement runs: the stage it counts for catches up with the one before it,
   and the one behind it comes next. *)
LEMMA ExecuteKeeps ==
    ASSUME ReadInv, UNCHANGED ingestionVars, ExecuteStatement
    PROVE  ReadInv'
<1> DEFINE s == Head(script)
           e == stream[msg]
<1>1. IngestionInv' /\ RestTyped'
  BY IngestionInvStep, RestTypedStep DEF ReadInv
<1>2. /\ stream' = stream /\ script # <<>> /\ script' = Tail(script)
      /\ tables' = RowsAfter(s, e) /\ counters' = CountersAfter(s)
      /\ UNCHANGED <<cursor, redeliver, msg, redelivered>>
  BY DEF ExecuteStatement, ingestionVars
<1>3. PICK S : script \in Seq(S)
  BY DEF ReadInv, ScriptInHand
<1>4. /\ WellFormed(script, e) /\ msg # 0
      /\ msg \in 1 .. cursor - 1 /\ e \in EventIds /\ Once' = Once
  <2>1. msg \in 1 .. cursor - 1 /\ msg \in DOMAIN stream
    BY <1>2 DEF ReadInv, ScriptInHand, ServiceTyped, RestTyped
  <2>. QED  BY <1>2, <2>1 DEF ReadInv, ScriptInHand, RestTyped, Once
<1>5. /\ script' \in Seq(S) /\ WellFormed(script', e)
      /\ 1 \in DOMAIN script /\ s = script[1]
      /\ \A i \in DOMAIN script' :
           i + 1 \in DOMAIN script /\ i + 1 # 1 /\ script'[i] = script[i + 1]
      /\ script' = <<>> <=> 2 \notin DOMAIN script
      /\ script' # <<>> => Head(script') = script[2]
  BY <1>2, <1>3, <1>4, TailFacts, TailWellFormed
<1> HIDE DEF s
<1>6. s.does # "add" => DOMAIN tables' = DOMAIN tables \cup {s.key}
  BY <1>2, RowsAfterIs
<1>7. \A k \in DOMAIN tables' :
        \/ k \in DOMAIN tables /\ tables'[k] = tables[k]
        \/ s.does # "add" /\ k = s.key /\ k \notin DOMAIN tables /\ tables'[k] = e
  <2>1. CASE s.does = "add"
    BY <1>2, <2>1, RowsAfterIs
  <2>2. CASE s.does # "add"
    <3>1. \A k \in DOMAIN tables : tables'[k] = tables[k]
      BY <1>2, RowsAfterIs
    <3>2. s.key \notin DOMAIN tables => tables'[s.key] = e
      BY <1>2, <2>2, RowsAfterIs
    <3>. QED  BY <1>6, <2>2, <3>1, <3>2
  <2>. QED  BY <2>1, <2>2
<1> HIDE DEF e
<1>8. ServiceTyped'
  <2>1. counters' \in [Cells -> Nat]
    BY <1>2 DEF CountersAfter, ReadInv, ServiceTyped
  <2>2. IsFiniteSet(DOMAIN tables')
    <3>1. CASE s.does = "add"
      BY <1>2, <3>1, RowsAfterIs DEF ReadInv, ServiceTyped
    <3>2. CASE s.does # "add"
      BY <1>6, <3>2, FS_AddElement DEF ReadInv, ServiceTyped
    <3>. QED  BY <3>1, <3>2
  <2>3. Range(tables') \subseteq EventIds
    BY <1>4, <1>7 DEF ReadInv, ServiceTyped, Range
  <2>. QED  BY <1>2, <2>1, <2>2, <2>3 DEF ReadInv, ServiceTyped
<1>9. ScriptInHand'
  BY <1>2, <1>4, <1>5 DEF ScriptInHand, e
<1>10. RowsTraced'
  <2>1. ASSUME NEW k \in DOMAIN tables'
        PROVE  /\ k[1] \in {"bridge_events", "validator_signatures"} => Owns(tables'[k], k)
               /\ ~redelivered => \E j \in 1 .. cursor - 1 : tables'[k] = stream[j]
    <3>1. CASE k \in DOMAIN tables /\ tables'[k] = tables[k]
      BY <3>1 DEF ReadInv, RowsTraced
    <3>2. CASE s.does # "add" /\ k = s.key /\ tables'[k] = e
      <4>1. k[1] \in {"bridge_events", "validator_signatures"} => Owns(e, k)
        BY <1>4, <1>5, <3>2 DEF WellFormed, RowsOwned, Counted
      <4>. QED  BY <1>4, <3>2, <4>1 DEF e
    <3>. QED  BY <1>7, <3>1, <3>2
  <2>2. ASSUME Once, NEW i \in DOMAIN script', Counted(script'[i])
        PROVE  script'[i].key \notin DOMAIN tables'
    <3>1. script[i + 1].key \notin DOMAIN tables
      BY <1>5, <2>2 DEF ReadInv, RowsTraced
    <3>2. s.does # "add" /\ script[i + 1].key = s.key => FALSE
      BY <1>4, <1>5, <2>2 DEF WellFormed, RowsApart, Counted
    <3>. QED  BY <1>5, <1>7, <3>1, <3>2
  <2>. QED  BY <1>2, <1>4, <2>1, <2>2 DEF RowsTraced
<1>11. Balanced'
  <2> SUFFICES ASSUME NEW pq \in Stages
               PROVE  /\ Level(pq[1])' >= Level(pq[2])' + Due(pq[2])'
                      /\ Once => Level(pq[1])' = Level(pq[2])' + Due(pq[2])'
    BY <1>4 DEF Balanced
  <2>1. Due(pq[2])' = At(pq[1], s)
    <3>1. pq[1] \in Marks(s) <=> script' # <<>> /\ pq[2] \in Marks(Head(script'))
      BY <1>4, <1>5 DEF WellFormed, Ordered
    <3>. QED  BY <3>1 DEF Due, At
  <2>2. Due(pq[2]) = At(pq[2], s)
    BY <1>2 DEF Due, s
  <2>3. Once => (Counted(s) => s.key \notin DOMAIN tables)
    BY <1>5 DEF ReadInv, RowsTraced
  <2>4. PICK a \in Nat, b \in Nat, x \in 0 .. 1, y \in 0 .. 1 :
          a = Level(pq[1]) /\ b = Level(pq[2]) /\ x = At(pq[1], s) /\ y = At(pq[2], s)
    BY LevelType DEF ReadInv, At
  <2>5. PICK b_ \in Nat :
          /\ b_ = Level(pq[2])' /\ Level(pq[1])' = a + x
          /\ b_ <= b + y
          /\ Once => b_ = b + y
    BY <1>2, <2>3, <2>4, LevelMoves DEF s, e
  <2>6. a >= b + y /\ (Once => a = b + y)
    BY <2>2, <2>4 DEF ReadInv, Balanced
  <2>9. b_ <= b + y /\ (Once => b_ = b + y)
    BY <2>5
  <2>7. a + x >= b_ + x
    <3>1. b_ <= b + y
      BY <2>9
    <3>2. a >= b + y
      BY <2>6
    <3>. QED  BY <3>1, <3>2
  <2>8. Once => a + x = b_ + x
    <3>1. Once => b_ = b + y
      BY <2>9
    <3>2. Once => a = b + y
      BY <2>6
    <3>. QED  BY <3>1, <3>2
  <2>. QED  BY <2>1, <2>4, <2>5, <2>7, <2>8
<1>. QED  BY <1>1, <1>8, <1>9, <1>10, <1>11 DEF ReadInv

(* An acknowledgement and the faults: what is given up comes again, and is known
   to. *)
LEMMA OthersKeep ==
    ASSUME ReadInv,
           \/ Acknowledge /\ UNCHANGED ingestionVars
           \/ /\ ProjectionFault
              /\ UNCHANGED <<latest, stored, published, stream, lastProcessed, todo, step,
                             batch, filled, lost>>
    PROVE  ReadInv'
<1>1. /\ UNCHANGED <<latest, stored, published, stream, lastProcessed, todo, step,
                     batch, filled, lost>>
      /\ UNCHANGED <<counters, tables>>
      /\ faults' = faults \/ Fault
  BY DEF Acknowledge, ProjectionFault, StatementFails, AckWaitExpires, ProjectionRestart,
         ingestionVars
<1>2. IngestionInv'
  BY <1>1 DEF ReadInv, IngestionInv, TypesHold, BlockInHand, NothingBelow, Heights,
              IngestedUnlessFault
<1>3. RestTyped'
  BY <1>1, IngestionParams DEF ReadInv, RestTyped, Fault
<1>4. cursor \in Nat \ {0} /\ cursor \in 1 .. Len(stream) + 1 /\ Len(stream) \in Nat
  BY DEF ReadInv, ServiceTyped, RestTyped
<1>5. ServiceTyped'
  <2>1. CASE Acknowledge
    BY <1>1, <1>4, <2>1 DEF Acknowledge, ReadInv, ServiceTyped
  <2>2. CASE StatementFails
    BY <1>1, <1>4, <2>2 DEF StatementFails, ReadInv, ServiceTyped, ScriptInHand
  <2>3. CASE AckWaitExpires
    BY <1>1, <1>4, <2>3 DEF AckWaitExpires, ReadInv, ServiceTyped
  <2>4. CASE ProjectionRestart
    BY <1>1, <1>4, <2>4 DEF ProjectionRestart, ReadInv, ServiceTyped
  <2>. QED  BY <1>1, <2>1, <2>2, <2>3, <2>4 DEF ProjectionFault
<1>6. \/ script' = <<>>
      \/ script' = script /\ msg' = msg /\ redelivered'
  BY DEF Acknowledge, ProjectionFault, StatementFails, AckWaitExpires, ProjectionRestart
<1>7. Once' => Once /\ script' = <<>> /\ script = <<>> /\ cursor' = cursor
  <2>1. CASE Acknowledge
    BY <1>1, <2>1 DEF Acknowledge, Once
  <2>2. CASE StatementFails \/ AckWaitExpires
    BY <2>2 DEF StatementFails, AckWaitExpires, Once
  <2>3. CASE ProjectionRestart
    <3>1. Once' => ~redelivered /\ cursor = 1
      <4>1. Once' => ~redelivered /\ ~(cursor > 1)
        BY <2>3 DEF ProjectionRestart, Once
      <4>2. ~(cursor > 1) => cursor = 1
        BY <1>4
      <4>. QED  BY <4>1, <4>2
    <3>2. cursor = 1 => msg = 0
      BY DEF ReadInv, ServiceTyped
    <3>3. cursor = 1 => script = <<>>
      BY <3>2 DEF ReadInv, ScriptInHand
    <3>4. Once' => IsInjective(stream)
      BY <1>1 DEF Once
    <3>5. cursor' = 1 /\ script' = <<>>
      BY <2>3 DEF ProjectionRestart
    <3>. QED  BY <3>1, <3>3, <3>4, <3>5 DEF Once
  <2>. QED  BY <2>1, <2>2, <2>3 DEF ProjectionFault
<1>8. ScriptInHand'
  <2>1. \A S : <<>> \in Seq(S)
    OBVIOUS
  <2>. QED  BY <1>1, <1>6, <2>1 DEF ReadInv, ScriptInHand
<1>9. RowsTraced'
  <2>1. ~redelivered' => ~redelivered /\ cursor' = cursor
    <3>1. CASE Acknowledge
      BY <3>1 DEF Acknowledge
    <3>2. CASE StatementFails \/ AckWaitExpires
      BY <3>2 DEF StatementFails, AckWaitExpires
    <3>3. CASE ProjectionRestart
      <4>1. (~redelivered' => ~redelivered /\ ~(cursor > 1)) /\ cursor' = 1
        BY <3>3 DEF ProjectionRestart
      <4>2. ~(cursor > 1) => cursor = 1
        BY <1>4
      <4>. QED  BY <4>1, <4>2
    <3>. QED  BY <3>1, <3>2, <3>3 DEF ProjectionFault
  <2>2. script' = <<>> => DOMAIN script' = {}
    OBVIOUS
  <2>. QED  BY <1>1, <1>7, <2>1, <2>2 DEF ReadInv, RowsTraced
<1>10. Balanced'
  <2> SUFFICES ASSUME NEW pq \in Stages
               PROVE  /\ Level(pq[1])' >= Level(pq[2])' + Due(pq[2])'
                      /\ Once' => Level(pq[1])' = Level(pq[2])' + Due(pq[2])'
    BY DEF Balanced
  <2>1. Level(pq[1])' = Level(pq[1]) /\ Level(pq[2])' = Level(pq[2])
    BY <1>1 DEF Level, BridgeRows, SignatureRows, RowsOf
  <2>2. Due(pq[2])' = 0 \/ Due(pq[2])' = Due(pq[2])
    BY <1>6 DEF Due, At
  <2>3. Once' => Once /\ Due(pq[2])' = Due(pq[2])
    BY <1>7 DEF Due
  <2>4. /\ Level(pq[1]) >= Level(pq[2]) + Due(pq[2])
        /\ Once => Level(pq[1]) = Level(pq[2]) + Due(pq[2])
    BY DEF ReadInv, Balanced
  <2>5. Level(pq[1]) \in Nat /\ Level(pq[2]) \in Nat /\ Due(pq[2]) \in {0, 1}
    BY LevelType, DueType DEF ReadInv
  <2>6. PICK a \in Nat, b \in Nat, d \in {0, 1} :
          a = Level(pq[1]) /\ b = Level(pq[2]) /\ d = Due(pq[2])
    BY <2>5
  <2>7. a >= b + d /\ a >= b + 0 /\ (Once => a = b + d)
    BY <2>4, <2>6
  <2>. QED  BY <2>1, <2>2, <2>3, <2>6, <2>7
<1>. QED  BY <1>2, <1>3, <1>5, <1>8, <1>9, <1>10 DEF ReadInv

LEMMA ReadInvStep == ReadInv /\ [ReadNext]_readVars => ReadInv'
<1> SUFFICES ASSUME ReadInv, [ReadNext]_readVars PROVE ReadInv'
  OBVIOUS
<1>1. CASE IngestionNext /\ UNCHANGED projectionVars
  BY <1>1, IngestionKeeps
<1>2. CASE UNCHANGED readVars
  BY <1>2, IngestionKeeps DEF readVars
<1>3. CASE ProjectStep /\ UNCHANGED ingestionVars
  BY <1>3, DeliverKeeps, ExecuteKeeps, OthersKeep DEF ProjectStep
<1>4. CASE ReadNext /\ ~(IngestionNext /\ UNCHANGED projectionVars)
           /\ ~(ProjectStep /\ UNCHANGED ingestionVars)
  BY <1>4, OthersKeep DEF ReadNext
<1>. QED  BY <1>1, <1>2, <1>3, <1>4 DEF ReadNext

LEMMA ReadInvariant == ReadSpec => []ReadInv
BY ReadInvInit, ReadInvStep, PTL DEF ReadSpec

(* The state of both services is always of its type. *)
THEOREM ReadTyped == ReadSpec => []ProjectionTypeOK
<1>1. ReadInv => ProjectionTypeOK
  <2> SUFFICES ASSUME ReadInv PROVE ProjectionTypeOK
    OBVIOUS
  <2>1. IngestionTypeOK
    BY IngestionTypesHold DEF ReadInv
  <2>2. Len(stream) \in Nat
    BY DEF ReadInv, RestTyped
  <2>. QED  BY <2>1, <2>2 DEF ReadInv, ServiceTyped, ProjectionTypeOK
<1>. QED  BY ReadInvariant, <1>1, PTL

(* With projection behind it ingestion loses no more than by itself
   (ingestion main.go:205, 229). *)
THEOREM NothingElseIsLostBehind == ReadSpec => []IngestedUnlessFault
<1>1. ReadInv => IngestedUnlessFault
  BY DEF ReadInv, IngestionInv
<1>. QED  BY ReadInvariant, <1>1, PTL

(* No counter of the read database falls behind the rows beside it, and none runs
   ahead before a message has come twice (projection main.go:341, 445). *)
THEOREM CountersKeepAhead == ReadSpec => []CountersDriftOnlyByRedelivery
<1>1. ReadInv => CountersDriftOnlyByRedelivery
  <2> SUFFICES ASSUME ReadInv PROVE CountersDriftOnlyByRedelivery
    OBVIOUS
  <2>1. ASSUME NEW pq \in Stages
        PROVE  /\ Level(pq[1]) \in Nat /\ Level(pq[2]) \in Nat
               /\ Level(pq[1]) >= Level(pq[2])
               /\ EachProjectedOnce => Level(pq[1]) = Level(pq[2])
    <3>1. PICK a \in Nat, b \in Nat, d \in {0, 1} :
            a = Level(pq[1]) /\ b = Level(pq[2]) /\ d = Due(pq[2])
      BY LevelType, DueType DEF ReadInv
    <3>2. a >= b + d /\ (Once => a = b + d)
      BY <3>1 DEF ReadInv, Balanced
    <3>3. EachProjectedOnce => Once /\ d = 0
      BY <3>1 DEF EachProjectedOnce, Once, ReadInv, ScriptInHand, Due
    <3>4. a >= b /\ (EachProjectedOnce => a = b)
      BY <3>2, <3>3
    <3>. QED  BY <3>1, <3>4
  <2>2. ASSUME NEW c \in Chains
        PROVE  /\ counters[<<"hourly", c>>] >= counters[<<"daily", c>>]
               /\ counters[<<"daily", c>>] >= counters[<<"all", c>>]
               /\ counters[<<"all", c>>] >= Cardinality(BridgeRows(c))
               /\ EachProjectedOnce
                    => counters[<<"hourly", c>>] = Cardinality(BridgeRows(c))
    <3>1. /\ <<<<"hourly", c>>, <<"daily", c>>>> \in Stages
          /\ <<<<"daily", c>>, <<"all", c>>>> \in Stages
          /\ <<<<"all", c>>, <<"bridge_rows", c>>>> \in Stages
      BY DEF Stages
    <3>2. /\ Level(<<"hourly", c>>) = counters[<<"hourly", c>>]
          /\ Level(<<"daily", c>>) = counters[<<"daily", c>>]
          /\ Level(<<"all", c>>) = counters[<<"all", c>>]
          /\ Level(<<"bridge_rows", c>>) = Cardinality(BridgeRows(c))
      BY DEF Level
    <3>3. /\ Level(<<"hourly", c>>) >= Level(<<"daily", c>>)
          /\ EachProjectedOnce => Level(<<"hourly", c>>) = Level(<<"daily", c>>)
      BY <2>1, <3>1
    <3>4. /\ Level(<<"daily", c>>) >= Level(<<"all", c>>)
          /\ EachProjectedOnce => Level(<<"daily", c>>) = Level(<<"all", c>>)
      BY <2>1, <3>1
    <3>5. /\ Level(<<"all", c>>) >= Level(<<"bridge_rows", c>>)
          /\ EachProjectedOnce => Level(<<"all", c>>) = Level(<<"bridge_rows", c>>)
      BY <2>1, <3>1
    <3>. QED  BY <3>2, <3>3, <3>4, <3>5
  <2>3. ASSUME NEW v \in Validators
        PROVE  /\ counters[<<"total_blocks", v>>] >= Cardinality(SignatureRows(v))
               /\ EachProjectedOnce =>
                    counters[<<"total_blocks", v>>] = Cardinality(SignatureRows(v))
    <3>1. <<<<"total_blocks", v>>, <<"signature_rows", v>>>> \in Stages
      BY DEF Stages
    <3>2. /\ Level(<<"total_blocks", v>>) = counters[<<"total_blocks", v>>]
          /\ Level(<<"signature_rows", v>>) = Cardinality(SignatureRows(v))
      BY DEF Level
    <3>3. /\ Level(<<"total_blocks", v>>) >= Level(<<"signature_rows", v>>)
          /\ EachProjectedOnce
               => Level(<<"total_blocks", v>>) = Level(<<"signature_rows", v>>)
      BY <2>1, <3>1
    <3>. QED  BY <3>2, <3>3
  <2>. QED  BY <2>2, <2>3 DEF CountersDriftOnlyByRedelivery
<1>. QED  BY ReadInvariant, <1>1, PTL
=============================================================================
