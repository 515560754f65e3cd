------------------------- MODULE CosmosWatcher_proofs ------------------------
(***************************************************************************)
(* What the watch over the Sovereign chain promises, for every set of      *)
(* burns and every number of faults: a burn called "burned" went over the  *)
(* bus, and without a failed call no burn is passed over, also through     *)
(* crashes when no block holds two.                                        *)
(***************************************************************************)
EXTENDS CosmosWatcher, TLAPS, SequenceTheorems

InBlock == pc \in {"ingest", "observe", "checkpoint", "publish", "mark"}
InEvent == pc \in {"observe", "checkpoint", "publish", "mark"}

\* Where the loop's variables are.
LoopOrder ==
    /\ lastSeen \in 1..Len(chain) /\ checkpoint <= Len(chain) /\ latest <= Len(chain)
    /\ InBlock \/ pc = "scan" => lastSeen < h /\ h <= latest
    /\ InBlock => event \in 1..(Len(chain[h]) + 1)
    /\ InEvent => HasEvent

\* A nonce with a state has a row, and so has the burn in hand.
RowsBehind ==
    /\ \A n \in Burns : nonceState[n] # "" => n \in burnRows
    /\ pending \subseteq burnRows
    /\ InEvent => Current \in burnRows
    /\ pc = "mark" => Current \in published
    /\ BurnedIsPublished

SingleBlocks == \A i \in DOMAIN chain : Len(chain[i]) <= 1
Lossless == faults["rpc"] = 0 /\ faults["db"] = 0 /\ (faults["crash"] = 0 \/ SingleBlocks)

RowsUpTo(top) == \A i \in 2..top : \A j \in DOMAIN chain[i] : chain[i][j] \in burnRows

\* Without a failed call the loop leaves no block out, and has a row for what is
\* behind it in the block in hand; where blocks hold one burn at most, for all up
\* to the checkpoint.
NothingAhead ==
    /\ RowsUpTo(lastSeen)
    /\ InBlock \/ pc = "scan" => h = lastSeen + 1
    /\ InBlock => \A j \in 1..(event - 1) : chain[h][j] \in burnRows
    /\ SingleBlocks => RowsUpTo(checkpoint)

CosmosInv == CosmosTypeOK /\ LoopOrder /\ RowsBehind /\ (Lossless => NothingAhead)

------------------------------------------------------------------------------
\* The type of the chain, and those of the other variables.
ChainOK == chain \in Seq(Seq(Burns)) /\ Len(chain) <= MaxHeight

StatesOK == nonceState \in [Burns -> {"", "observed", "burned", "ready"}]

DaemonOK ==
    /\ checkpoint \in 0..MaxHeight
    /\ burnRows \subseteq Burns
    /\ published \subseteq Burns
    /\ pc \in {"loop", "pending", "head", "scan", "ingest", "observe", "checkpoint", "publish", "mark"}
    /\ lastSeen \in Nat /\ latest \in Nat /\ h \in Nat /\ event \in Nat
    /\ pending \subseteq Burns
    /\ faults \in [DOMAIN Bounds -> Nat]
    /\ \A kind \in DOMAIN Bounds : faults[kind] <= Bounds[kind]

LEMMA TypeParts == CosmosTypeOK <=> ChainOK /\ StatesOK /\ DaemonOK
BY DEF CosmosTypeOK, ChainOK, StatesOK, DaemonOK

LEMMA ChainLength == ASSUME ChainOK PROVE Len(chain) \in Nat /\ Len(chain) <= MaxHeight
BY DEF ChainOK

LEMMA StrikeCounted ==
    ASSUME ChainOK, DaemonOK, NEW kind \in DOMAIN Bounds, Strike(kind)
    PROVE  /\ faults' \in [DOMAIN Bounds -> Nat]
           /\ \A k \in DOMAIN Bounds : faults'[k] <= Bounds[k]
           /\ \A k \in DOMAIN Bounds : faults'[k] = 0 => faults[k] = 0
           /\ faults'[kind] # 0
<1>1. faults \in [DOMAIN Bounds -> Nat] /\ \A k \in DOMAIN Bounds : faults[k] <= Bounds[k]
  BY DEF DaemonOK
<1>2. \A k \in DOMAIN Bounds : Bounds[k] \in Nat
  BY CosmosWatcherParams DEF Bounds
<1>3. /\ faults' = [faults EXCEPT ![kind] = faults[kind] + 1]
      /\ faults[kind] < Bounds[kind]
  BY DEF Strike
<1>4. faults' \in [DOMAIN Bounds -> Nat]
  BY <1>1, <1>3
<1>5. \A k \in DOMAIN Bounds : faults'[k] = IF k = kind THEN faults[k] + 1 ELSE faults[k]
  BY <1>1, <1>3
<1>6. \A k \in DOMAIN Bounds : faults'[k] <= Bounds[k]
  BY <1>1, <1>2, <1>3, <1>5
<1> QED BY <1>1, <1>4, <1>5, <1>6

LEMMA FaultKinds == DOMAIN Bounds = {"crash", "rpc", "bus", "db"}
BY DEF Bounds

\* The blocks of the chain are lists of burns.
LEMMA BlocksTyped ==
    ASSUME ChainOK, DaemonOK, NEW i \in 1..Len(chain)
    PROVE  /\ Len(chain[i]) \in Nat /\ DOMAIN chain[i] = 1..Len(chain[i])
           /\ \A j \in 1..Len(chain[i]) : chain[i][j] \in Burns
<1>1. chain[i] \in Seq(Burns)
  BY ElementOfSeq DEF ChainOK
<1>2. \A j \in 1..Len(chain[i]) : chain[i][j] \in Burns
  BY <1>1, ElementOfSeq
<1> QED BY <1>1, <1>2

\* The event in hand is one of the block in hand.
LEMMA CurrentIsBurn ==
    ASSUME ChainOK, DaemonOK, LoopOrder, InBlock
    PROVE  /\ h \in 1..Len(chain) /\ h \in 1..MaxHeight
           /\ Len(chain[h]) \in Nat /\ event \in Nat
           /\ HasEvent => event \in 1..Len(chain[h]) /\ Current \in Burns
<1>1. h \in 1..Len(chain) /\ h \in 1..MaxHeight
  BY ChainLength, CosmosWatcherParams DEF DaemonOK, LoopOrder
<1>2. Len(chain[h]) \in Nat /\ \A j \in 1..Len(chain[h]) : chain[h][j] \in Burns
  BY <1>1, BlocksTyped
<1>3. HasEvent => event \in 1..Len(chain[h])
  BY <1>2 DEF HasEvent, LoopOrder
<1>4. event \in Nat
  BY DEF DaemonOK
<1> QED BY <1>1, <1>2, <1>3, <1>4 DEF Current

\* A new block leaves the earlier ones as they are.
LEMMA ChainGrows ==
    ASSUME ChainOK, DaemonOK, Commit
    PROVE  /\ chain' \in Seq(Seq(Burns)) /\ Len(chain) \in Nat
           /\ Len(chain') = Len(chain) + 1 /\ Len(chain') <= MaxHeight
           /\ \A i \in 1..Len(chain) : chain'[i] = chain[i]
<1>1. PICK block \in Blocks : chain' = Append(chain, block)
  BY DEF Commit
<1>2. block \in Seq(Burns)
  <2>1. PICK n \in 0..MaxPerBlock : block \in [1..n -> Burns \ OnChain]
    BY <1>1 DEF Blocks
  <2>2. n \in Nat /\ block \in [1..n -> Burns]
    BY <2>1, CosmosWatcherParams
  <2> QED BY <2>2
<1>3. chain \in Seq(Seq(Burns)) /\ Len(chain) < MaxHeight
  BY DEF Commit, ChainOK
<1>4. chain' \in Seq(Seq(Burns)) /\ Len(chain') = Len(chain) + 1 /\ \A i \in 1..Len(chain) : chain'[i] = chain[i]
  BY <1>1, <1>2, <1>3, AppendProperties
<1> QED BY <1>3, <1>4, CosmosWatcherParams

------------------------------------------------------------------------------
\* The loop goes on to a later height, up to the one it has read.
LEMMA HeightMoves ==
    ASSUME ChainOK, DaemonOK, LoopOrder, InBlock \/ pc = "scan", NextHeight
    PROVE  /\ h' = h + 1 /\ h' \in Nat /\ latest' = latest /\ event' = 1 /\ pending' = pending
           /\ pc' \in {"scan", "loop"}
           /\ pc' = "scan" => h' <= latest
BY DEF NextHeight, DaemonOK, LoopOrder

LEMMA OrderStep ==
    ASSUME ChainOK, StatesOK, DaemonOK, LoopOrder, [CosmosNext]_cosmosVars
    PROVE  ChainOK' /\ StatesOK' /\ DaemonOK' /\ LoopOrder'
<1> USE CosmosWatcherParams DEF dbVars, loopVars
<1>0. Len(chain) \in Nat /\ Len(chain) <= MaxHeight
  BY ChainLength
<1>20. UNCHANGED chain => ChainOK'
  BY DEF ChainOK
<1>21. /\ UNCHANGED nonceState => StatesOK'
       /\ \A n \in Burns, s \in {"observed", "burned", "ready"} :
             nonceState' = [nonceState EXCEPT ![n] = s] => StatesOK'
  BY DEF StatesOK
<1> USE <1>0, <1>20, <1>21
<1>1. \A kind \in {"crash", "rpc", "bus", "db"} : Strike(kind) =>
         faults' \in [DOMAIN Bounds -> Nat] /\ \A k \in DOMAIN Bounds : faults'[k] <= Bounds[k]
  BY StrikeCounted, FaultKinds
<1>2. CASE Commit
  <2>1. UNCHANGED <<dbVars, published, loopVars, faults>>
    BY <1>2 DEF Commit
  <2>2. PICK n \in Nat : Len(chain) = n /\ Len(chain') = n + 1
    BY <1>2, ChainGrows
  <2>3. ChainOK' /\ StatesOK' /\ DaemonOK'
    BY <1>2, <2>1, ChainGrows DEF ChainOK, DaemonOK
  <2>4. InBlock => h \in 1..n /\ chain'[h] = chain[h]
    BY <1>2, <2>2, CurrentIsBurn, ChainGrows
  <2>5. LoopOrder'
    BY <2>1, <2>2, <2>4 DEF DaemonOK, LoopOrder, InBlock, InEvent, HasEvent
  <2> QED BY <2>3, <2>5
<1>3. CASE QueryPending
  <2>1. /\ pc = "loop" /\ pc' \in {"head", "pending"} /\ pending' = PendingBurns
        /\ UNCHANGED <<chain, dbVars, published, lastSeen, latest, h, event, faults>>
    BY <1>3 DEF QueryPending
  <2>2. PendingBurns \subseteq Burns
    BY DEF PendingBurns, DaemonOK
  <2> QED BY <2>1, <2>2 DEF DaemonOK, LoopOrder, InBlock, InEvent
<1>4. ASSUME NEW n \in Burns, PublishPending(n)
      PROVE  ChainOK' /\ StatesOK' /\ DaemonOK' /\ LoopOrder'
  <2>1. /\ pc = "pending" /\ pc' \in {"head", "pending"} /\ pending' = pending \ {n}
        /\ published' = published \cup {n} /\ nonceState' = [nonceState EXCEPT ![n] = "burned"]
        /\ UNCHANGED <<chain, checkpoint, burnRows, lastSeen, latest, h, event, faults>>
    BY <1>4 DEF PublishPending
  <2> QED BY <2>1 DEF DaemonOK, LoopOrder, InBlock, InEvent
<1>5. CASE PublishPendingFails
  <2>1. /\ pending' = {} /\ pc' = "head"
        /\ UNCHANGED <<chain, dbVars, published, lastSeen, latest, h, event>>
        /\ faults' \in [DOMAIN Bounds -> Nat] /\ \A k \in DOMAIN Bounds : faults'[k] <= Bounds[k]
    BY <1>1, <1>5 DEF PublishPendingFails
  <2> QED BY <2>1 DEF DaemonOK, LoopOrder, InBlock, InEvent
<1>6. CASE FetchHeight
  <2>1. /\ latest' = Len(chain) /\ h' = lastSeen + 1
        /\ pc' = IF Len(chain) > lastSeen THEN "scan" ELSE "loop"
        /\ UNCHANGED <<chain, dbVars, published, lastSeen, event, pending, faults>>
    BY <1>6 DEF FetchHeight
  <2>2. PICK n \in Nat, s \in Nat : Len(chain) = n /\ lastSeen = s /\ h' = s + 1 /\ latest' = n
    BY <2>1 DEF DaemonOK
  <2>3. ChainOK' /\ StatesOK' /\ DaemonOK'
    BY <2>1, <2>2 DEF DaemonOK
  <2>4. LoopOrder'
    BY <2>1, <2>2 DEF DaemonOK, LoopOrder, InBlock, InEvent
  <2> QED BY <2>3, <2>4
<1>7. CASE ScanFails
  <2>1. pc = "scan" /\ NextHeight /\ UNCHANGED <<chain, dbVars, published, lastSeen>>
    BY <1>7 DEF ScanFails
  <2>2. faults' \in [DOMAIN Bounds -> Nat] /\ \A k \in DOMAIN Bounds : faults'[k] <= Bounds[k]
    BY <1>1, <1>7 DEF ScanFails
  <2> QED BY <2>1, <2>2, HeightMoves DEF DaemonOK, LoopOrder, InBlock, InEvent
<1>8. CASE ScanBlock
  <2>1. /\ pc = "scan" /\ pc' = "ingest" /\ event' = 1
        /\ UNCHANGED <<chain, dbVars, published, lastSeen, latest, h, pending, faults>>
    BY <1>8 DEF ScanBlock
  <2>2. h \in 1..Len(chain)
    BY <2>1 DEF DaemonOK, LoopOrder
  <2>3. Len(chain[h]) \in Nat
    BY <2>2, BlocksTyped
  <2> QED BY <2>1, <2>3 DEF DaemonOK, LoopOrder, InBlock, InEvent
<1>9. ASSUME pc' \in {"ingest", "observe", "checkpoint", "publish", "mark"},
             InBlock, HasEvent, UNCHANGED <<chain, lastSeen, latest, h, pending>>,
             event' = event \/ (pc' = "ingest" /\ event' = event + 1),
             published' = published \/ published' = published \cup {Current},
             burnRows' = burnRows \/ burnRows' = burnRows \cup {Current},
             \/ nonceState' = nonceState
             \/ \E s \in {"observed", "burned"} : nonceState' = [nonceState EXCEPT ![Current] = s],
             checkpoint' = checkpoint \/ checkpoint' = h,
             faults' \in [DOMAIN Bounds -> Nat] /\ \A k \in DOMAIN Bounds : faults'[k] <= Bounds[k]
      PROVE  ChainOK' /\ StatesOK' /\ DaemonOK' /\ LoopOrder'
  <2>1. h \in 1..Len(chain) /\ h \in 1..MaxHeight /\ Current \in Burns /\ event \in 1..Len(chain[h])
    BY <1>9, CurrentIsBurn
  <2>2. Len(chain[h]) \in Nat
    BY <2>1, BlocksTyped
  <2>3. event' \in Nat /\ event' \in 1..(Len(chain[h]) + 1) /\ (pc' # "ingest" => event' <= Len(chain[h]))
    BY <1>9, <2>1, <2>2
  <2>4. ChainOK' /\ StatesOK' /\ DaemonOK'
    BY <1>9, <2>1, <2>3 DEF DaemonOK
  <2>5. LoopOrder'
    BY <1>9, <2>1, <2>3 DEF DaemonOK, LoopOrder, InBlock, InEvent, HasEvent
  <2> QED BY <2>4, <2>5
<1>10. faults \in [DOMAIN Bounds -> Nat] /\ \A k \in DOMAIN Bounds : faults[k] <= Bounds[k]
  BY DEF DaemonOK
<1>11. CASE SkipKnown \/ SaveBurn
  BY <1>9, <1>10, <1>11 DEF SkipKnown, SaveBurn, InBlock
<1>12. CASE SaveBurnFails
  BY <1>1, <1>9, <1>12 DEF SaveBurnFails, InBlock
<1>13. CASE MarkObserved \/ MarkBurned
  <2>1. InBlock /\ HasEvent
    BY <1>13 DEF MarkObserved, MarkBurned, InBlock, InEvent, LoopOrder
  <2> QED BY <1>9, <1>10, <1>13, <2>1 DEF MarkObserved, MarkBurned
<1>14. CASE SaveHeight \/ PublishBurn
  <2>1. InBlock /\ HasEvent
    BY <1>14 DEF SaveHeight, PublishBurn, InBlock, InEvent, LoopOrder
  <2> QED BY <1>9, <1>10, <1>14, <2>1 DEF SaveHeight, PublishBurn
<1>15. CASE PublishBurnFails
  <2>1. InBlock /\ HasEvent
    BY <1>15 DEF PublishBurnFails, InBlock, InEvent, LoopOrder
  <2> QED BY <1>1, <1>9, <1>15, <2>1 DEF PublishBurnFails
<1>16. CASE FinishHeight
  <2>1. /\ InBlock /\ lastSeen' = h /\ checkpoint' = h /\ NextHeight
        /\ UNCHANGED <<chain, burnRows, nonceState, published, faults>>
    BY <1>16 DEF FinishHeight, InBlock
  <2>2. h \in 1..Len(chain) /\ h \in 1..MaxHeight
    BY <2>1, CurrentIsBurn
  <2>3. /\ h' = h + 1 /\ h' \in Nat /\ latest' = latest /\ event' = 1 /\ pending' = pending
        /\ pc' \in {"scan", "loop"} /\ (pc' = "scan" => h' <= latest)
    BY <2>1, HeightMoves
  <2>4. ChainOK' /\ StatesOK' /\ DaemonOK'
    BY <2>1, <2>2, <2>3 DEF DaemonOK
  <2>5. LoopOrder'
    BY <2>1, <2>2, <2>3 DEF DaemonOK, LoopOrder, InBlock, InEvent
  <2> QED BY <2>4, <2>5
<1>17. CASE Crash
  <2>1. /\ pc' = "loop" /\ lastSeen' = (IF checkpoint = 0 THEN 1 ELSE checkpoint)
        /\ latest' = 0 /\ h' = 0 /\ event' = 1 /\ pending' = {}
        /\ UNCHANGED <<chain, dbVars, published>>
    BY <1>17 DEF Crash
  <2>2. faults' \in [DOMAIN Bounds -> Nat] /\ \A k \in DOMAIN Bounds : faults'[k] <= Bounds[k]
    BY <1>1, <1>17 DEF Crash
  <2>3. lastSeen' \in 1..Len(chain)
    BY <2>1 DEF DaemonOK, LoopOrder
  <2>4. ChainOK' /\ StatesOK' /\ DaemonOK'
    BY <2>1, <2>2, <2>3 DEF DaemonOK
  <2>5. LoopOrder'
    BY <2>1, <2>3 DEF DaemonOK, LoopOrder, InBlock, InEvent
  <2> QED BY <2>4, <2>5
<1>18. ASSUME NEW n \in Burns, PeerAnnounces(n) \/ VotesReady(n)
       PROVE  ChainOK' /\ StatesOK' /\ DaemonOK' /\ LoopOrder'
  <2>1. /\ UNCHANGED <<chain, checkpoint, published, loopVars, faults>>
        /\ burnRows' = burnRows \/ burnRows' = burnRows \cup {n}
        /\ nonceState' = nonceState \/ nonceState' = [nonceState EXCEPT ![n] = "ready"]
    BY <1>18 DEF PeerAnnounces, VotesReady
  <2> QED BY <2>1 DEF DaemonOK, LoopOrder, InBlock, InEvent, HasEvent
<1>19. CASE UNCHANGED cosmosVars
  BY <1>19 DEF cosmosVars, DaemonOK, LoopOrder, InBlock, InEvent, HasEvent
<1> QED
  BY <1>2, <1>3, <1>4, <1>5, <1>6, <1>7, <1>8, <1>11, <1>12, <1>13, <1>14, <1>15, <1>16, <1>17, <1>18, <1>19
     DEF CosmosNext, LoopStep, Fault

------------------------------------------------------------------------------
LEMMA StateSet ==
    ASSUME StatesOK, NEW n \in Burns, NEW s, nonceState' = [nonceState EXCEPT ![n] = s]
    PROVE  \A m \in Burns : nonceState'[m] = IF m = n THEN s ELSE nonceState[m]
BY DEF StatesOK

\* Rows stay, and no state is written for a burn without one.
LEMMA RowsStep ==
    ASSUME ChainOK, StatesOK, DaemonOK, LoopOrder, RowsBehind, [CosmosNext]_cosmosVars
    PROVE  RowsBehind'
<1> USE DEF dbVars, loopVars
<1>1. /\ \A n \in Burns : nonceState[n] # "" => n \in burnRows
      /\ pending \subseteq burnRows
      /\ InEvent => Current \in burnRows
      /\ pc = "mark" => Current \in published
      /\ \A n \in Burns : nonceState[n] = "burned" => n \in published
  BY DEF RowsBehind, BurnedIsPublished
<1>2. ASSUME UNCHANGED nonceState, burnRows \subseteq burnRows', published \subseteq published',
             pending' \subseteq burnRows',
             InEvent' => Current' \in burnRows',
             pc' = "mark" => Current' \in published'
      PROVE  RowsBehind'
  BY <1>1, <1>2 DEF RowsBehind, BurnedIsPublished
<1>3. ASSUME NEW n \in Burns, NEW s \in {"observed", "burned", "ready"}, nonceState' = [nonceState EXCEPT ![n] = s],
             n \in burnRows, burnRows' = burnRows, published \subseteq published',
             s = "burned" => n \in published',
             pending' \subseteq burnRows,
             InEvent' => Current' \in burnRows,
             pc' = "mark" => Current' \in published'
      PROVE  RowsBehind'
  <2>1. \A m \in Burns : nonceState'[m] = IF m = n THEN s ELSE nonceState[m]
    BY <1>3, StateSet
  <2>2. \A m \in Burns : nonceState'[m] # "" => m \in burnRows'
    BY <1>1, <1>3, <2>1
  <2>3. \A m \in Burns : nonceState'[m] = "burned" => m \in published'
    BY <1>1, <1>3, <2>1
  <2> QED BY <1>3, <2>2, <2>3 DEF RowsBehind, BurnedIsPublished
<1>4. CASE Commit
  <2>1. UNCHANGED <<dbVars, published, loopVars>>
    BY <1>4 DEF Commit
  <2>2. InEvent => Current' = Current
    <3>1. InEvent => h \in 1..Len(chain)
      BY CurrentIsBurn DEF InBlock, InEvent
    <3> QED BY <1>4, <2>1, <3>1, ChainGrows DEF Current
  <2> QED BY <1>1, <1>2, <2>1, <2>2 DEF InEvent
<1>5. CASE QueryPending
  <2>1. /\ pc' \notin {"observe", "checkpoint", "publish", "mark"} /\ pending' = PendingBurns
        /\ UNCHANGED <<dbVars, published>>
    BY <1>5 DEF QueryPending
  <2> QED BY <1>2, <2>1 DEF InEvent, PendingBurns
<1>6. ASSUME NEW n \in Burns, PublishPending(n)
      PROVE  RowsBehind'
  <2>1. /\ n \in pending /\ pc' \notin {"observe", "checkpoint", "publish", "mark"} /\ pending' = pending \ {n}
        /\ published' = published \cup {n} /\ nonceState' = [nonceState EXCEPT ![n] = "burned"]
        /\ UNCHANGED burnRows
    BY <1>6 DEF PublishPending
  <2> QED BY <1>1, <1>3, <2>1 DEF InEvent
<1>7. ASSUME pc' \notin {"observe", "checkpoint", "publish", "mark"}, pending' \subseteq pending,
             UNCHANGED <<nonceState, burnRows>>, published' = published
      PROVE  RowsBehind'
  BY <1>1, <1>2, <1>7 DEF InEvent
<1>8. CASE PublishPendingFails \/ FetchHeight \/ ScanFails \/ ScanBlock \/ FinishHeight \/ Crash
  BY <1>7, <1>8 DEF PublishPendingFails, FetchHeight, ScanFails, ScanBlock, FinishHeight, Crash, NextHeight
<1>9. CASE SkipKnown \/ SaveBurnFails \/ PublishBurnFails
  BY <1>7, <1>9 DEF SkipKnown, SaveBurnFails, PublishBurnFails
<1>10. CASE SaveBurn
  <2>1. /\ pc' = "observe" /\ burnRows' = burnRows \cup {Current}
        /\ UNCHANGED <<nonceState, published, pending, chain, h, event>>
    BY <1>10 DEF SaveBurn
  <2>2. Current' = Current
    BY <2>1 DEF Current
  <2> QED BY <1>1, <1>2, <2>1, <2>2
<1>11. CASE MarkObserved \/ MarkBurned
  <2>1. InEvent /\ UNCHANGED <<burnRows, published, pending, chain, h>>
    BY <1>11 DEF MarkObserved, MarkBurned, InEvent
  <2>2. Current \in Burns /\ Current \in burnRows
    BY <1>1, <2>1, CurrentIsBurn DEF LoopOrder, InBlock, InEvent
  <2>3. CASE MarkObserved
    <3>1. pc' = "checkpoint" /\ UNCHANGED event /\ nonceState' = [nonceState EXCEPT ![Current] = "observed"]
      BY <2>3 DEF MarkObserved
    <3>2. Current' = Current
      BY <2>1, <3>1 DEF Current
    <3> QED BY <1>1, <1>3, <2>1, <2>2, <3>1, <3>2
  <2>4. CASE MarkBurned
    <3>1. pc = "mark" /\ pc' = "ingest" /\ nonceState' = [nonceState EXCEPT ![Current] = "burned"]
      BY <2>4 DEF MarkBurned
    <3> QED BY <1>1, <1>3, <2>1, <2>2, <3>1 DEF InEvent
  <2> QED BY <1>11, <2>3, <2>4
<1>12. CASE SaveHeight \/ PublishBurn
  <2>1. /\ pc' # "mark" \/ published' = published \cup {Current}
        /\ UNCHANGED <<nonceState, burnRows, pending, chain, h, event>> /\ published \subseteq published'
    BY <1>12 DEF SaveHeight, PublishBurn, InEvent
  <2>2. Current' = Current /\ Current \in burnRows
    BY <1>1, <1>12, <2>1 DEF Current, SaveHeight, PublishBurn, InEvent
  <2> QED BY <1>1, <1>2, <2>1, <2>2
<1>13. ASSUME NEW n \in Burns, PeerAnnounces(n)
       PROVE  RowsBehind'
  <2>1. burnRows' = burnRows \cup {n} /\ UNCHANGED <<chain, nonceState, published, loopVars>>
    BY <1>13 DEF PeerAnnounces
  <2> QED BY <1>1, <1>2, <2>1 DEF InEvent, Current
<1>14. ASSUME NEW n \in Burns, VotesReady(n)
       PROVE  RowsBehind'
  <2>1. /\ n \in burnRows /\ nonceState' = [nonceState EXCEPT ![n] = "ready"]
        /\ UNCHANGED <<chain, burnRows, published, loopVars>>
    BY <1>14 DEF VotesReady
  <2> QED BY <1>1, <1>3, <2>1 DEF InEvent, Current
<1>15. CASE UNCHANGED cosmosVars
  BY <1>1, <1>2, <1>15 DEF cosmosVars, InEvent, Current
<1> QED
  BY <1>4, <1>5, <1>6, <1>8, <1>9, <1>10, <1>11, <1>12, <1>13, <1>14, <1>15 DEF CosmosNext, LoopStep, Fault

------------------------------------------------------------------------------
\* A step that loses nothing starts where nothing was lost, and is no failed
\* call; it may be a crash where blocks hold one burn at most.
LEMMA LosslessBefore ==
    ASSUME ChainOK, DaemonOK, [CosmosNext]_cosmosVars, Lossless'
    PROVE  /\ Lossless /\ ~ScanFails /\ ~SaveBurnFails
           /\ Crash => SingleBlocks
           /\ SingleBlocks' => SingleBlocks
<1>1. SingleBlocks' => SingleBlocks
  <2>1. CASE Commit
    <3>1. PICK n \in Nat : Len(chain) = n /\ Len(chain') = n + 1
      BY <2>1, ChainGrows
    <3>2. DOMAIN chain = 1..n /\ DOMAIN chain' = 1..(n + 1)
      BY <2>1, <3>1, ChainGrows DEF ChainOK
    <3>3. \A i \in 1..n : i \in 1..(n + 1) /\ chain'[i] = chain[i]
      BY <2>1, <3>1, ChainGrows
    <3> QED BY <3>2, <3>3 DEF SingleBlocks
  <2>2. CASE UNCHANGED chain
    BY <2>2 DEF SingleBlocks
  <2> QED
    BY <2>1, <2>2
       DEF CosmosNext, LoopStep, Fault, cosmosVars, QueryPending, PublishPending, FetchHeight, ScanBlock,
           SkipKnown, SaveBurn, MarkObserved, SaveHeight, PublishBurn, MarkBurned, FinishHeight,
           PublishPendingFails, ScanFails, SaveBurnFails, PublishBurnFails, Crash, PeerAnnounces, VotesReady
<1>2. \A k \in DOMAIN Bounds : faults'[k] = 0 => faults[k] = 0
  <2>1. UNCHANGED faults \/ \E kind \in DOMAIN Bounds : Strike(kind)
    BY FaultKinds
       DEF CosmosNext, LoopStep, Fault, cosmosVars, Commit, QueryPending, PublishPending, FetchHeight, ScanBlock,
           SkipKnown, SaveBurn, MarkObserved, SaveHeight, PublishBurn, MarkBurned, FinishHeight,
           PublishPendingFails, ScanFails, SaveBurnFails, PublishBurnFails, Crash, PeerAnnounces, VotesReady
  <2>2. (\E kind \in DOMAIN Bounds : Strike(kind)) => \A k \in DOMAIN Bounds : faults'[k] = 0 => faults[k] = 0
    BY StrikeCounted
  <2> QED BY <2>1, <2>2
<1>3. faults'["rpc"] = 0 /\ faults'["db"] = 0 /\ (faults'["crash"] = 0 \/ SingleBlocks')
  BY DEF Lossless
<1>4. Lossless
  BY <1>1, <1>2, <1>3, FaultKinds DEF Lossless
<1>5. ~Strike("rpc") /\ ~Strike("db") /\ (Strike("crash") => SingleBlocks')
  BY <1>3, FaultKinds, StrikeCounted
<1> QED BY <1>1, <1>4, <1>5 DEF ScanFails, SaveBurnFails, Crash

LEMMA NothingAheadStep ==
    ASSUME ChainOK, StatesOK, DaemonOK, LoopOrder, RowsBehind, Lossless => NothingAhead, [CosmosNext]_cosmosVars
    PROVE  Lossless' => NothingAhead'
<1> USE DEF dbVars, loopVars
<1> SUFFICES ASSUME Lossless' PROVE NothingAhead'
  OBVIOUS
<1>1. NothingAhead /\ ~ScanFails /\ ~SaveBurnFails /\ (Crash => SingleBlocks) /\ (SingleBlocks' => SingleBlocks)
  BY LosslessBefore
<1>2. PICK s \in Nat, c \in Nat, n \in Nat : lastSeen = s /\ checkpoint = c /\ Len(chain) = n
  <2>1. lastSeen \in Nat /\ checkpoint \in Nat
    BY CosmosWatcherParams DEF DaemonOK
  <2> QED BY <2>1, ChainLength
<1>3. /\ s \in 1..n /\ c <= n
      /\ \A i \in 2..s : \A j \in DOMAIN chain[i] : chain[i][j] \in burnRows
      /\ InBlock \/ pc = "scan" => h = s + 1
      /\ InBlock => \A j \in 1..(event - 1) : chain[h][j] \in burnRows
      /\ SingleBlocks => \A i \in 2..c : \A j \in DOMAIN chain[i] : chain[i][j] \in burnRows
  BY <1>1, <1>2 DEF NothingAhead, LoopOrder, RowsUpTo
<1>4. ASSUME UNCHANGED <<lastSeen, checkpoint>>, burnRows \subseteq burnRows',
             \A i \in 1..n : chain'[i] = chain[i],
             InBlock' \/ pc' = "scan" => h' = s + 1,
             (InBlock => \A j \in 1..(event - 1) : chain[h][j] \in burnRows)'
      PROVE  NothingAhead'
  <2>1. \A i \in 2..s : i \in 1..n
    BY <1>3
  <2>2. \A i \in 2..c : i \in 1..n
    BY <1>3
  <2>3. RowsUpTo(lastSeen)'
    BY <1>2, <1>3, <1>4, <2>1 DEF RowsUpTo
  <2>4. (SingleBlocks => RowsUpTo(checkpoint))'
    BY <1>1, <1>2, <1>3, <1>4, <2>2 DEF RowsUpTo
  <2> QED BY <1>2, <1>4, <2>3, <2>4 DEF NothingAhead
<1>5. CASE Commit
  <2>1. UNCHANGED <<dbVars, loopVars>> /\ \A i \in 1..n : chain'[i] = chain[i]
    BY <1>2, <1>5, ChainGrows DEF Commit
  <2>2. InBlock => h \in 1..n
    BY <1>2, CurrentIsBurn
  <2>3. (InBlock => \A j \in 1..(event - 1) : chain[h][j] \in burnRows)'
    BY <1>3, <2>1, <2>2 DEF InBlock
  <2> QED BY <1>3, <1>4, <2>1, <2>3 DEF InBlock
<1>6. ASSUME UNCHANGED <<chain, lastSeen, checkpoint, burnRows>>, ~InBlock', pc' = "scan" => h' = s + 1
      PROVE  NothingAhead'
  BY <1>4, <1>6
<1>7. CASE QueryPending \/ FetchHeight \/ PublishPendingFails \/ \E m \in Burns : PublishPending(m)
  <2>1. UNCHANGED <<chain, lastSeen, checkpoint, burnRows>>
    BY <1>7 DEF QueryPending, FetchHeight, PublishPendingFails, PublishPending
  <2>2. pc' \in {"pending", "head", "loop"} \/ (pc' = "scan" /\ h' = lastSeen + 1)
    BY <1>7 DEF QueryPending, FetchHeight, PublishPendingFails, PublishPending
  <2> QED BY <1>2, <1>6, <2>1, <2>2 DEF InBlock
<1>8. CASE ScanBlock
  <2>1. pc = "scan" /\ event' = 1 /\ UNCHANGED <<chain, dbVars, lastSeen, h>>
    BY <1>8 DEF ScanBlock
  <2>2. 1..(event' - 1) = {}
    BY <2>1
  <2> QED BY <1>3, <1>4, <2>1, <2>2
<1>9. CASE SkipKnown \/ MarkBurned \/ PublishBurnFails
  <2>1. InBlock /\ HasEvent /\ event' = event + 1 /\ UNCHANGED <<chain, lastSeen, checkpoint, burnRows, h>>
    BY <1>9 DEF SkipKnown, MarkBurned, PublishBurnFails, InBlock, LoopOrder, InEvent
  <2>2. Current \in burnRows
    <3>1. CASE SkipKnown
      <4>1. Current \in Burns /\ nonceState[Current] # ""
        BY <2>1, <3>1, CurrentIsBurn DEF SkipKnown
      <4> QED BY <4>1 DEF RowsBehind
    <3>2. CASE MarkBurned \/ PublishBurnFails
      BY <3>2 DEF MarkBurned, PublishBurnFails, RowsBehind, InEvent
    <3> QED BY <1>9, <3>1, <3>2
  <2>3. PICK e \in Nat : event = e /\ event' = e + 1
    BY <2>1, CurrentIsBurn
  <2>4. \A j \in 1..(event' - 1) : j \in 1..(event - 1) \/ j = event
    BY <2>3
  <2>5. \A j \in 1..(event' - 1) : chain[h][j] \in burnRows
    BY <1>3, <2>1, <2>2, <2>4 DEF Current
  <2> QED BY <1>3, <1>4, <2>1, <2>5
<1>10. ASSUME InBlock, UNCHANGED <<chain, lastSeen, h, event>>, burnRows \subseteq burnRows'
       PROVE  /\ h' = s + 1
              /\ (InBlock => \A j \in 1..(event - 1) : chain[h][j] \in burnRows)'
  BY <1>3, <1>10
<1>11. CASE SaveBurn \/ MarkObserved \/ PublishBurn
  <2>1. InBlock /\ UNCHANGED <<chain, lastSeen, checkpoint, h, event>> /\ burnRows \subseteq burnRows'
    BY <1>11 DEF SaveBurn, MarkObserved, PublishBurn, InBlock
  <2> QED BY <1>4, <1>10, <2>1
<1>12. ASSUME InBlock, NEW t \in Nat, t = s + 1, \A j \in DOMAIN chain[h] : chain[h][j] \in burnRows
       PROVE  \A i \in 2..t : \A j \in DOMAIN chain[i] : chain[i][j] \in burnRows
  <2>1. h = t /\ \A i \in 2..t : i \in 2..s \/ i = t
    BY <1>3, <1>12
  <2> QED BY <1>3, <1>12, <2>1
<1>13. CASE SaveHeight
  <2>1. /\ InBlock /\ checkpoint' = h /\ UNCHANGED <<chain, lastSeen, h, event, burnRows>>
        /\ Current \in burnRows /\ HasEvent
    BY <1>13 DEF SaveHeight, InBlock, RowsBehind, LoopOrder, InEvent
  <2>2. h \in 1..n /\ event \in 1..Len(chain[h])
    BY <1>2, <2>1, CurrentIsBurn
  <2>3. SingleBlocks => \A j \in DOMAIN chain[h] : chain[h][j] \in burnRows
    <3>1. DOMAIN chain[h] = 1..Len(chain[h]) /\ Len(chain[h]) \in Nat /\ DOMAIN chain = 1..n
      BY <1>2, <2>2, BlocksTyped DEF ChainOK
    <3>2. SingleBlocks => \A j \in 1..Len(chain[h]) : j = event
      BY <2>2, <3>1 DEF SingleBlocks
    <3> QED BY <2>1, <3>1, <3>2 DEF Current
  <2>4. RowsUpTo(lastSeen)'
    BY <1>2, <1>3, <2>1 DEF RowsUpTo
  <2>5. (SingleBlocks => RowsUpTo(checkpoint))'
    BY <1>1, <1>3, <1>12, <2>1, <2>3 DEF RowsUpTo
  <2> QED BY <1>2, <1>10, <2>1, <2>4, <2>5 DEF NothingAhead
<1>14. CASE FinishHeight
  <2>1. /\ InBlock /\ ~HasEvent /\ lastSeen' = h /\ checkpoint' = h /\ h' = h + 1 /\ pc' \in {"scan", "loop"}
        /\ UNCHANGED <<chain, burnRows>>
    BY <1>14 DEF FinishHeight, NextHeight, InBlock
  <2>2. h \in 1..n /\ Len(chain[h]) \in Nat /\ event \in Nat
    BY <1>2, <2>1, CurrentIsBurn
  <2>3. \A j \in DOMAIN chain[h] : j \in 1..(event - 1)
    BY <1>2, <2>1, <2>2, BlocksTyped DEF HasEvent
  <2>4. \A i \in 2..h : \A j \in DOMAIN chain[i] : chain[i][j] \in burnRows
    BY <1>3, <1>12, <2>1, <2>3
  <2>5. RowsUpTo(lastSeen)' /\ RowsUpTo(checkpoint)'
    BY <2>1, <2>4 DEF RowsUpTo
  <2> QED BY <2>1, <2>5 DEF NothingAhead, InBlock
<1>15. CASE Crash
  <2>1. /\ pc' = "loop" /\ lastSeen' = (IF c = 0 THEN 1 ELSE c)
        /\ UNCHANGED <<chain, checkpoint, burnRows>>
    BY <1>2, <1>15 DEF Crash
  <2>2. \A i \in 2..c : \A j \in DOMAIN chain[i] : chain[i][j] \in burnRows
    BY <1>1, <1>3, <1>15
  <2>3. 2..1 = {}
    OBVIOUS
  <2>4. RowsUpTo(lastSeen)' /\ RowsUpTo(checkpoint)'
    BY <1>2, <2>1, <2>2, <2>3 DEF RowsUpTo
  <2> QED BY <2>1, <2>4 DEF NothingAhead, InBlock
<1>16. CASE UNCHANGED cosmosVars \/ \E m \in Burns : PeerAnnounces(m) \/ VotesReady(m)
  <2>1. UNCHANGED <<chain, checkpoint, loopVars>> /\ burnRows \subseteq burnRows'
    BY <1>16 DEF cosmosVars, PeerAnnounces, VotesReady
  <2>2. (InBlock => \A j \in 1..(event - 1) : chain[h][j] \in burnRows)'
    BY <1>3, <2>1 DEF InBlock
  <2> QED BY <1>3, <1>4, <2>1, <2>2 DEF InBlock
<1> QED
  BY <1>1, <1>5, <1>7, <1>8, <1>9, <1>11, <1>13, <1>14, <1>15, <1>16 DEF CosmosNext, LoopStep, Fault

------------------------------------------------------------------------------
LEMMA CosmosInvariant == CosmosSpec => []CosmosInv
<1>1. CosmosInit => CosmosInv
  <2> SUFFICES ASSUME CosmosInit PROVE CosmosInv
    OBVIOUS
  <2>1. /\ chain = <<<<>>>> /\ checkpoint = 0 /\ burnRows = {} /\ published = {} /\ pending = {}
        /\ pc = "loop" /\ lastSeen = 1 /\ latest = 0 /\ h = 0 /\ event = 1
    BY DEF CosmosInit
  <2>2. chain \in Seq(Seq(Burns)) /\ Len(chain) = 1
    BY <2>1
  <2>3. nonceState \in [Burns -> {"", "observed", "burned", "ready"}] /\ \A n \in Burns : nonceState[n] = ""
    BY DEF CosmosInit
  <2>4. faults \in [DOMAIN Bounds -> Nat] /\ \A k \in DOMAIN Bounds : faults[k] <= Bounds[k]
    <3>1. faults = [kind \in DOMAIN Bounds |-> 0]
      BY DEF CosmosInit
    <3>2. \A k \in DOMAIN Bounds : Bounds[k] \in Nat
      BY CosmosWatcherParams DEF Bounds
    <3> QED BY <3>1, <3>2
  <2>5. CosmosTypeOK
    <3>1. ChainOK
      BY <2>2, CosmosWatcherParams DEF ChainOK
    <3>2. DaemonOK
      BY <2>1, <2>4, CosmosWatcherParams DEF DaemonOK
    <3> QED BY <2>3, <3>1, <3>2, TypeParts DEF StatesOK
  <2>6. LoopOrder
    BY <2>1, <2>2 DEF LoopOrder, InBlock, InEvent
  <2>7. RowsBehind
    BY <2>1, <2>3 DEF RowsBehind, InEvent, BurnedIsPublished
  <2>8. NothingAhead
    <3>1. 2..1 = {} /\ 2..0 = {}
      OBVIOUS
    <3> QED BY <2>1, <3>1 DEF NothingAhead, InBlock, RowsUpTo
  <2> QED BY <2>5, <2>6, <2>7, <2>8 DEF CosmosInv
<1>2. CosmosInv /\ [CosmosNext]_cosmosVars => CosmosInv'
  <2> SUFFICES ASSUME CosmosInv, [CosmosNext]_cosmosVars PROVE CosmosInv'
    OBVIOUS
  <2>1. ChainOK /\ StatesOK /\ DaemonOK /\ LoopOrder /\ RowsBehind /\ (Lossless => NothingAhead)
    BY TypeParts DEF CosmosInv
  <2>2. ChainOK' /\ StatesOK' /\ DaemonOK' /\ LoopOrder'
    BY <2>1, OrderStep
  <2>3. RowsBehind'
    BY <2>1, RowsStep
  <2>4. (Lossless => NothingAhead)'
    BY <2>1, NothingAheadStep
  <2>5. (ChainOK /\ StatesOK /\ DaemonOK => CosmosTypeOK)'
    <3>1. ChainOK /\ StatesOK /\ DaemonOK => CosmosTypeOK
      BY TypeParts
    <3> QED BY DEF ChainOK, StatesOK, DaemonOK, CosmosTypeOK
  <2> QED BY <2>2, <2>3, <2>4, <2>5 DEF CosmosInv
<1> QED BY <1>1, <1>2, PTL DEF CosmosSpec

\* In every state the watcher's variables have their types: the checkpoint never
\* goes beyond the chain.
THEOREM CosmosTyped == CosmosSpec => []CosmosTypeOK
<1>1. CosmosInv => CosmosTypeOK
  BY DEF CosmosInv
<1> QED BY <1>1, CosmosInvariant, PTL

\* IngestBurnEvent and ProcessPendingBurns write "burned" after the bus has
\* taken the event: a burn in that state was announced, also when the daemon
\* crashed between the two statements and a vote came in between.
THEOREM BurnedWasPublished == CosmosSpec => []BurnedIsPublished
<1>1. CosmosInv => BurnedIsPublished
  BY DEF CosmosInv, RowsBehind
<1> QED BY <1>1, CosmosInvariant, PTL

\* Every burn of a block the loop has passed has its row, through refused
\* publications and votes of peers, and through crashes too where no block holds
\* two burns: only a failed call leaves one out.
THEOREM NoBurnIsSkipped == CosmosSpec => []SkippedOnlyByFault
<1>1. CosmosInv => SkippedOnlyByFault
  BY DEF CosmosInv, NothingAhead, Lossless, SingleBlocks, RowsUpTo, SkippedOnlyByFault, NoBurnSkipped
<1> QED BY <1>1, CosmosInvariant, PTL
=============================================================================
