-------------------------- MODULE BSCWatcher_proofs --------------------------
(***************************************************************************)
(* What the watch over BSC promises, for every set of deposits, every      *)
(* depth of confirmation and every number of faults: what it publishes was *)
(* deep enough, and only a crash, a failed call or a reorganisation makes  *)
(* it pass over a deposit.                                                 *)
(***************************************************************************)
EXTENDS BSCWatcher, TLAPS, FiniteSetTheorems, SequenceTheorems

\* Where the loop's variables are: the checkpoint is the block in hand, or one
\* the loop has passed.
LoopOrder ==
    /\ latest <= Len(chain)
    /\ lastSeen <= StartBlock \/ lastSeen <= Len(chain)
    /\ phase # "idle" => lastSeen < b /\ b <= latest
    /\ phase = "publish" => checkpoint = b
    /\ phase # "publish" => checkpoint <= lastSeen

Held(lock, block) == <<lock, block>> \in Pending \cup published

Remains(entry) == \E j \in DOMAIN remaining : remaining[j] = entry

\* Undisturbed, the loop leaves no block out; it holds all of the block in hand,
\* and all entries of the list it has come to and not published.
NothingAhead ==
    /\ NothingSkipped
    /\ phase # "idle" => b = lastSeen + 1
    /\ phase = "publish" => \A l \in chain[b] : Held(l, b)
    /\ phase = "publish" =>
         \A j \in 1..(next - 1) : pendingLocks[j] \in published \/ Remains(pendingLocks[j])

WatcherInv == WatcherTypeOK /\ LoopOrder /\ PublishedDeepEnough /\ (Undisturbed => NothingAhead)

------------------------------------------------------------------------------
LEMMA StrikeCounted ==
    ASSUME WatcherTypeOK, NEW kind \in DOMAIN Bounds, Strike(kind)
    PROVE  /\ faults' \in [DOMAIN Bounds -> Nat]
           /\ \A k \in DOMAIN Bounds : faults'[k] <= Bounds[k]
           /\ kind # "bus" => ~Undisturbed'
           /\ Undisturbed' => Undisturbed
<1>1. faults \in [DOMAIN Bounds -> Nat] /\ \A k \in DOMAIN Bounds : faults[k] <= Bounds[k]
  BY DEF WatcherTypeOK
<1>2. \A k \in DOMAIN Bounds : Bounds[k] \in Nat
  BY WatcherParams DEF Bounds
<1>3. /\ faults' = [faults EXCEPT ![kind] = faults[kind] + 1]
      /\ faults[kind] < Bounds[kind]
  BY DEF Strike
<1>4. DOMAIN Bounds = {"crash", "rpc", "bus", "reorg"}
  BY DEF Bounds
<1>5. faults' \in [DOMAIN Bounds -> Nat]
  BY <1>1, <1>3
<1>6. \A k \in DOMAIN Bounds : faults'[k] = IF k = kind THEN faults[k] + 1 ELSE faults[k]
  BY <1>1, <1>3
<1>7. \A k \in DOMAIN Bounds : faults'[k] <= Bounds[k]
  BY <1>1, <1>2, <1>3, <1>6
<1>8. kind # "bus" => ~Undisturbed'
  BY <1>1, <1>4, <1>6 DEF Undisturbed
<1>9. Undisturbed' => Undisturbed
  BY <1>1, <1>4, <1>6 DEF Undisturbed
<1> QED BY <1>5, <1>7, <1>8, <1>9

\* What the logs of a block add to the list.
LEMMA LogsAppended ==
    ASSUME WatcherTypeOK, LoopOrder, ScanBlock
    PROVE  /\ b \in 1..Len(chain) /\ b \in 1..MaxBlock /\ chain[b] \in SUBSET Locks
           /\ pendingLocks' \in Seq(Entries)
           /\ Pending' = Pending \cup {<<l, b>> : l \in chain[b]}
<1>1. b \in 1..Len(chain) /\ b \in 1..MaxBlock /\ chain[b] \in SUBSET Locks
  <2>1. b \in Nat /\ b <= Len(chain) /\ 0 < b /\ Len(chain) \in Nat /\ Len(chain) <= MaxBlock
    BY WatcherParams DEF ScanBlock, LoopOrder, WatcherTypeOK
  <2>2. b \in 1..Len(chain) /\ b \in 1..MaxBlock
    BY <2>1, WatcherParams
  <2> QED BY <2>2, ElementOfSeq DEF WatcherTypeOK
<1> DEFINE n == Cardinality(chain[b])
<1>2. n \in Nat
  BY <1>1, WatcherParams, FS_Subset, FS_CardinalityType
<1>3. PICK logs \in [1..n -> chain[b]] :
         /\ \A l \in chain[b] : \E i \in DOMAIN logs : logs[i] = l
         /\ pendingLocks' = pendingLocks \o [i \in DOMAIN logs |-> <<logs[i], b>>]
  BY DEF ScanBlock
<1> HIDE DEF n
<1> DEFINE new == [i \in DOMAIN logs |-> <<logs[i], b>>]
           p == Len(pendingLocks)
<1>4. new \in Seq(Entries) /\ Len(new) = n /\ \A i \in 1..n : new[i] = <<logs[i], b>>
  <2>1. DOMAIN logs = 1..n
    BY <1>3
  <2>2. \A i \in 1..n : <<logs[i], b>> \in Entries
    BY <1>1, <1>3 DEF Entries
  <2>3. new \in [1..n -> Entries]
    BY <2>1, <2>2
  <2> QED BY <1>2, <2>1, <2>3
<1>5. pendingLocks \in Seq(Entries)
  BY DEF WatcherTypeOK
<1> HIDE DEF new
<1>6. /\ pendingLocks' \in Seq(Entries) /\ Len(pendingLocks') = p + n
      /\ \A i \in 1..(p + n) : pendingLocks'[i] = IF i <= p THEN pendingLocks[i] ELSE new[i - p]
  BY <1>3, <1>4, <1>5, ConcatProperties DEF new
<1>7. DOMAIN pendingLocks' = 1..(p + n) /\ DOMAIN pendingLocks = 1..p /\ p \in Nat
  BY <1>5, <1>6
<1>8. Pending' \subseteq Pending \cup {<<l, b>> : l \in chain[b]}
  <2>1. ASSUME NEW i \in 1..(p + n)
        PROVE  pendingLocks'[i] \in Pending \cup {<<l, b>> : l \in chain[b]}
    <3>1. CASE i <= p
      <4>1. i \in DOMAIN pendingLocks /\ pendingLocks'[i] = pendingLocks[i]
        BY <1>6, <1>7, <3>1
      <4> QED BY <4>1 DEF Pending
    <3>2. CASE ~(i <= p)
      <4>1. i - p \in 1..n
        BY <1>2, <1>7, <3>2
      <4>2. pendingLocks'[i] = <<logs[i - p], b>> /\ logs[i - p] \in chain[b]
        BY <1>3, <1>4, <1>6, <3>2, <4>1
      <4> QED BY <4>2
    <3> QED BY <3>1, <3>2
  <2> QED BY <1>7, <2>1 DEF Pending
<1>9. Pending \subseteq Pending'
  <2>1. \A i \in 1..p : i \in 1..(p + n) /\ pendingLocks'[i] = pendingLocks[i]
    BY <1>2, <1>6, <1>7
  <2> QED BY <1>7, <2>1 DEF Pending
<1>10. {<<l, b>> : l \in chain[b]} \subseteq Pending'
  <2>1. ASSUME NEW l \in chain[b]
        PROVE  <<l, b>> \in Pending'
    <3>1. PICK i \in 1..n : logs[i] = l
      BY <1>3
    <3>2. i + p \in 1..(p + n) /\ ~(i + p <= p) /\ (i + p) - p = i
      BY <1>2, <1>7
    <3>3. pendingLocks'[i + p] = <<l, b>>
      BY <1>4, <1>6, <3>1, <3>2
    <3> QED BY <1>7, <3>2, <3>3 DEF Pending
  <2> QED BY <2>1
<1> QED BY <1>1, <1>6, <1>8, <1>9, <1>10

------------------------------------------------------------------------------
\* The loop goes on to a later block, up to the head it has read.
LEMMA ScanMoves ==
    ASSUME WatcherTypeOK, LoopOrder, phase # "idle", NextScan
    PROVE  /\ b' = b + 1 /\ b' \in Nat /\ latest' = latest
           /\ phase' \in {"idle", "scan"}
           /\ phase' # "idle" => b' <= latest
BY DEF NextScan, WatcherTypeOK, LoopOrder

\* Types, and the order of the loop's variables.
LEMMA OrderStep ==
    ASSUME WatcherTypeOK, LoopOrder, [WatcherNext]_watcherVars
    PROVE  WatcherTypeOK' /\ LoopOrder'
<1> USE WatcherParams DEF dbVars, loopVars
<1>1. ASSUME NEW kind \in DOMAIN Bounds, Strike(kind)
      PROVE  faults' \in [DOMAIN Bounds -> Nat] /\ \A k \in DOMAIN Bounds : faults'[k] <= Bounds[k]
  BY <1>1, StrikeCounted
<1>2. {"crash", "rpc", "bus", "reorg"} = DOMAIN Bounds
  BY DEF Bounds
<1>3. CASE Mine
  <2>1. PICK block \in SUBSET (Locks \ OnChain) : chain' = Append(chain, block)
    BY <1>3 DEF Mine
  <2>2. chain \in Seq(SUBSET Locks) /\ block \in SUBSET Locks /\ Len(chain) < MaxBlock
    BY <1>3 DEF Mine, WatcherTypeOK
  <2>3. chain' \in Seq(SUBSET Locks) /\ Len(chain') = Len(chain) + 1
    BY <2>1, <2>2
  <2>4. UNCHANGED <<dbVars, published, loopVars, faults>>
    BY <1>3 DEF Mine
  <2>5. PICK n \in Nat : Len(chain) = n /\ Len(chain') = n + 1 /\ n < MaxBlock
    BY <2>2, <2>3
  <2>6. WatcherTypeOK'
    BY <2>3, <2>4, <2>5 DEF WatcherTypeOK
  <2>7. LoopOrder'
    BY <2>4, <2>5 DEF WatcherTypeOK, LoopOrder
  <2> QED BY <2>6, <2>7
<1>4. CASE Reorg
  <2>1. chain' \in Seq(SUBSET Locks) /\ Len(chain') = Len(chain)
    <3>1. PICK n \in 1..ReorgDepth :
             chain' = [i \in DOMAIN chain |-> IF i <= Len(chain) - n THEN chain[i] ELSE {}]
      BY <1>4 DEF Reorg
    <3>2. chain \in Seq(SUBSET Locks)
      BY DEF WatcherTypeOK
    <3>3. \A i \in 1..Len(chain) : chain[i] \in SUBSET Locks
      BY <3>2, ElementOfSeq
    <3>4. DOMAIN chain = 1..Len(chain) /\ Len(chain) \in Nat
      BY <3>2
    <3>5. chain' \in [1..Len(chain) -> SUBSET Locks]
      BY <3>1, <3>3, <3>4
    <3> QED BY <3>4, <3>5
  <2> QED BY <1>1, <1>2, <1>4, <2>1 DEF Reorg, WatcherTypeOK, LoopOrder
<1>5. CASE FetchHead
  BY <1>5 DEF FetchHead, WatcherTypeOK, LoopOrder
<1>6. CASE ScanFails
  <2>1. phase # "idle" /\ NextScan /\ UNCHANGED <<chain, dbVars, published, lastSeen, pendingLocks, next, remaining>>
    BY <1>6 DEF ScanFails
  <2>2. faults' \in [DOMAIN Bounds -> Nat] /\ \A k \in DOMAIN Bounds : faults'[k] <= Bounds[k]
    BY <1>1, <1>2, <1>6 DEF ScanFails
  <2>3. checkpoint <= lastSeen
    BY <1>6 DEF ScanFails, LoopOrder
  <2> QED BY <2>1, <2>2, <2>3, ScanMoves DEF WatcherTypeOK, LoopOrder
<1>7. CASE ScanBlock
  <2>1. b \in 1..MaxBlock /\ pendingLocks' \in Seq(Entries)
    BY <1>7, LogsAppended
  <2>2. Len(pendingLocks') \in Nat
    BY <2>1
  <2>3. /\ checkpoint' = b /\ phase = "scan" /\ phase' = "publish" /\ next' = 1 /\ remaining' = <<>>
        /\ UNCHANGED <<chain, confirmed, published, lastSeen, latest, b, faults>>
    BY <1>7 DEF ScanBlock
  <2>4. remaining' \in Seq(Entries)
    BY <2>3
  <2> QED BY <2>1, <2>2, <2>3, <2>4 DEF WatcherTypeOK, LoopOrder
<1>8. ASSUME phase = "publish", next <= Len(pendingLocks)
      PROVE  pendingLocks[next] \in Entries /\ pendingLocks[next][1] \in Locks
  <2>1. next \in 1..Len(pendingLocks)
    BY <1>8 DEF WatcherTypeOK
  <2>2. pendingLocks[next] \in Entries
    BY <2>1, ElementOfSeq DEF WatcherTypeOK
  <2> QED BY <2>2 DEF Entries
<1>9. CASE PublishNext
  <2> DEFINE entry == pendingLocks[next]
  <2>1. /\ phase = "publish" /\ next <= Len(pendingLocks) /\ next' = next + 1
        /\ UNCHANGED <<chain, checkpoint, phase, lastSeen, latest, b, pendingLocks, faults>>
    BY <1>9 DEF PublishNext
  <2>2. entry \in Entries /\ entry[1] \in Locks
    BY <1>8, <2>1
  <2>3. /\ published' = published \/ published' = published \cup {entry}
        /\ confirmed' = confirmed \/ confirmed' = confirmed \cup {entry[1]}
        /\ remaining' = remaining \/ remaining' = Append(remaining, entry)
    BY <1>9 DEF PublishNext
  <2> HIDE DEF entry
  <2>4. remaining' \in Seq(Entries)
    <3>1. remaining \in Seq(Entries)
      BY DEF WatcherTypeOK
    <3>2. Append(remaining, entry) \in Seq(Entries)
      BY <2>2, <3>1, AppendProperties
    <3> QED BY <2>3, <3>1, <3>2
  <2>5. next' \in 1..(Len(pendingLocks') + 1)
    BY <2>1 DEF WatcherTypeOK
  <2>6. published' \subseteq Entries /\ confirmed' \subseteq Locks
    BY <2>2, <2>3 DEF WatcherTypeOK
  <2> QED BY <2>1, <2>4, <2>5, <2>6 DEF WatcherTypeOK, LoopOrder
<1>10. CASE PublishFails
  <2>1. /\ phase = "publish" /\ phase # "idle" /\ lastSeen' = b /\ NextScan
        /\ UNCHANGED <<chain, dbVars, published, pendingLocks, next, remaining>>
    BY <1>10 DEF PublishFails
  <2>2. faults' \in [DOMAIN Bounds -> Nat] /\ \A k \in DOMAIN Bounds : faults'[k] <= Bounds[k]
    BY <1>1, <1>2, <1>10 DEF PublishFails
  <2> QED BY <2>1, <2>2, ScanMoves DEF WatcherTypeOK, LoopOrder
<1>11. CASE FinishBlock
  <2>1. /\ phase = "publish" /\ phase # "idle" /\ lastSeen' = b /\ NextScan
        /\ pendingLocks' = remaining /\ next' = 1 /\ remaining' = <<>>
        /\ UNCHANGED <<chain, dbVars, published, faults>>
    BY <1>11 DEF FinishBlock
  <2>2. remaining' \in Seq(Entries) /\ Len(pendingLocks') \in Nat
    BY <2>1 DEF WatcherTypeOK
  <2> QED BY <2>1, <2>2, ScanMoves DEF WatcherTypeOK, LoopOrder
<1>12. CASE Crash
  <2>1. /\ phase' = "idle" /\ lastSeen' = (IF checkpoint = 0 THEN StartBlock ELSE checkpoint)
        /\ latest' = 0 /\ b' = 0 /\ pendingLocks' = <<>> /\ next' = 1 /\ remaining' = <<>>
        /\ UNCHANGED <<chain, dbVars, published>>
    BY <1>12 DEF Crash
  <2>2. faults' \in [DOMAIN Bounds -> Nat] /\ \A k \in DOMAIN Bounds : faults'[k] <= Bounds[k]
    BY <1>1, <1>2, <1>12 DEF Crash
  <2>3. pendingLocks' \in Seq(Entries) /\ remaining' \in Seq(Entries) /\ Len(pendingLocks') = 0
    BY <2>1
  <2>4. checkpoint <= StartBlock \/ checkpoint <= Len(chain)
    BY DEF LoopOrder, WatcherTypeOK
  <2>5. WatcherTypeOK'
    BY <2>1, <2>2, <2>3 DEF WatcherTypeOK
  <2>6. LoopOrder'
    BY <2>1, <2>4 DEF LoopOrder, WatcherTypeOK
  <2> QED BY <2>5, <2>6
<1>13. CASE UNCHANGED watcherVars
  BY <1>13 DEF watcherVars, WatcherTypeOK, LoopOrder
<1> QED
  BY <1>3, <1>4, <1>5, <1>6, <1>7, <1>9, <1>10, <1>11, <1>12, <1>13 DEF WatcherNext, WatcherStep

\* The checkpoint never moves back.
LEMMA CheckpointGrows ==
    ASSUME WatcherTypeOK, LoopOrder, [WatcherNext]_watcherVars
    PROVE  checkpoint' >= checkpoint
<1>1. CASE ScanBlock
  BY <1>1 DEF ScanBlock, WatcherTypeOK, LoopOrder
<1>2. CASE UNCHANGED checkpoint
  BY <1>2 DEF WatcherTypeOK
<1> QED
  BY <1>1, <1>2
     DEF WatcherNext, WatcherStep, watcherVars, dbVars, Mine, Reorg, FetchHead, ScanFails,
         PublishNext, PublishFails, FinishBlock, Crash

LEMMA DeepStep ==
    ASSUME WatcherTypeOK, LoopOrder, PublishedDeepEnough, [WatcherNext]_watcherVars
    PROVE  PublishedDeepEnough'
<1>1. checkpoint' >= checkpoint /\ checkpoint \in Nat /\ checkpoint' \in Nat
  <2>1. checkpoint' >= checkpoint
    BY CheckpointGrows
  <2>2. WatcherTypeOK'
    BY OrderStep
  <2>3. checkpoint \in Nat
    BY WatcherParams DEF WatcherTypeOK
  <2>4. checkpoint' \in Nat
    BY <2>2, WatcherParams DEF WatcherTypeOK
  <2> QED BY <2>1, <2>3, <2>4
<1>2. \A entry \in Entries : entry[2] \in Nat /\ Confirmations[entry[1]] \in Nat
  BY WatcherParams DEF Entries
<1>3. ASSUME published' \subseteq published
      PROVE  PublishedDeepEnough'
  <2> SUFFICES ASSUME NEW entry \in published'
               PROVE  checkpoint' >= entry[2] + Confirmations[entry[1]]
    BY DEF PublishedDeepEnough
  <2>1. entry \in published /\ entry \in Entries
    BY <1>3 DEF WatcherTypeOK
  <2>2. checkpoint >= entry[2] + Confirmations[entry[1]]
    BY <2>1 DEF PublishedDeepEnough
  <2> QED BY <1>1, <1>2, <2>1, <2>2
<1>4. CASE PublishNext
  <2>1. CASE Deep(pendingLocks[next]) /\ published' = published \cup {pendingLocks[next]}
    <3>1. checkpoint' = checkpoint /\ checkpoint = b
      BY <1>4 DEF PublishNext, LoopOrder
    <3>2. checkpoint >= pendingLocks[next][2] + Confirmations[pendingLocks[next][1]]
      BY <2>1, <3>1 DEF Deep
    <3> QED BY <2>1, <3>1, <3>2 DEF PublishedDeepEnough
  <2>2. CASE published' = published
    BY <1>3, <2>2
  <2> QED BY <1>4, <2>1, <2>2 DEF PublishNext
<1> QED
  BY <1>3, <1>4
     DEF WatcherNext, WatcherStep, watcherVars, dbVars, Mine, Reorg, FetchHead, ScanFails, ScanBlock,
         PublishFails, FinishBlock, Crash

------------------------------------------------------------------------------
\* A loop that moves by a block it holds skips nothing, as long as what was held
\* stays held.
LEMMA HeldStep ==
    ASSUME WatcherTypeOK, NothingSkipped, UNCHANGED chain,
           Pending \cup published \subseteq Pending' \cup published',
           lastSeen' = lastSeen \/ (lastSeen' = lastSeen + 1 /\ \A l \in chain[lastSeen + 1] : Held(l, lastSeen + 1))
    PROVE  NothingSkipped'
<1> SUFFICES ASSUME NEW i \in DOMAIN chain, i > StartBlock, i <= lastSeen', NEW l \in chain[i]
             PROVE  <<l, i>> \in Pending \cup published
  BY DEF NothingSkipped
<1>1. i \in Nat /\ lastSeen \in Nat
  BY DEF WatcherTypeOK
<1>2. CASE i <= lastSeen
  BY <1>2 DEF NothingSkipped
<1>3. CASE ~(i <= lastSeen)
  <2>1. i = lastSeen + 1 /\ lastSeen' = lastSeen + 1
    BY <1>1, <1>3
  <2>2. lastSeen' # lastSeen
    BY <1>1, <2>1
  <2>3. \A k \in chain[lastSeen + 1] : Held(k, lastSeen + 1)
    BY <2>2
  <2>4. Held(l, i)
    BY <2>1, <2>3
  <2> QED BY <2>4 DEF Held
<1> QED BY <1>2, <1>3

LEMMA NothingAheadStep ==
    ASSUME WatcherTypeOK, LoopOrder, Undisturbed => NothingAhead, [WatcherNext]_watcherVars
    PROVE  Undisturbed' => NothingAhead'
<1> USE WatcherParams DEF dbVars, loopVars
<1> SUFFICES ASSUME Undisturbed' PROVE NothingAhead'
  OBVIOUS
<1>1. "crash" \in DOMAIN Bounds /\ "rpc" \in DOMAIN Bounds /\ "bus" \in DOMAIN Bounds /\ "reorg" \in DOMAIN Bounds
  BY DEF Bounds
<1>2. ~Reorg /\ ~ScanFails /\ ~Crash
  BY <1>1, StrikeCounted DEF Reorg, ScanFails, Crash
<1>3. NothingAhead
  <2>1. UNCHANGED faults => Undisturbed
    BY DEF Undisturbed
  <2>2. PublishFails => Undisturbed
    BY <1>1, StrikeCounted DEF PublishFails
  <2>3. UNCHANGED faults \/ PublishFails
    BY <1>2 DEF WatcherNext, WatcherStep, watcherVars, Mine, FetchHead, ScanBlock, PublishNext, FinishBlock
  <2> QED BY <2>1, <2>2, <2>3
<1>4. /\ NothingSkipped
      /\ phase # "idle" => b = lastSeen + 1
      /\ phase = "publish" => \A l \in chain[b] : Held(l, b)
      /\ phase = "publish" => \A j \in 1..(next - 1) : pendingLocks[j] \in published \/ Remains(pendingLocks[j])
  BY <1>3 DEF NothingAhead
<1>5. CASE Mine
  <2>1. PICK block \in SUBSET Locks : chain' = Append(chain, block)
    BY <1>5 DEF Mine
  <2>2. PICK n \in Nat : Len(chain) = n
    BY DEF WatcherTypeOK
  <2>3. DOMAIN chain' = 1..(n + 1) /\ DOMAIN chain = 1..n /\ \A i \in 1..n : chain'[i] = chain[i]
    BY <2>1, <2>2 DEF WatcherTypeOK
  <2>4. UNCHANGED <<dbVars, published, loopVars, faults>>
    BY <1>5 DEF Mine
  <2>5. Pending' = Pending /\ \A e : Remains(e)' <=> Remains(e)
    BY <2>4 DEF Pending, Remains
  <2>6. NothingSkipped'
    <3> SUFFICES ASSUME NEW i \in 1..(n + 1), i > StartBlock, i <= lastSeen, NEW l \in chain'[i]
                 PROVE  <<l, i>> \in Pending \cup published
      BY <2>3, <2>4, <2>5 DEF NothingSkipped
    <3>1. i \in 1..n
      BY <2>2 DEF LoopOrder, WatcherTypeOK
    <3> QED BY <1>4, <2>3, <3>1 DEF NothingSkipped
  <2>7. phase' = "publish" => b \in 1..n
    BY <2>2, <2>4 DEF LoopOrder, WatcherTypeOK
  <2>8. phase' = "publish" => (\A l \in chain[b] : Held(l, b))'
    BY <1>4, <2>3, <2>4, <2>5, <2>7 DEF Held
  <2>9. phase' = "publish" =>
           (\A j \in 1..(next - 1) : pendingLocks[j] \in published \/ Remains(pendingLocks[j]))'
    BY <1>4, <2>4, <2>5
  <2> QED BY <1>4, <2>4, <2>6, <2>8, <2>9 DEF NothingAhead
<1>6. CASE FetchHead
  <2>1. /\ phase' = "scan" /\ b' = lastSeen + 1
        /\ UNCHANGED <<chain, published, lastSeen, pendingLocks>>
    BY <1>6 DEF FetchHead
  <2>2. NothingSkipped'
    BY <1>4, <2>1 DEF NothingSkipped, Pending
  <2> QED BY <2>1, <2>2 DEF NothingAhead
<1>7. CASE ScanBlock
  <2>1. Pending' = Pending \cup {<<l, b>> : l \in chain[b]}
    BY <1>7, LogsAppended
  <2>2. phase # "idle" /\ phase' = "publish" /\ next' = 1 /\ UNCHANGED <<chain, published, lastSeen, b>>
    BY <1>7 DEF ScanBlock
  <2>3. NothingSkipped'
    BY <1>4, <2>1, <2>2, HeldStep
  <2>4. (\A l \in chain[b] : Held(l, b))'
    BY <2>1, <2>2 DEF Held
  <2>5. 1..(next' - 1) = {}
    BY <2>2
  <2> QED BY <1>4, <2>2, <2>3, <2>4, <2>5 DEF NothingAhead
<1>8. CASE PublishNext
  <2>0. PICK entry : entry = pendingLocks[next]
    OBVIOUS
  <2>1. /\ phase = "publish" /\ next' = next + 1
        /\ UNCHANGED <<chain, phase, lastSeen, b, pendingLocks>>
    BY <1>8 DEF PublishNext
  <2>2. \/ published' = published \cup {entry} /\ remaining' = remaining
        \/ published' = published /\ remaining' = Append(remaining, entry)
    BY <1>8, <2>0 DEF PublishNext
  <2>3. (\A e : Remains(e) => Remains(e)') /\ (entry \in published' \/ Remains(entry)')
    <3>1. CASE published' = published \cup {entry} /\ remaining' = remaining
      BY <3>1 DEF Remains
    <3>2. CASE published' = published /\ remaining' = Append(remaining, entry)
      <4>1. PICK r \in Nat : Len(remaining) = r
        BY DEF WatcherTypeOK
      <4>2. DOMAIN remaining = 1..r /\ DOMAIN remaining' = 1..(r + 1)
        BY <3>2, <4>1 DEF WatcherTypeOK
      <4>3. (\A j \in 1..r : remaining'[j] = remaining[j]) /\ remaining'[r + 1] = entry
        BY <3>2, <4>1 DEF WatcherTypeOK
      <4>4. (\A j \in 1..r : j \in 1..(r + 1)) /\ r + 1 \in 1..(r + 1)
        BY <4>1
      <4>5. \A e : Remains(e) => Remains(e)'
        BY <4>2, <4>3, <4>4 DEF Remains
      <4>6. Remains(entry)'
        BY <4>2, <4>3, <4>4 DEF Remains
      <4> QED BY <4>5, <4>6
    <3> QED BY <2>2, <3>1, <3>2
  <2>4. Pending' = Pending /\ published \subseteq published'
    BY <2>1, <2>2 DEF Pending
  <2>5. NothingSkipped'
    BY <1>4, <2>1, <2>4, HeldStep
  <2>6. (\A l \in chain[b] : Held(l, b))'
    BY <1>4, <2>1, <2>4 DEF Held
  <2>7. (\A j \in 1..(next - 1) : pendingLocks[j] \in published \/ Remains(pendingLocks[j]))'
    <3>1. PICK n \in Nat : next = n
      BY DEF WatcherTypeOK
    <3>2. next' = n + 1
      BY <2>1, <3>1
    <3>3. \A j \in 1..(next' - 1) : j \in 1..(next - 1) \/ j = next
      BY <3>1, <3>2
    <3>4. \A j \in 1..(next - 1) : pendingLocks[j] \in published' \/ Remains(pendingLocks[j])'
      BY <1>4, <2>1, <2>3, <2>4
    <3>5. ASSUME NEW j \in 1..(next' - 1)
          PROVE  pendingLocks[j] \in published' \/ (\E k \in DOMAIN remaining' : remaining'[k] = pendingLocks[j])
      BY <2>0, <2>1, <2>3, <3>3, <3>4 DEF Remains
    <3> QED BY <2>1, <3>5 DEF Remains
  <2> QED BY <1>4, <2>1, <2>5, <2>6, <2>7 DEF NothingAhead
<1>9. ASSUME phase = "publish", lastSeen' = b, NextScan, UNCHANGED chain,
             Pending \cup published \subseteq Pending' \cup published'
      PROVE  NothingAhead'
  <2>1. b = lastSeen + 1 /\ \A l \in chain[b] : Held(l, b)
    BY <1>4, <1>9
  <2>2. NothingSkipped'
    BY <1>4, <1>9, <2>1, HeldStep
  <2>3. phase' # "publish" /\ b' = lastSeen' + 1
    BY <1>9 DEF NextScan
  <2> QED BY <2>2, <2>3 DEF NothingAhead
<1>10. CASE PublishFails
  <2>1. phase = "publish" /\ lastSeen' = b /\ NextScan /\ UNCHANGED <<chain, published, pendingLocks>>
    BY <1>10 DEF PublishFails
  <2>2. Pending' = Pending
    BY <2>1 DEF Pending
  <2> QED BY <1>9, <2>1, <2>2
<1>11. CASE FinishBlock
  <2>1. /\ phase = "publish" /\ next > Len(pendingLocks) /\ lastSeen' = b /\ NextScan
        /\ pendingLocks' = remaining /\ UNCHANGED <<chain, published>>
    BY <1>11 DEF FinishBlock
  <2>2. \A j \in DOMAIN pendingLocks : j \in 1..(next - 1)
    BY <2>1 DEF WatcherTypeOK
  <2>3. \A j \in DOMAIN pendingLocks : pendingLocks[j] \in published \/ Remains(pendingLocks[j])
    BY <1>4, <2>1, <2>2
  <2>4. Pending \cup published \subseteq Pending' \cup published'
    BY <2>1, <2>3 DEF Pending, Remains
  <2> QED BY <1>9, <2>1, <2>4
<1>12. CASE UNCHANGED watcherVars
  <2>1. UNCHANGED <<chain, published, phase, lastSeen, b, pendingLocks, next, remaining>>
    BY <1>12 DEF watcherVars
  <2> QED BY <1>3, <2>1 DEF NothingAhead, NothingSkipped, Held, Pending, Remains
<1> QED BY <1>2, <1>5, <1>6, <1>7, <1>8, <1>10, <1>11, <1>12 DEF WatcherNext, WatcherStep

------------------------------------------------------------------------------
LEMMA WatcherInvariant == WatcherSpec => []WatcherInv
<1>1. WatcherInit => WatcherInv
  <2> SUFFICES ASSUME WatcherInit PROVE WatcherInv
    OBVIOUS
  <2>1. /\ chain = <<>> /\ pendingLocks = <<>> /\ remaining = <<>> /\ published = {} /\ confirmed = {}
        /\ phase = "idle" /\ lastSeen = StartBlock /\ latest = 0 /\ b = 0 /\ checkpoint = 0 /\ next = 1
    BY DEF WatcherInit
  <2>2. faults \in [DOMAIN Bounds -> Nat] /\ \A k \in DOMAIN Bounds : faults[k] <= Bounds[k]
    BY WatcherParams DEF WatcherInit, Bounds
  <2>3. chain \in Seq(SUBSET Locks) /\ pendingLocks \in Seq(Entries) /\ remaining \in Seq(Entries)
    BY <2>1
  <2>4. Len(chain) = 0 /\ Len(pendingLocks) = 0 /\ DOMAIN chain = {}
    BY <2>1
  <2>5. WatcherTypeOK
    BY <2>1, <2>2, <2>3, <2>4, WatcherParams DEF WatcherTypeOK
  <2>6. LoopOrder
    BY <2>1, <2>4, WatcherParams DEF LoopOrder
  <2>7. NothingAhead
    BY <2>1, <2>4 DEF NothingAhead, NothingSkipped
  <2>8. PublishedDeepEnough
    BY <2>1 DEF PublishedDeepEnough
  <2> QED BY <2>5, <2>6, <2>7, <2>8 DEF WatcherInv
<1>2. WatcherInv /\ [WatcherNext]_watcherVars => WatcherInv'
  BY OrderStep, DeepStep, NothingAheadStep DEF WatcherInv
<1> QED BY <1>1, <1>2, PTL DEF WatcherSpec

\* In every state the watcher's variables have their types: the position in the
\* list of pending locks stays within it, and the checkpoint within the chain.
THEOREM WatcherTyped == WatcherSpec => []WatcherTypeOK
<1>1. WatcherInv => WatcherTypeOK
  BY DEF WatcherInv
<1> QED BY <1>1, WatcherInvariant, PTL

\* UpdateBlockNumber compares with the block the loop is at: no deposit is
\* published with fewer confirmations than its amount requires, through crashes
\* and reorganisations too.
THEOREM PublishedWereDeep == WatcherSpec => []PublishedDeepEnough
<1>1. WatcherInv => PublishedDeepEnough
  BY DEF WatcherInv
<1> QED BY <1>1, WatcherInvariant, PTL

\* Refused publications make the loop pass over no deposit, however many there
\* are: only a crash, a failed FilterLogs or a reorganisation does.
THEOREM NothingIsSkipped == WatcherSpec => []SkippedOnlyByFault
<1>1. WatcherInv => SkippedOnlyByFault
  BY DEF WatcherInv, NothingAhead, SkippedOnlyByFault
<1> QED BY <1>1, WatcherInvariant, PTL
=============================================================================
