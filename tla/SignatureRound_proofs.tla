------------------------ MODULE SignatureRound_proofs -------------------------
(***************************************************************************)
(* What SignatureRound promises of the transactions it broadcasts, for     *)
(* every committee, quorum and number of faults: each carries a quorum of  *)
(* signatures, and there are no more of them than votes beyond the quorum  *)
(* and messages delivered again.                                           *)
(*                                                                         *)
(* The second needs an account.  A broadcast made or under way, a vote of  *)
(* a relayer heard before, and a vote this daemon has yet to repeat are    *)
(* each owed to a message delivered again or to a relayer beyond the       *)
(* quorum; OwedStep shows that no handler spends what it does not owe.     *)
(***************************************************************************)
EXTENDS SignatureRound, TLAPS, FiniteSetTheorems, SequenceTheorems

\* Whether the event has yet to be published.
HasPublish(plan) == \E i \in DOMAIN plan : plan[i] = "publish"

\* The watcher publishes once.
LEMMA PublishesOnce ==
    /\ WatcherPlan \in Seq(NonceStates \cup {"publish"}) /\ Len(WatcherPlan) \in {2, 3}
    /\ \E p \in 1..Len(WatcherPlan) : \A j \in 1..Len(WatcherPlan) : WatcherPlan[j] = "publish" <=> j = p
<1>1. CASE Kind = "lock"
  <2>1. WatcherPlan = <<"publish", "confirmed">>
    BY <1>1 DEF WatcherPlan
  <2> QED BY <2>1 DEF NonceStates
<1>2. CASE Kind = "burn"
  <2>1. WatcherPlan = <<"observed", "publish", "burned">>
    BY <1>2 DEF WatcherPlan
  <2>2. Len(WatcherPlan) = 3
    BY <2>1
  <2>3. \A j \in 1..3 : WatcherPlan[j] = "publish" <=> j = 2
    BY <2>1
  <2> QED BY <2>1, <2>2, <2>3 DEF NonceStates
<1> QED BY <1>1, <1>2, RoundParams

LEMMA WatcherMoves ==
    ASSUME watcher \in Suffixes(WatcherPlan), watcher # <<>>
    PROVE  /\ Tail(watcher) \in Suffixes(WatcherPlan)
           /\ Head(watcher) # "publish" => Head(watcher) \in NonceStates
           /\ Head(watcher) = "publish" => HasPublish(watcher) /\ ~HasPublish(Tail(watcher))
           /\ HasPublish(Tail(watcher)) => HasPublish(watcher)
<1> DEFINE plan == WatcherPlan
           n == Len(plan)
           S == NonceStates \cup {"publish"}
<1>1. plan \in Seq(S) /\ n \in Nat
  BY PublishesOnce
<1>2. PICK i \in 1..(n + 1) : watcher = SubSeq(plan, i, n)
  BY DEF Suffixes
<1>3. i \in 1..n
  <2>1. i = n + 1 => SubSeq(plan, i, n) = <<>>
    BY <1>1, SubSeqEmpty
  <2> QED BY <1>1, <1>2, <2>1
<1> HIDE DEF plan, S
<1>4. Head(watcher) = plan[i] /\ Tail(watcher) = SubSeq(plan, i + 1, n)
  BY <1>1, <1>2, <1>3, HeadTailOfSubSeq
<1>5. \A k \in 1..(n + 1) : HasPublish(SubSeq(plan, k, n)) <=> \E j \in k..n : plan[j] = "publish"
  <2> TAKE k \in 1..(n + 1)
  <2>1. \A j \in k..n : plan[j] \in S
    BY <1>1
  <2>2. /\ SubSeq(plan, k, n) \in Seq(S)
        /\ Len(SubSeq(plan, k, n)) = n - k + 1
        /\ \A j \in 1..(n - k + 1) : SubSeq(plan, k, n)[j] = plan[k + j - 1]
    BY <1>1, <2>1, SubSeqProperties
  <2>3. DOMAIN SubSeq(plan, k, n) = 1..(n - k + 1)
    BY <2>2
  <2>4. \A j \in k..n : j - k + 1 \in 1..(n - k + 1) /\ SubSeq(plan, k, n)[j - k + 1] = plan[j]
    BY <1>1, <2>2
  <2>5. ASSUME NEW m \in 1..(n - k + 1)
        PROVE  k + m - 1 \in k..n /\ SubSeq(plan, k, n)[m] = plan[k + m - 1]
    BY <1>1, <2>2
  <2> QED BY <2>3, <2>4, <2>5 DEF HasPublish
<1>6. PICK p \in 1..n : \A j \in 1..n : plan[j] = "publish" <=> j = p
  BY PublishesOnce DEF plan, n
<1>7. Tail(watcher) \in Suffixes(plan)
  <2>1. i + 1 \in 1..(n + 1)
    BY <1>1, <1>3
  <2> QED BY <1>4, <2>1 DEF Suffixes
<1>8. plan[i] \in NonceStates \cup {"publish"}
  BY <1>1, <1>3 DEF S
<1>9. /\ HasPublish(SubSeq(plan, i, n)) <=> \E j \in i..n : plan[j] = "publish"
      /\ HasPublish(SubSeq(plan, i + 1, n)) <=> \E j \in (i + 1)..n : plan[j] = "publish"
      /\ i \in i..n
  BY <1>1, <1>3, <1>5
<1>10. plan[i] = "publish" => HasPublish(watcher) /\ ~HasPublish(Tail(watcher))
  <2>1. \A j \in (i + 1)..n : j \in 1..n /\ j # i
    BY <1>1, <1>3
  <2> QED BY <1>2, <1>3, <1>4, <1>6, <1>9, <2>1
<1>11. HasPublish(Tail(watcher)) => HasPublish(watcher)
  <2>1. \A j \in (i + 1)..n : j \in i..n
    BY <1>1, <1>3
  <2> QED BY <1>2, <1>4, <1>9, <2>1
<1> QED BY <1>4, <1>7, <1>8, <1>10, <1>11 DEF plan

LEMMA WithoutSeq ==
    ASSUME NEW S, NEW seq \in Seq(S), NEW i \in DOMAIN seq
    PROVE  Without(seq, i) \in Seq(S) /\ Len(Without(seq, i)) = Len(seq) - 1
<1>1. Len(seq) \in Nat /\ DOMAIN seq = 1..Len(seq) /\ i \in 1..Len(seq)
  OBVIOUS
<1>2. Len(seq) - 1 \in Nat
  BY <1>1
<1>3. \A j \in 1..(Len(seq) - 1) : j \in 1..Len(seq) /\ j + 1 \in 1..Len(seq)
  BY <1>1
<1>4. \A j \in 1..(Len(seq) - 1) : seq[j] \in S /\ seq[j + 1] \in S
  BY <1>3, ElementOfSeq
<1>5. \A j \in 1..(Len(seq) - 1) : (IF j < i THEN seq[j] ELSE seq[j + 1]) \in S
  BY <1>4
<1>6. Without(seq, i) \in [1..(Len(seq) - 1) -> S]
  BY <1>5 DEF Without
<1> QED BY <1>2, <1>6

\* A new submission has not tried yet, and another one has one try more.
LEMMA TriesCounted ==
    ASSUME tries \in Seq(0..(MaxSteps - 1))
    PROVE  /\ Append(tries, 0) \in Seq(0..(MaxSteps - 1))
           /\ \A i \in DOMAIN tries : tries[i] + 1 # MaxSteps
                 => [tries EXCEPT ![i] = @ + 1] \in Seq(0..(MaxSteps - 1))
<1> DEFINE S == 0..(MaxSteps - 1)
<1>1. 0 \in S
  BY RoundParams
<1>2. ASSUME NEW i \in DOMAIN tries, tries[i] + 1 # MaxSteps
      PROVE  i \in 1..Len(tries) /\ tries[i] + 1 \in S
  <2>1. i \in 1..Len(tries)
    OBVIOUS
  <2>2. tries[i] \in S
    BY <2>1, ElementOfSeq
  <2> QED BY <1>2, <2>1, <2>2, RoundParams
<1>3. tries \in Seq(S)
  OBVIOUS
<1> HIDE DEF S
<1>4. Append(tries, 0) \in Seq(S)
  BY <1>1, <1>3, AppendProperties
<1>5. \A i \in DOMAIN tries : tries[i] + 1 # MaxSteps => [tries EXCEPT ![i] = @ + 1] \in Seq(S)
  BY <1>2, <1>3, ExceptSeq
<1> QED BY <1>4, <1>5 DEF S

LEMMA WholeAndEmptySuffix == WatcherPlan \in Suffixes(WatcherPlan) /\ <<>> \in Suffixes(WatcherPlan)
<1> DEFINE n == Len(WatcherPlan)
<1>1. WatcherPlan \in Seq(NonceStates \cup {"publish"}) /\ n \in Nat
  BY PublishesOnce
<1>2. SubSeq(WatcherPlan, 1, n) = WatcherPlan
  BY <1>1, SubSeqFull
<1>3. SubSeq(WatcherPlan, n + 1, n) = <<>>
  BY <1>1, SubSeqEmpty
<1>4. 1 \in 1..(n + 1) /\ n + 1 \in 1..(n + 1)
  BY <1>1
<1> QED BY <1>2, <1>3, <1>4 DEF Suffixes

LEMMA RoundInitTyped == RoundInit => RoundTypeOK
<1> SUFFICES ASSUME RoundInit PROVE RoundTypeOK
  OBVIOUS
<1>1. nonceState \in NonceStates
  <2>1. WatcherPlan[Len(WatcherPlan)] \in NonceStates
    BY RoundParams DEF WatcherPlan, NonceStates
  <2> QED BY <2>1 DEF RoundInit, NonceStates
<1>2. watcher \in Suffixes(WatcherPlan)
  BY WholeAndEmptySuffix DEF RoundInit
<1>3. tries \in Seq(0..(MaxSteps - 1)) /\ broadcasts \in Seq(SUBSET Relayers)
  <2>1. tries = <<>> /\ broadcasts = <<>>
    BY DEF RoundInit
  <2> QED BY <2>1
<1>4. eventMsgs \in Nat /\ eventRow \in BOOLEAN
  BY DEF RoundInit
<1>5. faults \in [DOMAIN Bounds -> Nat]
  BY DEF RoundInit
<1> QED BY <1>1, <1>2, <1>3, <1>4, <1>5 DEF RoundInit, RoundTypeOK

\* The handler of events works on a message it has not acknowledged.
EventInHand == eventHandler = "sign" => eventMsgs > 0

LEMMA RoundTypedStep ==
    ASSUME RoundTypeOK, EventInHand, [RoundNext]_roundVars
    PROVE  RoundTypeOK' /\ EventInHand'
<1> USE DEF RoundTypeOK, EventInHand, dbVars, busVars, taskVars, timeoutVars
<1>1. ASSUME NEW kind \in DOMAIN Bounds, Strike(kind)
      PROVE  faults' \in [DOMAIN Bounds -> Nat]
  BY <1>1 DEF Strike
<1>2. {"crash", "again", "send", "tick", "vote"} = DOMAIN Bounds
  BY DEF Bounds
<1>3. CASE WatcherStep
  <2>1. watcher' \in Suffixes(WatcherPlan)
    BY <1>3, WatcherMoves, WholeAndEmptySuffix DEF WatcherStep
  <2>2. nonceState' \in NonceStates
    BY <1>3, WatcherMoves DEF WatcherStep
  <2>3. eventMsgs' \in Nat /\ eventMsgs' >= eventMsgs /\ eventRow' \in BOOLEAN
    BY <1>3 DEF WatcherStep
  <2> QED BY <1>3, <2>1, <2>2, <2>3 DEF WatcherStep
<1>4. CASE HandleEvent
  BY <1>4 DEF HandleEvent
<1>5. CASE PublishVote
  <2>1. eventMsgs' \in Nat
    BY <1>5 DEF PublishVote
  <2> QED BY <1>5, <2>1, RoundParams DEF PublishVote
<1>6. ASSUME NEW r \in Relayers, RefuseVote(r)
      PROVE  RoundTypeOK' /\ EventInHand'
  BY <1>6 DEF RefuseVote, Acknowledge
<1>7. ASSUME NEW r \in Relayers, AcceptVote(r)
      PROVE  RoundTypeOK' /\ EventInHand'
  BY <1>7 DEF AcceptVote
<1>8. ASSUME voteHandler # <<>>
      PROVE  Voter \in Relayers
  BY <1>8 DEF Voter
<1>9. CASE AddVote
  BY <1>8, <1>9 DEF AddVote, InHand, Acknowledge
<1>10. CASE SetReady
  BY <1>8, <1>10 DEF SetReady, InHand, NonceStates
<1>11. CASE StartSubmission
  <2>1. tries' \in Seq(0..(MaxSteps - 1))
    BY <1>11, TriesCounted DEF StartSubmission
  <2> QED BY <1>8, <1>11, <2>1 DEF StartSubmission, InHand, Acknowledge
<1>12. ASSUME NEW i \in DOMAIN tries, Submit(i)
      PROVE  RoundTypeOK' /\ EventInHand'
  <2>1. tries' \in Seq(0..(MaxSteps - 1))
    BY <1>12, WithoutSeq DEF Submit
  <2>2. broadcasts' \in Seq(SUBSET Relayers)
    BY <1>12 DEF Submit
  <2> QED BY <1>12, <2>1, <2>2 DEF Submit
<1>13. ASSUME NEW i \in DOMAIN tries, SubmitSkips(i)
      PROVE  RoundTypeOK' /\ EventInHand'
  <2>1. tries' \in Seq(0..(MaxSteps - 1))
    BY <1>13, WithoutSeq DEF SubmitSkips
  <2> QED BY <1>13, <2>1 DEF SubmitSkips
<1>14. CASE MarkSubmitted
  <2>1. sent' \in Nat
    BY <1>14 DEF MarkSubmitted
  <2> QED BY <1>14, <2>1 DEF MarkSubmitted, NonceStates
<1>15. CASE PeerPublishes
  BY <1>1, <1>2, <1>15 DEF PeerPublishes
<1>16. ASSUME NEW r \in Relayers, PeerVotes(r)
      PROVE  RoundTypeOK' /\ EventInHand'
  BY <1>16 DEF PeerVotes
<1>17. ASSUME NEW r \in Relayers, RedeliverVote(r)
      PROVE  RoundTypeOK' /\ EventInHand'
  BY <1>1, <1>2, <1>17 DEF RedeliverVote
<1>18. CASE TickReads
  BY <1>1, <1>2, <1>18 DEF TickReads
<1>19. CASE TickEnds
  BY <1>19 DEF TickEnds, NonceStates
<1>20. ASSUME NEW i \in DOMAIN tries, SubmitFails(i)
      PROVE  RoundTypeOK' /\ EventInHand'
  <2>1. tries' \in Seq(0..(MaxSteps - 1))
    <3>1. CASE Kind = "burn" \/ tries[i] + 1 = MaxSteps
      <4>1. tries' = Without(tries, i)
        BY <1>20, <3>1 DEF SubmitFails
      <4> QED BY <4>1, WithoutSeq
    <3>2. CASE ~(Kind = "burn" \/ tries[i] + 1 = MaxSteps)
      <4>1. tries' = [tries EXCEPT ![i] = @ + 1]
        BY <1>20, <3>2 DEF SubmitFails
      <4> QED BY <3>2, <4>1, TriesCounted
    <3> QED BY <3>1, <3>2
  <2> QED BY <1>1, <1>2, <1>20, <2>1 DEF SubmitFails
<1>21. CASE Crash
  BY <1>1, <1>2, <1>8, <1>21, WholeAndEmptySuffix DEF Crash
<1>22. CASE UNCHANGED roundVars
  BY <1>22 DEF roundVars
<1>23. CASE VoteLost
  <2>1. eventMsgs' \in Nat
    BY <1>23 DEF VoteLost
  <2> QED BY <1>1, <1>2, <1>23, <2>1 DEF VoteLost
<1> QED
  BY <1>3, <1>4, <1>5, <1>6, <1>7, <1>9, <1>10, <1>11, <1>12, <1>13, <1>14, <1>15, <1>16, <1>17,
     <1>18, <1>19, <1>20, <1>21, <1>22, <1>23
     DEF RoundNext, EventStep, VoteStep, TaskStep, BusStep, TickStep, FaultStep

------------------------------------------------------------------------------
\* Sets of relayers can be counted.
LEMMA RelayersCounted ==
    ASSUME NEW S \in SUBSET Relayers
    PROVE  IsFiniteSet(S) /\ Cardinality(S) \in Nat /\ Cardinality(S) <= Cardinality(Relayers)
BY RoundParams, FS_Subset, FS_CardinalityType

LEMMA SubsetCounted ==
    ASSUME NEW S \in SUBSET Relayers, NEW T \in SUBSET S
    PROVE  Cardinality(T) <= Cardinality(S)
BY RelayersCounted, FS_Subset

LEMMA OneMoreCounted ==
    ASSUME NEW S \in SUBSET Relayers, NEW r \in Relayers
    PROVE  /\ Cardinality(S \cup {r}) = IF r \in S THEN Cardinality(S) ELSE Cardinality(S) + 1
           /\ Cardinality(S \ {r}) = IF r \in S THEN Cardinality(S) - 1 ELSE Cardinality(S)
BY RelayersCounted, FS_AddElement, FS_RemoveElement

LEMMA VoterIsRelayer ==
    ASSUME RoundTypeOK, voteHandler # <<>>
    PROVE  Voter \in Relayers
BY DEF RoundTypeOK, Voter

------------------------------------------------------------------------------
\* A vote beyond the count, and every submission, has a quorum of votes in the
\* database, where no vote is ever removed.
SubmissionsHaveQuorum ==
    /\ InHand("ready") \/ InHand("start") => Voter \in votes /\ Cardinality(votes) >= Quorum
    /\ tries # <<>> => Cardinality(votes) >= Quorum
    /\ BroadcastHasQuorum

LEMMA QuorumStep ==
    ASSUME RoundTypeOK, SubmissionsHaveQuorum, [RoundNext]_roundVars
    PROVE  SubmissionsHaveQuorum'
<1> USE DEF SubmissionsHaveQuorum, BroadcastHasQuorum, InHand, Voter, dbVars, busVars, taskVars, timeoutVars
<1>1. CASE AddVote
  <2>1. Voter \in Relayers /\ votes \in SUBSET Relayers /\ votes' = votes \cup {Voter}
    BY <1>1, VoterIsRelayer DEF AddVote, RoundTypeOK
  <2>2. Cardinality(votes) \in Nat /\ Cardinality(votes') \in Nat /\ Cardinality(votes') >= Cardinality(votes)
    <3>1. votes' \in SUBSET Relayers /\ votes \in SUBSET votes'
      BY <2>1
    <3> QED BY <2>1, <3>1, RelayersCounted, SubsetCounted
  <2>3. voteHandler' # <<>> => Cardinality(votes') >= Quorum /\ voteHandler' = <<"ready", Voter>>
    BY <1>1 DEF AddVote, QuorumMet, VoteCount
  <2>4. UNCHANGED <<tries, broadcasts>>
    BY <1>1 DEF AddVote
  <2>5. Quorum \in Nat
    BY RoundParams
  <2> QED BY <2>1, <2>2, <2>3, <2>4, <2>5
<1>2. CASE StartSubmission
  BY <1>2 DEF StartSubmission
<1>3. CASE SetReady
  BY <1>3 DEF SetReady
<1>4. ASSUME NEW i \in DOMAIN tries, Submit(i)
      PROVE  SubmissionsHaveQuorum'
  <2>1. tries # <<>> /\ Cardinality(votes) >= Quorum
    <3>1. tries # <<>>
      OBVIOUS
    <3> QED BY <3>1
  <2>2. broadcasts \in Seq(SUBSET Relayers) /\ votes \in SUBSET Relayers
    BY DEF RoundTypeOK
  <2>3. broadcasts' = Append(broadcasts, votes) /\ UNCHANGED <<votes, voteHandler>>
    BY <1>4 DEF Submit
  <2>4. \A j \in DOMAIN broadcasts' : broadcasts'[j] = votes \/ (j \in DOMAIN broadcasts /\ broadcasts'[j] = broadcasts[j])
    BY <2>2, <2>3
  <2> QED BY <2>1, <2>3, <2>4
<1>5. ASSUME NEW i \in DOMAIN tries, SubmitSkips(i) \/ SubmitFails(i)
      PROVE  SubmissionsHaveQuorum'
  <2>1. tries # <<>>
    OBVIOUS
  <2>2. UNCHANGED <<votes, voteHandler, broadcasts>>
    BY <1>5 DEF SubmitSkips, SubmitFails
  <2> QED BY <2>1, <2>2
<1>6. CASE Crash
  BY <1>6 DEF Crash
<1>7. ASSUME NEW r \in Relayers, RefuseVote(r) \/ AcceptVote(r)
      PROVE  SubmissionsHaveQuorum'
  BY <1>7 DEF RefuseVote, AcceptVote
<1>8. CASE UNCHANGED <<votes, voteHandler, tries, broadcasts>>
  BY <1>8
<1> QED
  BY <1>1, <1>2, <1>3, <1>4, <1>5, <1>6, <1>7, <1>8
     DEF RoundNext, roundVars, EventStep, VoteStep, TaskStep, BusStep, TickStep, FaultStep,
         WatcherStep, HandleEvent, PublishVote, VoteLost, MarkSubmitted, PeerPublishes, PeerVotes, RedeliverVote,
         TickReads, TickEnds

------------------------------------------------------------------------------
(***************************************************************************)
(* Who pays for a broadcast.  Each is owed to a vote that was handled when *)
(* the quorum was there; a relayer's first vote is one it had to give, and *)
(* every later one a message that came again.                              *)
(***************************************************************************)

\* The relayer whose vote is in hand.
HandSet == IF voteHandler = <<>> THEN {} ELSE {Voter}

\* Votes under way whose relayer was heard before.
OnTheWay == Cardinality((delivered \cup HandSet) \cap voteMsgs)
InHandAgain == IF HandSet \cap delivered = {} THEN 0 ELSE 1
VotesAgain == OnTheWay + InHandAgain

\* Deliveries of the event, those that will make this daemon vote again.
EventsLeft == eventMsgs + (IF HasPublish(watcher) THEN 1 ELSE 0)
HasVoted == Self \in voteMsgs \cup delivered \cup HandSet
OwnVotesAgain == IF HasVoted \/ EventsLeft = 0 THEN EventsLeft ELSE EventsLeft - 1

\* Relayers heard beyond those a quorum needs before its last vote.
VotersBeyond == IF Cardinality(delivered) < Quorum THEN 0 ELSE Cardinality(delivered) - Quorum + 1

\* The voters were heard, but for those whose vote met or exceeded the quorum.
VotersHeard == votes \subseteq delivered \/ Cardinality(delivered) >= Quorum - 1

\* Transactions broadcast, and submissions that will broadcast one.
Made == Len(broadcasts) + Len(tries)

Owed == Made + VotesAgain + OwnVotesAgain

MessagesAgain == faults["again"]

BroadcastsOwed == VotersHeard /\ Owed <= MessagesAgain + VotersBeyond

OwedTypeOK ==
    /\ delivered \in SUBSET Relayers /\ voteMsgs \in SUBSET Relayers /\ HandSet \in SUBSET Relayers
    /\ Len(broadcasts) \in Nat /\ Len(tries) \in Nat /\ Made \in Nat /\ VotesAgain \in Nat
    /\ EventsLeft \in Nat /\ OwnVotesAgain \in Nat /\ VotersBeyond \in Nat /\ MessagesAgain \in Nat
    /\ Cardinality(delivered) \in Nat

LEMMA OwedTyped == RoundTypeOK => OwedTypeOK
<1> SUFFICES ASSUME RoundTypeOK PROVE OwedTypeOK
  OBVIOUS
<1>1. delivered \in SUBSET Relayers /\ voteMsgs \in SUBSET Relayers /\ HandSet \in SUBSET Relayers
  BY VoterIsRelayer DEF RoundTypeOK, HandSet
<1>2. (delivered \cup HandSet) \cap voteMsgs \in SUBSET Relayers
  BY <1>1
<1>3. VotesAgain \in Nat /\ Cardinality(delivered) \in Nat
  BY <1>1, <1>2, RelayersCounted DEF VotesAgain, OnTheWay, InHandAgain
<1>4. EventsLeft \in Nat /\ OwnVotesAgain \in Nat
  <2>1. EventsLeft \in Nat
    BY DEF RoundTypeOK, EventsLeft
  <2> QED BY <2>1 DEF OwnVotesAgain
<1>5. VotersBeyond \in Nat
  BY <1>3, RoundParams DEF VotersBeyond
<1>6. MessagesAgain \in Nat
  BY DEF RoundTypeOK, Bounds, MessagesAgain
<1>7. Len(broadcasts) \in Nat /\ Len(tries) \in Nat
  BY DEF RoundTypeOK
<1> QED BY <1>1, <1>3, <1>4, <1>5, <1>6, <1>7 DEF Made, OwedTypeOK

LEMMA OwedTypedNext == (RoundTypeOK => OwedTypeOK)'
BY OwedTyped, PTL

\* A daemon hears of more relayers, never of fewer.
LEMMA HeardGrows ==
    ASSUME NEW D \in SUBSET Relayers, NEW E \in SUBSET Relayers, D \subseteq E
    PROVE  /\ Cardinality(D) \in Nat /\ Cardinality(E) \in Nat /\ Cardinality(D) <= Cardinality(E)
BY RelayersCounted, SubsetCounted

LEMMA OwedInit == RoundInit => BroadcastsOwed
<1> SUFFICES ASSUME RoundInit PROVE BroadcastsOwed
  OBVIOUS
<1>1. VotesAgain = 0 /\ ~HasVoted
  <2>1. voteMsgs = {} /\ delivered = {}
    BY DEF RoundInit
  <2>2. HandSet = {}
    BY DEF RoundInit, HandSet
  <2>3. OnTheWay = 0
    <3>1. (delivered \cup HandSet) \cap voteMsgs = {}
      BY <2>1
    <3> QED BY <3>1, FS_EmptySet DEF OnTheWay
  <2>4. InHandAgain = 0
    BY <2>2 DEF InHandAgain
  <2>5. ~HasVoted
    BY <2>1, <2>2 DEF HasVoted
  <2> QED BY <2>3, <2>4, <2>5 DEF VotesAgain
<1>2. OwnVotesAgain = 0
  <2>1. EventsLeft \in {0, 1}
    <3>1. CASE WatcherLags
      <4>1. eventMsgs = 0
        BY <3>1 DEF RoundInit
      <4> QED BY <4>1 DEF EventsLeft
    <3>2. CASE ~WatcherLags
      <4>1. eventMsgs = 1 /\ watcher = <<>>
        BY <3>2 DEF RoundInit
      <4>2. ~HasPublish(watcher)
        BY <4>1 DEF HasPublish
      <4> QED BY <4>1, <4>2 DEF EventsLeft
    <3> QED BY <3>1, <3>2
  <2> QED BY <1>1, <2>1 DEF OwnVotesAgain
<1>3. Made = 0
  <2>1. broadcasts = <<>> /\ tries = <<>>
    BY DEF RoundInit
  <2>2. Len(broadcasts) = 0 /\ Len(tries) = 0
    BY <2>1
  <2> QED BY <2>2 DEF Made
<1>4. MessagesAgain = 0 /\ VotersBeyond = 0
  <2>1. MessagesAgain = 0
    BY DEF RoundInit, Bounds, MessagesAgain
  <2>2. delivered = {}
    BY DEF RoundInit
  <2> QED BY <2>1, <2>2, FS_EmptySet, RoundParams DEF VotersBeyond
<1>5. VotersHeard
  <2>1. votes = {}
    BY DEF RoundInit
  <2> QED BY <2>1 DEF VotersHeard
<1> QED BY <1>1, <1>2, <1>3, <1>4, <1>5 DEF BroadcastsOwed, Owed

\* One message more is one vote more on the way, at most.
LEMMA OneMoreOnTheWay ==
    ASSUME OwedTypeOK, NEW r \in Relayers, voteMsgs' = voteMsgs \cup {r}, UNCHANGED <<delivered, HandSet>>,
           NEW v \in Nat, NEW v2 \in Nat, VotesAgain = v, VotesAgain' = v2
    PROVE  v2 <= v + 1
<1> DEFINE A == (delivered \cup HandSet) \cap voteMsgs
           B == (delivered \cup HandSet) \cap (voteMsgs \cup {r})
<1>1. A \in SUBSET Relayers /\ A \cup {r} \in SUBSET Relayers /\ B \in SUBSET (A \cup {r})
  BY DEF OwedTypeOK
<1> HIDE DEF A, B
<1>2. PICK n \in Nat, n1 \in Nat, n2 \in Nat :
         Cardinality(A) = n /\ Cardinality(A \cup {r}) = n1 /\ Cardinality(B) = n2
  BY <1>1, RelayersCounted
<1>3. n1 <= n + 1 /\ n2 <= n1
  BY <1>1, <1>2, OneMoreCounted, SubsetCounted
<1>4. OnTheWay = n /\ OnTheWay' = n2 /\ InHandAgain' = InHandAgain /\ InHandAgain \in {0, 1}
  BY <1>2 DEF OnTheWay, InHandAgain, A, B
<1> QED BY <1>2, <1>3, <1>4 DEF VotesAgain

\* The account of a step.
LEMMA OwedStep ==
    ASSUME RoundTypeOK, RoundTypeOK', EventInHand, SubmissionsHaveQuorum, BroadcastsOwed, [RoundNext]_roundVars
    PROVE  Owed' <= MessagesAgain' + VotersBeyond'
<1> USE DEF dbVars, busVars, taskVars, timeoutVars
<1>1. OwedTypeOK /\ OwedTypeOK'
  BY OwedTyped, OwedTypedNext
<1>2. PICK m \in Nat, v \in Nat, o \in Nat, a \in Nat, b \in Nat :
         Made = m /\ VotesAgain = v /\ OwnVotesAgain = o /\ MessagesAgain = a /\ VotersBeyond = b
  BY <1>1 DEF OwedTypeOK
<1>3. PICK m2 \in Nat, v2 \in Nat, o2 \in Nat, a2 \in Nat, b2 \in Nat :
         Made' = m2 /\ VotesAgain' = v2 /\ OwnVotesAgain' = o2 /\ MessagesAgain' = a2 /\ VotersBeyond' = b2
  BY <1>1 DEF OwedTypeOK
<1>4. m + v + o <= a + b
  BY <1>2 DEF BroadcastsOwed, Owed
<1>5. SUFFICES m2 + v2 + o2 <= a2 + b2
  BY <1>3 DEF Owed
<1>6. ASSUME delivered \subseteq delivered' PROVE b <= b2
  <2>1. PICK d \in Nat, d2 \in Nat : Cardinality(delivered) = d /\ Cardinality(delivered') = d2 /\ d <= d2
    BY <1>1, <1>6, HeardGrows DEF OwedTypeOK
  <2>2. /\ b = IF d < Quorum THEN 0 ELSE d - Quorum + 1
        /\ b2 = IF d2 < Quorum THEN 0 ELSE d2 - Quorum + 1
    BY <1>2, <1>3, <2>1 DEF VotersBeyond
  <2> QED BY <2>1, <2>2, RoundParams
<1>7. ASSUME UNCHANGED <<delivered, voteMsgs, HandSet>>
      PROVE  v2 = v /\ b2 = b
  BY <1>2, <1>3, <1>7 DEF VotesAgain, OnTheWay, InHandAgain, VotersBeyond
<1>8. ASSUME HasVoted' <=> HasVoted, EventsLeft' = EventsLeft
      PROVE  o2 = o
  BY <1>2, <1>3, <1>8 DEF OwnVotesAgain
<1>9. ASSUME UNCHANGED <<eventMsgs, watcher>>
      PROVE  EventsLeft' = EventsLeft
  BY <1>9 DEF EventsLeft
<1>10. ASSUME UNCHANGED voteHandler
       PROVE  UNCHANGED HandSet
  BY <1>10 DEF HandSet, Voter
<1>11. ASSUME UNCHANGED faults
       PROVE  a2 = a
  BY <1>2, <1>3, <1>11 DEF MessagesAgain
<1>12. ASSUME UNCHANGED <<broadcasts, tries>>
       PROVE  m2 = m
  BY <1>2, <1>3, <1>12 DEF Made
<1>13. ASSUME UNCHANGED <<delivered, voteMsgs, HandSet>>
       PROVE  HasVoted' <=> HasVoted
  BY <1>13 DEF HasVoted
<1>14. ASSUME NEW kind \in DOMAIN Bounds, Strike(kind)
       PROVE  a2 = IF kind = "again" THEN a + 1 ELSE a
  BY <1>2, <1>3, <1>14 DEF Strike, MessagesAgain, RoundTypeOK, Bounds
<1>15. CASE WatcherStep
  <2>1. UNCHANGED <<broadcasts, tries, delivered, voteMsgs, voteHandler, faults>>
    BY <1>15 DEF WatcherStep
  <2>2. o2 <= o
    <3>1. watcher \in Suffixes(WatcherPlan) /\ watcher # <<>> /\ eventMsgs \in Nat /\ ~HasPublish(<<>>)
      BY <1>15 DEF WatcherStep, RoundTypeOK, HasPublish
    <3>2. \/ watcher' = <<>> /\ eventMsgs' = eventMsgs
          \/ watcher' = <<>> /\ Head(watcher) = "publish" /\ eventMsgs' = eventMsgs + 1
          \/ watcher' = Tail(watcher) /\ eventMsgs' = IF Head(watcher) = "publish" THEN eventMsgs + 1 ELSE eventMsgs
      BY <1>15 DEF WatcherStep
    <3>3. HasPublish(watcher') => HasPublish(watcher)
      BY <3>1, <3>2, WatcherMoves
    <3>4. eventMsgs' = eventMsgs \/ (eventMsgs' = eventMsgs + 1 /\ HasPublish(watcher) /\ ~HasPublish(watcher'))
      BY <3>1, <3>2, WatcherMoves
    <3>5. PICK e \in Nat, e2 \in Nat : EventsLeft = e /\ EventsLeft' = e2
      BY <1>1 DEF OwedTypeOK
    <3>6. e2 <= e
      BY <3>1, <3>3, <3>4, <3>5 DEF EventsLeft
    <3> QED BY <1>2, <1>3, <1>10, <1>13, <2>1, <3>5, <3>6 DEF OwnVotesAgain
  <2> QED BY <1>4, <1>7, <1>10, <1>11, <1>12, <2>1, <2>2
<1>16. CASE UNCHANGED <<eventMsgs, watcher, voteMsgs, delivered, broadcasts, tries, HandSet, MessagesAgain>>
  BY <1>2, <1>3, <1>4, <1>7, <1>8, <1>9, <1>12, <1>13, <1>16
<1>17. CASE HandleEvent \/ MarkSubmitted \/ UNCHANGED roundVars
  <2>1. UNCHANGED <<eventMsgs, watcher, voteMsgs, delivered, broadcasts, tries, faults, voteHandler>>
    BY <1>17 DEF HandleEvent, MarkSubmitted, roundVars
  <2> QED BY <1>2, <1>3, <1>10, <1>11, <1>16, <2>1
<1>18. CASE TickReads \/ TickEnds
  <2>1. UNCHANGED <<eventMsgs, watcher, voteMsgs, delivered, broadcasts, tries, voteHandler>>
    BY <1>18 DEF TickReads, TickEnds
  <2>2. a2 = a
    BY <1>11, <1>14, <1>18 DEF TickReads, TickEnds, Bounds
  <2> QED BY <1>2, <1>3, <1>10, <1>16, <2>1, <2>2
<1>19. CASE SetReady
  <2>1. UNCHANGED <<eventMsgs, watcher, voteMsgs, delivered, broadcasts, tries, faults>>
    BY <1>19 DEF SetReady
  <2>2. voteHandler # <<>> /\ voteHandler' # <<>> /\ voteHandler'[2] = voteHandler[2]
    BY <1>19 DEF SetReady, InHand, Voter
  <2>3. UNCHANGED HandSet
    BY <2>2 DEF HandSet, Voter
  <2> QED BY <1>2, <1>3, <1>11, <1>16, <2>1, <2>3
<1>20. CASE PublishVote
  <2>1. /\ voteMsgs' = voteMsgs \cup {Self} /\ eventMsgs' = eventMsgs - 1 /\ eventMsgs > 0
        /\ UNCHANGED <<watcher, delivered, voteHandler, tries, broadcasts, faults>>
    BY <1>20 DEF PublishVote, EventInHand
  <2>2. HandSet' = HandSet
    BY <1>10, <2>1
  <2>3. PICK e \in Nat, e2 \in Nat : EventsLeft = e /\ EventsLeft' = e2 /\ e2 = e - 1
    BY <1>1, <2>1 DEF OwedTypeOK, EventsLeft, RoundTypeOK
  <2>4. HasVoted'
    BY <2>1 DEF HasVoted
  <2>5. m2 = m /\ a2 = a /\ b2 = b
    BY <1>2, <1>3, <1>11, <1>12, <2>1 DEF VotersBeyond
  <2>6. CASE HasVoted
    <3>1. o2 = o - 1
      BY <1>2, <1>3, <2>3, <2>4, <2>6 DEF OwnVotesAgain
    <3>2. v2 <= v + 1
      BY <1>1, <1>2, <1>3, <2>1, <2>2, OneMoreOnTheWay, RoundParams
    <3> QED BY <1>4, <2>5, <3>1, <3>2
  <2>7. CASE ~HasVoted
    <3>1. o2 = o
      BY <1>2, <1>3, <2>3, <2>4, <2>7 DEF OwnVotesAgain
    <3>2. (delivered \cup HandSet) \cap (voteMsgs \cup {Self}) = (delivered \cup HandSet) \cap voteMsgs
      BY <2>7 DEF HasVoted
    <3>3. v2 = v
      BY <1>2, <1>3, <2>1, <2>2, <3>2 DEF VotesAgain, OnTheWay, InHandAgain
    <3> QED BY <1>4, <2>5, <3>1, <3>3
  <2> QED BY <2>6, <2>7
<1>21. ASSUME HasVoted' <=> HasVoted,
              NEW e \in Nat, NEW e2 \in Nat, EventsLeft = e, EventsLeft' = e2
       PROVE  (e2 <= e => o2 <= o) /\ (e2 = e + 1 => o2 <= o + 1)
  BY <1>2, <1>3, <1>21 DEF OwnVotesAgain
<1>22. ASSUME NEW r \in Relayers, AcceptVote(r)
       PROVE  m2 + v2 + o2 <= a2 + b2
  <2>1. /\ voteHandler = <<>> /\ voteHandler' = <<"count", r>> /\ r \in voteMsgs
        /\ voteMsgs' = voteMsgs \ {r}
        /\ UNCHANGED <<watcher, eventMsgs, delivered, tries, broadcasts, faults>>
    BY <1>22 DEF AcceptVote
  <2>2. HandSet = {} /\ HandSet' = {r}
    BY <2>1 DEF HandSet, Voter
  <2>3. HasVoted' <=> HasVoted
    BY <2>1, <2>2 DEF HasVoted
  <2>4. m2 = m /\ a2 = a /\ b2 = b /\ o2 = o
    BY <1>2, <1>3, <1>8, <1>9, <1>11, <1>12, <2>1, <2>3 DEF VotersBeyond
  <2>5. v2 = v
    <3> DEFINE A == (delivered \cup HandSet) \cap voteMsgs
    <3>1. A \in SUBSET Relayers /\ (r \in A <=> r \in delivered)
      BY <1>1, <2>1, <2>2 DEF OwedTypeOK
    <3>2. ((delivered \cup HandSet) \cap voteMsgs)' = A \ {r}
      BY <2>1, <2>2
    <3> HIDE DEF A
    <3>3. PICK n \in Nat, n2 \in Nat : Cardinality(A) = n /\ Cardinality(A \ {r}) = n2
      BY <3>1, RelayersCounted
    <3>4. n2 = IF r \in delivered THEN n - 1 ELSE n
      BY <3>1, <3>3, OneMoreCounted
    <3>5. OnTheWay = n /\ OnTheWay' = n2
      BY <3>2, <3>3 DEF OnTheWay, A
    <3>6. InHandAgain = 0 /\ InHandAgain' = IF r \in delivered THEN 1 ELSE 0
      BY <2>1, <2>2 DEF InHandAgain
    <3> QED BY <1>2, <1>3, <3>4, <3>5, <3>6 DEF VotesAgain
  <2> QED BY <1>4, <2>4, <2>5
<1>23. ASSUME NEW r \in Relayers, RefuseVote(r)
       PROVE  m2 + v2 + o2 <= a2 + b2
  <2>1. /\ voteHandler = <<>> /\ voteHandler' = <<>> /\ r \in voteMsgs
        /\ voteMsgs' = voteMsgs \ {r} /\ delivered' = delivered \cup {r}
        /\ UNCHANGED <<watcher, eventMsgs, tries, broadcasts, faults>>
    BY <1>23 DEF RefuseVote, Acknowledge
  <2>2. HandSet = {} /\ HandSet' = {}
    BY <2>1 DEF HandSet
  <2>3. HasVoted' <=> HasVoted
    BY <2>1, <2>2 DEF HasVoted
  <2>4. m2 = m /\ a2 = a /\ b <= b2 /\ o2 = o
    BY <1>2, <1>3, <1>6, <1>8, <1>9, <1>11, <1>12, <2>1, <2>3
  <2>5. v2 <= v
    <3> DEFINE A == (delivered \cup HandSet) \cap voteMsgs
               B == (delivered' \cup HandSet') \cap voteMsgs'
    <3>1. A \in SUBSET Relayers /\ B \in SUBSET A
      BY <1>1, <2>1, <2>2 DEF OwedTypeOK
    <3>2. OnTheWay = Cardinality(A) /\ OnTheWay' = Cardinality(B)
      BY DEF OnTheWay
    <3>3. InHandAgain = 0 /\ InHandAgain' = 0
      BY <2>2 DEF InHandAgain
    <3> HIDE DEF A, B
    <3>4. PICK n \in Nat, n2 \in Nat : Cardinality(A) = n /\ Cardinality(B) = n2 /\ n2 <= n
      BY <3>1, HeardGrows
    <3> QED BY <1>2, <1>3, <3>2, <3>3, <3>4 DEF VotesAgain
  <2> QED BY <1>4, <2>4, <2>5
<1>24. ASSUME voteHandler # <<>>, voteHandler' = <<>>, delivered' = delivered \cup {Voter}, UNCHANGED voteMsgs
       PROVE  /\ HasVoted' <=> HasVoted
              /\ v2 = IF Voter \in delivered THEN v - 1 ELSE v
  <2>1. HandSet = {Voter} /\ HandSet' = {}
    BY <1>24 DEF HandSet
  <2>2. HasVoted' <=> HasVoted
    BY <1>24, <2>1 DEF HasVoted
  <2>3. OnTheWay' = OnTheWay
    BY <1>24, <2>1 DEF OnTheWay
  <2>4. InHandAgain' = 0 /\ InHandAgain = IF Voter \in delivered THEN 1 ELSE 0
    BY <1>24, <2>1 DEF InHandAgain
  <2>5. OnTheWay \in Nat
    <3>1. (delivered \cup HandSet) \cap voteMsgs \in SUBSET Relayers
      BY <1>1 DEF OwedTypeOK
    <3> QED BY <3>1, RelayersCounted DEF OnTheWay
  <2>6. PICK n \in Nat : OnTheWay = n /\ OnTheWay' = n
    BY <2>3, <2>5
  <2> QED BY <1>2, <1>3, <2>2, <2>4, <2>6 DEF VotesAgain
<1>25. CASE AddVote
  <2>1. voteHandler # <<>> /\ UNCHANGED <<watcher, eventMsgs, voteMsgs, tries, broadcasts, faults>>
    BY <1>25 DEF AddVote, InHand
  <2>2. CASE voteHandler' = <<"ready", Voter>> /\ UNCHANGED delivered
    <3>1. UNCHANGED HandSet
      BY <2>1, <2>2 DEF HandSet, Voter
    <3> QED BY <1>2, <1>3, <1>11, <1>16, <2>1, <2>2, <3>1
  <2>3. CASE voteHandler' = <<>> /\ delivered' = delivered \cup {Voter}
    <3>1. (HasVoted' <=> HasVoted) /\ v2 <= v
      BY <1>24, <2>1, <2>3
    <3>2. m2 = m /\ a2 = a /\ b <= b2 /\ o2 = o
      BY <1>2, <1>3, <1>6, <1>8, <1>9, <1>11, <1>12, <2>1, <2>3, <3>1
    <3> QED BY <1>4, <3>1, <3>2
  <2> QED BY <1>25, <2>2, <2>3 DEF AddVote, Acknowledge
<1>26. CASE StartSubmission
  <2>1. /\ voteHandler # <<>> /\ voteHandler' = <<>> /\ delivered' = delivered \cup {Voter}
        /\ UNCHANGED <<watcher, eventMsgs, voteMsgs, broadcasts, faults>>
    BY <1>26 DEF StartSubmission, InHand, Acknowledge
  <2>2. (HasVoted' <=> HasVoted) /\ v2 = IF Voter \in delivered THEN v - 1 ELSE v
    BY <1>24, <2>1
  <2>3. a2 = a /\ b <= b2 /\ o2 = o
    BY <1>2, <1>3, <1>6, <1>8, <1>9, <1>11, <2>1, <2>2
  <2>4. m2 <= m + 1
    <3>1. PICK t \in Nat, t2 \in Nat : Len(tries) = t /\ Len(tries') = t2
      BY <1>1 DEF OwedTypeOK
    <3>2. t2 <= t + 1
      BY <1>26, <3>1 DEF StartSubmission, RoundTypeOK
    <3>3. PICK l \in Nat : Len(broadcasts) = l /\ Len(broadcasts') = l
      BY <1>1, <2>1 DEF OwedTypeOK
    <3> QED BY <1>2, <1>3, <3>1, <3>2, <3>3 DEF Made
  <2>5. CASE Voter \in delivered
    BY <1>4, <2>2, <2>3, <2>4, <2>5
  <2>6. CASE Voter \notin delivered
    <3>1. Voter \in votes
      BY <1>26 DEF SubmissionsHaveQuorum, StartSubmission
    <3>2. Cardinality(delivered) >= Quorum - 1
      BY <2>6, <3>1 DEF BroadcastsOwed, VotersHeard
    <3>3. PICK d \in Nat : Cardinality(delivered) = d /\ Cardinality(delivered') = d + 1
      <4>1. Voter \in Relayers /\ delivered \in SUBSET Relayers
        BY <1>1, <2>1, VoterIsRelayer DEF OwedTypeOK
      <4>2. Cardinality(delivered \cup {Voter}) = Cardinality(delivered) + 1
        BY <2>6, <4>1, OneMoreCounted
      <4> QED BY <1>1, <2>1, <4>2 DEF OwedTypeOK
    <3>4. b2 = b + 1
      BY <1>2, <1>3, <3>2, <3>3, RoundParams DEF VotersBeyond
    <3> QED BY <1>4, <2>2, <2>3, <2>4, <2>6, <3>4
  <2> QED BY <2>5, <2>6
<1>27. ASSUME m2 <= m, a2 = a, UNCHANGED <<eventMsgs, watcher, voteMsgs, delivered, voteHandler>>
       PROVE  m2 + v2 + o2 <= a2 + b2
  BY <1>4, <1>7, <1>8, <1>9, <1>10, <1>13, <1>27
<1>28. ASSUME NEW i \in DOMAIN tries, Submit(i)
       PROVE  m2 + v2 + o2 <= a2 + b2
  <2>1. /\ broadcasts' = Append(broadcasts, votes) /\ tries' = Without(tries, i)
        /\ UNCHANGED <<eventMsgs, watcher, voteMsgs, delivered, voteHandler, faults>>
    BY <1>28 DEF Submit
  <2>2. PICK t \in Nat, l \in Nat : Len(tries) = t /\ Len(broadcasts) = l
    BY <1>1 DEF OwedTypeOK
  <2>3. Len(tries') = t - 1
    BY <2>1, <2>2, WithoutSeq DEF RoundTypeOK
  <2>4. Len(broadcasts') = l + 1
    BY <2>1, <2>2 DEF RoundTypeOK
  <2>5. m2 = m
    BY <1>2, <1>3, <2>2, <2>3, <2>4 DEF Made
  <2> QED BY <1>11, <1>27, <2>1, <2>5
<1>29. ASSUME NEW i \in DOMAIN tries, SubmitSkips(i) \/ SubmitFails(i)
       PROVE  m2 + v2 + o2 <= a2 + b2
  <2>1. UNCHANGED <<eventMsgs, watcher, voteMsgs, delivered, voteHandler, broadcasts>>
    BY <1>29 DEF SubmitSkips, SubmitFails
  <2>2. tries' = Without(tries, i) \/ tries' = [tries EXCEPT ![i] = @ + 1]
    BY <1>29 DEF SubmitSkips, SubmitFails
  <2>3. PICK t \in Nat, t2 \in Nat : Len(tries) = t /\ Len(tries') = t2
    BY <1>1 DEF OwedTypeOK
  <2>4. t2 <= t
    <3>1. CASE tries' = Without(tries, i)
      <4>1. Len(Without(tries, i)) = Len(tries) - 1
        BY WithoutSeq DEF RoundTypeOK
      <4> QED BY <2>3, <3>1, <4>1
    <3>2. CASE tries' = [tries EXCEPT ![i] = @ + 1]
      <4>1. Len([tries EXCEPT ![i] = @ + 1]) = Len(tries)
        BY DEF RoundTypeOK
      <4> QED BY <2>3, <3>2, <4>1
    <3> QED BY <2>2, <3>1, <3>2
  <2>5. PICK l \in Nat : Len(broadcasts) = l /\ Len(broadcasts') = l
    BY <1>1, <2>1 DEF OwedTypeOK
  <2>6. m2 <= m
    BY <1>2, <1>3, <2>3, <2>4, <2>5 DEF Made
  <2>7. a2 = a
    BY <1>11, <1>14, <1>29 DEF SubmitSkips, SubmitFails, Bounds
  <2> QED BY <1>27, <2>1, <2>6, <2>7
<1>30. CASE PeerPublishes
  <2>1. /\ eventMsgs' = eventMsgs + 1
        /\ UNCHANGED <<watcher, voteMsgs, delivered, voteHandler, tries, broadcasts>>
    BY <1>30 DEF PeerPublishes
  <2>2. PICK e \in Nat, e2 \in Nat : EventsLeft = e /\ EventsLeft' = e2 /\ e2 = e + 1
    BY <1>1, <2>1 DEF OwedTypeOK, EventsLeft, RoundTypeOK
  <2>3. a2 = a + 1
    BY <1>14, <1>30 DEF PeerPublishes, Bounds
  <2>4. m2 = m /\ v2 = v /\ b2 = b /\ (HasVoted' <=> HasVoted)
    BY <1>7, <1>10, <1>12, <1>13, <2>1
  <2>5. o2 <= o + 1
    BY <1>21, <2>2, <2>4
  <2> QED BY <1>4, <2>3, <2>4, <2>5
<1>31. ASSUME NEW r \in Relayers, PeerVotes(r)
       PROVE  m2 + v2 + o2 <= a2 + b2
  <2>1. /\ r # Self /\ r \notin voteMsgs \cup delivered /\ voteMsgs' = voteMsgs \cup {r}
        /\ UNCHANGED <<watcher, eventMsgs, delivered, voteHandler, tries, broadcasts, faults>>
    BY <1>31 DEF PeerVotes
  <2>2. HandSet' = HandSet
    BY <1>10, <2>1
  <2>3. r \notin HandSet
    BY <1>31 DEF PeerVotes, HandSet
  <2>4. HasVoted' <=> HasVoted
    BY <2>1, <2>2 DEF HasVoted
  <2>5. (delivered \cup HandSet) \cap (voteMsgs \cup {r}) = (delivered \cup HandSet) \cap voteMsgs
    BY <2>1, <2>3
  <2>6. v2 = v
    BY <1>2, <1>3, <2>1, <2>2, <2>5 DEF VotesAgain, OnTheWay, InHandAgain
  <2>7. m2 = m /\ a2 = a /\ b2 = b /\ o2 = o
    BY <1>2, <1>3, <1>8, <1>9, <1>11, <1>12, <2>1, <2>4 DEF VotersBeyond
  <2> QED BY <1>4, <2>6, <2>7
<1>32. ASSUME NEW r \in Relayers, RedeliverVote(r)
       PROVE  m2 + v2 + o2 <= a2 + b2
  <2>1. /\ r \in delivered /\ voteMsgs' = voteMsgs \cup {r}
        /\ UNCHANGED <<watcher, eventMsgs, delivered, voteHandler, tries, broadcasts>>
    BY <1>32 DEF RedeliverVote
  <2>2. HandSet' = HandSet
    BY <1>10, <2>1
  <2>3. HasVoted' <=> HasVoted
    BY <2>1, <2>2 DEF HasVoted
  <2>4. v2 <= v + 1
    BY <1>1, <1>2, <1>3, <2>1, <2>2, OneMoreOnTheWay
  <2>5. a2 = a + 1
    BY <1>14, <1>32 DEF RedeliverVote, Bounds
  <2>6. m2 = m /\ b2 = b /\ o2 = o
    BY <1>2, <1>3, <1>8, <1>9, <1>12, <2>1, <2>3 DEF VotersBeyond
  <2> QED BY <1>4, <2>4, <2>5, <2>6
<1>33. CASE Crash
  <2>1. /\ voteMsgs' = IF voteHandler = <<>> THEN voteMsgs ELSE voteMsgs \cup {Voter}
        /\ voteHandler' = <<>> /\ tries' = <<>> /\ watcher' = <<>>
        /\ UNCHANGED <<eventMsgs, delivered, broadcasts>>
    BY <1>33 DEF Crash
  <2>2. HandSet' = {} /\ voteMsgs' = voteMsgs \cup HandSet
    BY <2>1 DEF HandSet
  <2>3. HasVoted' <=> HasVoted
    BY <2>1, <2>2 DEF HasVoted
  <2>4. m2 <= m
    <3>1. Len(tries') = 0
      BY <2>1
    <3>2. PICK l \in Nat, t \in Nat : Len(broadcasts) = l /\ Len(broadcasts') = l /\ Len(tries) = t
      BY <1>1, <2>1 DEF OwedTypeOK
    <3> QED BY <1>2, <1>3, <3>1, <3>2 DEF Made
  <2>5. a2 = a /\ b2 = b
    BY <1>2, <1>3, <1>14, <1>33, <2>1 DEF Crash, Bounds, VotersBeyond
  <2>6. o2 <= o
    <3>1. PICK e \in Nat, e2 \in Nat : EventsLeft = e /\ EventsLeft' = e2
      BY <1>1 DEF OwedTypeOK
    <3>2. ~HasPublish(watcher')
      BY <2>1 DEF HasPublish
    <3>3. e2 <= e
      BY <2>1, <3>1, <3>2 DEF EventsLeft, RoundTypeOK
    <3> QED BY <1>21, <2>3, <3>1, <3>3
  <2>7. v2 <= v
    <3> DEFINE A == (delivered \cup HandSet) \cap voteMsgs
               B == delivered \cap (voteMsgs \cup HandSet)
    <3>1. A \in SUBSET Relayers /\ B \in SUBSET Relayers
      BY <1>1 DEF OwedTypeOK
    <3>2. OnTheWay = Cardinality(A) /\ OnTheWay' = Cardinality(B) /\ InHandAgain' = 0
      BY <2>1, <2>2 DEF OnTheWay, InHandAgain
    <3>3. CASE HandSet \cap delivered = {}
      <4>1. B \in SUBSET A
        BY <3>3
      <4>2. InHandAgain = 0
        BY <3>3 DEF InHandAgain
      <4> HIDE DEF A, B
      <4>3. PICK n \in Nat, n2 \in Nat : Cardinality(A) = n /\ Cardinality(B) = n2 /\ n2 <= n
        BY <3>1, <4>1, HeardGrows
      <4> QED BY <1>2, <1>3, <3>2, <4>2, <4>3 DEF VotesAgain
    <3>4. CASE HandSet \cap delivered # {}
      <4>1. PICK x \in Relayers : HandSet = {x} /\ x \in delivered
        BY <1>1, <3>4 DEF HandSet, OwedTypeOK
      <4>2. B \in SUBSET (A \cup {x}) /\ A \cup {x} \in SUBSET Relayers
        BY <1>1, <3>1, <4>1
      <4>3. InHandAgain = 1
        BY <3>4 DEF InHandAgain
      <4> HIDE DEF A, B
      <4>4. PICK n \in Nat, n1 \in Nat, n2 \in Nat :
               Cardinality(A) = n /\ Cardinality(A \cup {x}) = n1 /\ Cardinality(B) = n2
        BY <3>1, <4>2, RelayersCounted
      <4>5. n1 <= n + 1 /\ n2 <= n1
        BY <3>1, <4>1, <4>2, <4>4, OneMoreCounted, SubsetCounted
      <4> QED BY <1>2, <1>3, <3>2, <4>3, <4>4, <4>5 DEF VotesAgain
    <3> QED BY <3>3, <3>4
  <2> QED BY <1>4, <2>4, <2>5, <2>6, <2>7
<1>34. CASE VoteLost
  <2>1. /\ eventMsgs' = eventMsgs - 1 /\ eventMsgs > 0
        /\ UNCHANGED <<watcher, voteMsgs, delivered, voteHandler, tries, broadcasts>>
    BY <1>34 DEF VoteLost, EventInHand
  <2>2. UNCHANGED HandSet
    BY <1>10, <2>1
  <2>3. HasVoted' <=> HasVoted
    BY <1>13, <2>1, <2>2
  <2>4. a2 = a
    BY <1>14, <1>34 DEF VoteLost, Bounds
  <2>5. PICK e \in Nat, e2 \in Nat : EventsLeft = e /\ EventsLeft' = e2 /\ e2 = e - 1
    BY <1>1, <2>1 DEF OwedTypeOK, EventsLeft, RoundTypeOK
  <2>6. o2 <= o
    BY <1>21, <2>3, <2>5
  <2> QED BY <1>4, <1>7, <1>12, <2>1, <2>2, <2>4, <2>6
<1> QED
  BY <1>34, <1>15, <1>17, <1>18, <1>19, <1>20, <1>22, <1>23, <1>25, <1>26, <1>28, <1>29, <1>30, <1>31, <1>32, <1>33
     DEF RoundNext, EventStep, VoteStep, TaskStep, BusStep, TickStep, FaultStep

\* A vote is counted before it is acknowledged, and a quorum short of one vote is
\* heard of before a vote is counted that stays in hand.
LEMMA VotersHeardStep ==
    ASSUME RoundTypeOK, RoundTypeOK', BroadcastsOwed, [RoundNext]_roundVars
    PROVE  VotersHeard'
<1> USE DEF dbVars, busVars, taskVars, timeoutVars
<1>1. VotersHeard /\ delivered \in SUBSET Relayers /\ delivered' \in SUBSET Relayers
  BY DEF RoundTypeOK, BroadcastsOwed
<1>2. ASSUME delivered \subseteq delivered', UNCHANGED votes
      PROVE  VotersHeard'
  <2>1. PICK d \in Nat, d2 \in Nat : Cardinality(delivered) = d /\ Cardinality(delivered') = d2 /\ d <= d2
    BY <1>1, <1>2, HeardGrows
  <2>2. votes \subseteq delivered \/ d >= Quorum - 1
    BY <1>1, <2>1 DEF VotersHeard
  <2>3. votes' \subseteq delivered' \/ d2 >= Quorum - 1
    BY <1>2, <2>1, <2>2, RoundParams
  <2> QED BY <2>1, <2>3 DEF VotersHeard
<1>3. CASE AddVote
  <2>1. voteHandler # <<>> /\ Voter \in Relayers /\ votes \in SUBSET Relayers /\ votes' = votes \cup {Voter}
    BY <1>3, VoterIsRelayer DEF AddVote, InHand, RoundTypeOK
  <2>2. PICK d \in Nat, d2 \in Nat : Cardinality(delivered) = d /\ Cardinality(delivered') = d2 /\ d <= d2
    <3>1. delivered \subseteq delivered'
      BY <1>3 DEF AddVote, Acknowledge
    <3> QED BY <1>1, <3>1, HeardGrows
  <2>3. CASE d >= Quorum - 1
    <3>1. d2 >= Quorum - 1
      BY <2>2, <2>3, RoundParams
    <3> QED BY <2>2, <3>1 DEF VotersHeard
  <2>4. CASE ~(d >= Quorum - 1)
    <3>1. votes \subseteq delivered
      BY <1>1, <2>2, <2>4 DEF VotersHeard
    <3>2. votes \cup {Voter} \in SUBSET (delivered \cup {Voter}) /\ delivered \cup {Voter} \in SUBSET Relayers
      BY <1>1, <2>1, <3>1
    <3>3. PICK n \in Nat, d1 \in Nat :
             /\ Cardinality(votes \cup {Voter}) = n /\ Cardinality(delivered \cup {Voter}) = d1
             /\ n <= d1 /\ d1 <= d + 1
      <4>1. Cardinality(delivered \cup {Voter}) \in {d, d + 1}
        BY <1>1, <2>1, <2>2, OneMoreCounted
      <4>2. votes \cup {Voter} \in SUBSET Relayers
        BY <3>2
      <4> QED BY <2>2, <3>2, <4>1, <4>2, HeardGrows
    <3>4. ~QuorumMet(VoteCount(Voter))
      <4>1. n < Quorum
        BY <2>4, <3>3, RoundParams
      <4> QED BY <3>3, <4>1, RoundParams DEF QuorumMet, VoteCount
    <3>5. delivered' = delivered \cup {Voter}
      BY <1>3, <3>4 DEF AddVote, Acknowledge
    <3> QED BY <2>1, <3>1, <3>5 DEF VotersHeard
  <2> QED BY <2>3, <2>4
<1>4. CASE StartSubmission
  BY <1>2, <1>4 DEF StartSubmission, Acknowledge
<1>5. ASSUME NEW r \in Relayers, RefuseVote(r)
      PROVE  VotersHeard'
  BY <1>2, <1>5 DEF RefuseVote, Acknowledge
<1>6. CASE UNCHANGED <<votes, delivered>>
  BY <1>2, <1>6
<1> QED
  BY <1>3, <1>4, <1>5, <1>6
     DEF RoundNext, roundVars, EventStep, VoteStep, TaskStep, BusStep, TickStep, FaultStep,
         WatcherStep, HandleEvent, PublishVote, VoteLost, AcceptVote, SetReady, Submit, SubmitSkips, SubmitFails,
         MarkSubmitted, PeerPublishes, PeerVotes, RedeliverVote, TickReads, TickEnds, Crash

RoundInv == RoundTypeOK /\ EventInHand /\ SubmissionsHaveQuorum /\ BroadcastsOwed

LEMMA RoundInvariant == RoundSpec => []RoundInv
<1>1. RoundInit => RoundInv
  <2> SUFFICES ASSUME RoundInit PROVE RoundInv
    OBVIOUS
  <2>1. EventInHand
    BY DEF RoundInit, EventInHand
  <2>2. SubmissionsHaveQuorum
    <3>1. broadcasts = <<>> /\ tries = <<>> /\ voteHandler = <<>>
      BY DEF RoundInit
    <3> QED BY <3>1 DEF SubmissionsHaveQuorum, BroadcastHasQuorum, InHand
  <2> QED BY <2>1, <2>2, RoundInitTyped, OwedInit DEF RoundInv
<1>2. RoundInv /\ [RoundNext]_roundVars => RoundInv'
  <2> SUFFICES ASSUME RoundInv, [RoundNext]_roundVars PROVE RoundInv'
    OBVIOUS
  <2>1. RoundTypeOK' /\ EventInHand'
    BY RoundTypedStep DEF RoundInv
  <2>2. SubmissionsHaveQuorum'
    BY QuorumStep DEF RoundInv
  <2>3. BroadcastsOwed'
    BY <2>1, OwedStep, VotersHeardStep DEF RoundInv, BroadcastsOwed
  <2> QED BY <2>1, <2>2, <2>3 DEF RoundInv
<1> QED BY <1>1, <1>2, PTL DEF RoundSpec

\* In every state the round's variables have their types: the retries of a
\* submission stay below the ladder's length.
THEOREM RoundTyped == RoundSpec => []RoundTypeOK
<1>1. RoundInv => RoundTypeOK
  BY DEF RoundInv
<1> QED BY <1>1, RoundInvariant, PTL

\* executeTxSubmission loads the votes long after AddVote counted them: no
\* transaction goes out with fewer signatures than the quorum, for every
\* committee, however goroutines, crashes and redeliveries interleave.
THEOREM BroadcastsHaveQuorum == RoundSpec => []BroadcastHasQuorum
<1>1. RoundInv => BroadcastHasQuorum
  BY DEF RoundInv, SubmissionsHaveQuorum
<1> QED BY <1>1, RoundInvariant, PTL

\* The committee is large enough for the quorum, or one relayer short of it.
QuorumInReach == Quorum <= Cardinality(Relayers) + 1

\* A daemon starts and broadcasts at most one submission for each vote beyond
\* the quorum's first votes, and for each message delivered again: what one
\* nonce costs in fees is bounded for every committee and number of faults.
THEOREM BroadcastsAreBounded ==
    ASSUME QuorumInReach
    PROVE  RoundSpec => []BroadcastsBounded
<1>1. RoundInv => BroadcastsBounded
  <2> SUFFICES ASSUME RoundInv PROVE BroadcastsBounded
    OBVIOUS
  <2>1. OwedTypeOK
    BY OwedTyped DEF RoundInv
  <2>2. PICK m \in Nat, v \in Nat, o \in Nat, a \in Nat, b \in Nat, d \in Nat, n \in Nat :
           /\ Made = m /\ VotesAgain = v /\ OwnVotesAgain = o /\ MessagesAgain = a /\ VotersBeyond = b
           /\ Cardinality(delivered) = d /\ Cardinality(Relayers) = n
    BY <2>1, RelayersCounted DEF OwedTypeOK
  <2>3. d <= n
    BY <2>1, <2>2, RelayersCounted DEF OwedTypeOK
  <2>4. b <= n - Quorum + 1
    BY <2>2, <2>3, QuorumInReach, RoundParams DEF VotersBeyond, QuorumInReach
  <2>5. m + v + o <= a + b
    BY <2>2 DEF RoundInv, BroadcastsOwed, Owed
  <2>6. m <= n - Quorum + 1 + a
    BY <2>4, <2>5, RoundParams
  <2> QED BY <2>2, <2>6 DEF BroadcastsBounded, Made, MessagesAgain
<1> QED BY <1>1, RoundInvariant, PTL
=============================================================================
