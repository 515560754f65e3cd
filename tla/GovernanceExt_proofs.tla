------------------------ MODULE GovernanceExt_proofs ------------------------
(***************************************************************************)
(* x/certification, and the governed chain it is part of, for every value  *)
(* of the constants.                                                       *)
(***************************************************************************)
EXTENDS GovernanceExt, TLAPS, FiniteSetTheorems, NaturalsInduction, WellFoundedInduction

------------------------------------------------------------------------------
(***************************************************************************)
(* The liveness window of x/certification for any validators, any window   *)
(* and any thresholds.                                                     *)
(*                                                                         *)
(* The count is kept by increments and decrements.  What makes it equal to *)
(* the votes in the window, less those cast while out of the set and with  *)
(* the overdue ones, is that the stored bits are exactly these; that in    *)
(* turn needs the chain's record to reach no further than the present      *)
(* block.                                                                  *)
(***************************************************************************)

\* The votes that a validator's stored bits should be.
Owed(v) == (WindowVotes(v) \cap present[v]) \cup OverdueVotes(v)

\* The record, as far as the bits depend on it.
RecordTyped ==
    /\ height \in Nat /\ since \in Nat /\ since <= height
    /\ voted \in [Validators -> SUBSET (1 .. height)]
    /\ present \in [Validators -> SUBSET (0 .. height)]

StoreTyped ==
    /\ bits \in [Validators -> SUBSET (1 .. height)]
    /\ count \in [Validators -> Int]

BitsAreOwed == \A v \in Validators : bits[v] = Owed(v)

CountIsBits == \A v \in Validators : count[v] = Cardinality(bits[v])

WindowInv == RecordTyped /\ StoreTyped /\ BitsAreOwed /\ CountIsBits

LEMMA WindowPositive == W \in Nat \ {0}
BY CertificationParams DEF CertificationParams

\* The threshold is a number of votes.
LEMMA ThresholdIsNat ==
    ASSUME NEW h \in Nat, NEW deg \in BOOLEAN
    PROVE  Threshold(h, deg) \in Nat
<1> DEFINE asked == IF deg THEN KDegraded ELSE K
<1>1. K \in Nat /\ KDegraded \in Nat /\ W \in Nat \ {0}
  BY CertificationParams DEF CertificationParams
<1>2. asked \in Nat
  BY <1>1
<1> HIDE DEF asked
<1>3. h * asked \in Nat
  BY <1>2
<1>4. (h * asked) \div W \in Nat
  BY <1>1, <1>3
<1> QED BY <1>2, <1>4 DEF Threshold, asked

\* Sets of heights up to the present one are finite.
LEMMA HeightsAreFinite ==
    ASSUME NEW n \in Nat, NEW S \in SUBSET (1 .. n)
    PROVE  IsFiniteSet(S) /\ Cardinality(S) \in Nat
<1>1. IsFiniteSet(1 .. n)
  BY FS_Interval
<1>2. IsFiniteSet(S)
  BY <1>1, FS_Subset
<1> QED BY <1>2, FS_CardinalityType

LEMMA WindowInit == CertificationInit => WindowInv
<1> SUFFICES ASSUME CertificationInit PROVE WindowInv
  OBVIOUS
<1> USE DEF CertificationInit
<1>1. RecordTyped
  BY DEF RecordTyped
<1>2. StoreTyped
  BY DEF StoreTyped
<1>3. BitsAreOwed
  BY DEF BitsAreOwed, Owed, WindowVotes, OverdueVotes
<1>4. CountIsBits
  BY FS_EmptySet DEF CountIsBits
<1> QED BY <1>1, <1>2, <1>3, <1>4 DEF WindowInv

------------------------------------------------------------------------------
\* A block: who is in the set gains the vote of the block and loses the one that
\* leaves the window; who is not keeps all, among them one that is now overdue, and
\* gains none, though its signature may be in the block's commit.
LEMMA BlockKeepsWindow ==
    ASSUME WindowInv, NEW votes, NEW rejected, EndBlock(votes, rejected)
    PROVE  WindowInv'
<1> DEFINE h == height + 1
<1>1. /\ height' = h /\ since' = since
      /\ height \in Nat /\ h \in Nat /\ since \in Nat /\ since < h
      /\ W \in Nat \ {0}
  BY WindowPositive DEF EndBlock, WindowInv, RecordTyped
<1>2. /\ bits' = [v \in Validators |->
                    IF v \in Elected THEN BitsAfter(v, h, votes) ELSE bits[v]]
      /\ count' = [v \in Validators |->
                    IF v \in Elected THEN CountAfter(v, h, votes) ELSE count[v]]
      /\ present' = [v \in Validators |->
                    IF v \in Elected THEN present[v] \cup {h} ELSE present[v]]
      /\ voted' = [v \in Validators |->
                    IF v \in votes THEN voted[v] \cup {h} ELSE voted[v]]
  BY DEF EndBlock, CertificationEndBlocker
<1> HIDE DEF h
<1>h. h = height + 1
  BY DEF h
<1>3. RecordTyped'
  BY <1>1, <1>2, <1>h DEF RecordTyped, WindowInv
<1>4. ASSUME NEW v \in Validators
      PROVE  /\ bits'[v] \in SUBSET (1 .. height')
             /\ count'[v] \in Int
             /\ bits'[v] = Owed(v)'
             /\ count'[v] = Cardinality(bits'[v])
  <2>1. /\ bits[v] \in SUBSET (1 .. height) /\ count[v] = Cardinality(bits[v])
        /\ voted[v] \in SUBSET (1 .. height) /\ present[v] \in SUBSET (0 .. height)
    BY DEF WindowInv, RecordTyped, StoreTyped, CountIsBits
  <2>2. IsFiniteSet(bits[v]) /\ Cardinality(bits[v]) \in Nat
    BY <1>1, <2>1, HeightsAreFinite
  <2>3. \A b : b \in bits[v] <=>
               /\ b \in voted[v] /\ b \in present[v] /\ b > since
               /\ b > height - W \/ b + W \notin present[v]
    <3>1. bits[v] = Owed(v)
      BY DEF WindowInv, BitsAreOwed
    <3>2. \A b \in voted[v] : b \in Int /\ (b > height - W \/ b <= height - W)
      BY <1>1, <2>1
    <3> QED BY <3>1, <3>2 DEF Owed, WindowVotes, OverdueVotes
  <2>4. \A b : b \in Owed(v)' <=>
               /\ b \in voted'[v] /\ b \in present'[v] /\ b > since
               /\ b > h - W \/ b + W \notin present'[v]
    <3>1. \A b \in voted'[v] : b \in Int /\ (b > h - W \/ b <= h - W)
      <4>1. voted'[v] \in SUBSET (voted[v] \cup {h})
        BY <1>2
      <4> QED BY <1>1, <2>1, <4>1
    <3> QED BY <1>1, <3>1 DEF Owed, WindowVotes, OverdueVotes
  <2>5. CASE v \notin Elected
    <3>1. /\ bits'[v] = bits[v] /\ count'[v] = count[v]
          /\ voted'[v] \in SUBSET (voted[v] \cup {h}) /\ voted[v] \in SUBSET voted'[v]
          /\ present'[v] = present[v]
      BY <1>2, <2>5
    <3>2. \A b \in voted[v] : b > height - W <=> (b > h - W \/ b + W = h)
      BY <1>1, <1>h, <2>1
    <3>3. h \notin present[v]
      BY <1>1, <1>h, <2>1
    <3>4. ASSUME NEW b PROVE b \in bits'[v] <=> b \in Owed(v)'
      <4>1. CASE b \in voted[v]
        BY <2>3, <2>4, <3>1, <3>2, <3>3, <4>1
      <4>2. CASE b \notin voted[v]
        <5>1. b \in voted'[v] => b \notin present'[v]
          BY <3>1, <3>3, <4>2
        <5> QED BY <2>3, <2>4, <3>1, <4>2, <5>1
      <4> QED BY <4>1, <4>2
    <3>5. bits'[v] = Owed(v)'
      BY <3>4
    <3>6. bits'[v] \in SUBSET (1 .. height') /\ count'[v] \in Int
      BY <1>1, <1>h, <2>1, <2>2, <3>1
    <3>7. count'[v] = Cardinality(bits'[v])
      BY <2>1, <3>1
    <3> QED BY <3>5, <3>6, <3>7
  <2>6. CASE v \in Elected
    <3> DEFINE gained == bits[v] \cup (IF v \in votes THEN {h} ELSE {})
    <3>1. /\ bits'[v] = gained \ Leaving(h)
          /\ count'[v] = CountAfter(v, h, votes)
          /\ present'[v] = present[v] \cup {h}
          /\ voted'[v] = voted[v] \cup (IF v \in votes THEN {h} ELSE {})
      BY <1>2, <2>6 DEF BitsAfter
    <3>2. h \notin bits[v] /\ h \notin Leaving(h)
      BY <1>1, <1>h, <2>1 DEF Leaving
    <3>3. /\ IsFiniteSet(gained)
          /\ Cardinality(gained) = count[v] + (IF v \in votes THEN 1 ELSE 0)
      <4>1. CASE v \in votes
        <5>1. gained = bits[v] \cup {h}
          BY <4>1
        <5> QED BY <2>1, <2>2, <3>2, <4>1, <5>1, FS_AddElement
      <4>2. CASE v \notin votes
        <5>1. gained = bits[v]
          BY <4>2
        <5> QED BY <2>1, <2>2, <4>2, <5>1
      <4> QED BY <4>1, <4>2
    <3>4. /\ Cardinality(gained \ Leaving(h))
               = Cardinality(gained) - (IF bits[v] \cap Leaving(h) # {} THEN 1 ELSE 0)
      <4>1. CASE h > W
        <5>1. Leaving(h) = {h - W}
          BY <4>1 DEF Leaving
        <5>2. h - W \in gained <=> bits[v] \cap Leaving(h) # {}
          BY <5>1, <3>2
        <5>3. Cardinality(gained \ {h - W}) =
                IF h - W \in gained THEN Cardinality(gained) - 1 ELSE Cardinality(gained)
          BY <3>3, FS_RemoveElement
        <5>4. Cardinality(gained) \in Int
          BY <2>1, <2>2, <3>3
        <5> QED BY <5>1, <5>2, <5>3, <5>4
      <4>2. CASE ~(h > W)
        <5>1. Leaving(h) = {}
          BY <4>2 DEF Leaving
        <5>2. Cardinality(gained) \in Int
          BY <2>1, <2>2, <3>3
        <5> QED BY <5>1, <5>2
      <4> QED BY <4>1, <4>2
    <3>5. count'[v] = Cardinality(bits'[v]) /\ count'[v] \in Int
      BY <2>1, <2>2, <3>1, <3>3, <3>4 DEF CountAfter
    <3>6. bits'[v] \in SUBSET (1 .. height')
      BY <1>1, <1>h, <2>1, <3>1
    <3>7. ASSUME NEW b PROVE b \in bits'[v] <=> b \in Owed(v)'
      <4>1. CASE b \in voted[v]
        <5>1. b \in 1 .. height /\ b # h
          BY <1>1, <1>h, <2>1, <4>1
        <5>2. b \in Leaving(h) <=> b = h - W
          BY <1>1, <1>h, <5>1 DEF Leaving
        <5>3. b \in bits'[v] <=> b \in bits[v] /\ b # h - W
          BY <3>1, <5>1, <5>2
        <5>4. b \in Owed(v)' <=> /\ b \in present[v] /\ b > since
                                /\ \/ b > h - W
                                   \/ b + W \notin present[v] /\ b + W # h
          BY <2>4, <3>1, <4>1, <5>1
        <5>5. b > height - W <=> (b > h - W \/ b + W = h)
          BY <1>1, <1>h, <5>1
        <5>6. b = h - W <=> b + W = h
          BY <1>1, <5>1
        <5>7. b > h - W => b + W # h
          BY <1>1, <5>1
        <5> QED BY <2>3, <4>1, <5>3, <5>4, <5>5, <5>6, <5>7
      <4>2. CASE b = h /\ v \in votes
        <5>1. h > h - W
          BY <1>1
        <5>2. h \in Owed(v)'
          BY <1>1, <2>4, <3>1, <4>2, <5>1
        <5> QED BY <3>1, <3>2, <4>2, <5>2
      <4>3. CASE b \notin voted[v] /\ ~(b = h /\ v \in votes)
        <5>1. b \notin bits[v]
          BY <2>3, <4>3
        <5>2. b \notin voted'[v]
          BY <3>1, <4>3
        <5> QED BY <2>4, <3>1, <4>3, <5>1, <5>2
      <4> QED BY <4>1, <4>2, <4>3
    <3> QED BY <3>5, <3>6, <3>7
  <2> QED BY <2>5, <2>6
<1>5. StoreTyped'
  BY <1>2, <1>4 DEF StoreTyped
<1> QED BY <1>3, <1>4, <1>5 DEF WindowInv, BitsAreOwed, CountIsBits

\* After a restart nothing is stored and nothing of the old chain is owed.
LEMMA RestartKeepsWindow ==
    ASSUME WindowInv, ExportImportGenesis
    PROVE  WindowInv'
<1> USE DEF ExportImportGenesis
<1>1. RecordTyped'
  BY DEF WindowInv, RecordTyped
<1>2. StoreTyped'
  BY DEF StoreTyped
<1>3. \A v \in Validators : Owed(v)' = {}
  <2>1. \A v \in Validators : \A b \in voted[v] : ~(b > height)
    BY DEF WindowInv, RecordTyped
  <2> QED BY <2>1 DEF Owed, WindowVotes, OverdueVotes
<1>4. BitsAreOwed'
  BY <1>3 DEF BitsAreOwed
<1>5. CountIsBits'
  BY FS_EmptySet DEF CountIsBits
<1> QED BY <1>1, <1>2, <1>4, <1>5 DEF WindowInv

LEMMA IdleKeepsWindow ==
    ASSUME WindowInv, UNCHANGED <<bits, count, recordVars, height>>
    PROVE  WindowInv'
BY DEF recordVars, WindowInv, RecordTyped, StoreTyped, BitsAreOwed, CountIsBits,
       Owed, WindowVotes, OverdueVotes

LEMMA WindowStep == WindowInv /\ [Next]_vars => WindowInv'
<1> SUFFICES ASSUME WindowInv, [Next]_vars PROVE WindowInv'
  OBVIOUS
<1>1. CASE SetStep /\ UNCHANGED <<certVars, recordVars, height>>
  BY <1>1, IdleKeepsWindow DEF certVars
<1>2. ASSUME NEW votes \in SUBSET MayHaveVoted(height + 1), NEW rejected \in Rejections,
             EndBlock(votes, rejected)
      PROVE  WindowInv'
  BY <1>2, BlockKeepsWindow
<1>3. ASSUME NEW n \in Limits, UpdateCertificationParams(n) PROVE WindowInv'
  BY <1>3, IdleKeepsWindow DEF UpdateCertificationParams
<1>4. CASE ExportImportGenesis
  BY <1>4, RestartKeepsWindow
<1>5. CASE UNCHANGED vars
  BY <1>5, IdleKeepsWindow DEF vars, certVars
<1> QED BY <1>1, <1>2, <1>3, <1>4, <1>5 DEF Next

\* What the EndBlocker's passes need of the set: who stands for election, and a
\* number of slots.
SetTyped == staked \subseteq Validators /\ maxValidators \in Sizes

LEMMA SetTypedAlways == CertificationSpec => []SetTyped
<1>1. CertificationInit => SetTyped
  BY DEF CertificationInit, SetInit, SetTyped
<1>2. SetTyped /\ [Next]_vars => SetTyped'
  BY DEF SetTyped, Next, SetStep, Stake, Unstake, Unjail, FillValidatorSlot, EjectValidator,
         SetMaxValidators, stakingVars, slotVars, EndBlock, ValidatorEndBlocker,
         UpdateCertificationParams, ExportImportGenesis, vars, setVars
<1> QED BY <1>1, <1>2, PTL DEF CertificationSpec

\* Only a block moves the height.
LEMMA BlockMovesHeight ==
    ASSUME [Next]_vars, height' # height
    PROVE  \E votes \in SUBSET MayHaveVoted(height + 1), rejected \in Rejections :
               EndBlock(votes, rejected)
<1>1. Next
  BY DEF vars
<1>2. ~(SetStep /\ UNCHANGED <<certVars, recordVars, height>>)
  OBVIOUS
<1>3. ~ExportImportGenesis /\ ~\E n \in Limits : UpdateCertificationParams(n)
  BY DEF ExportImportGenesis, UpdateCertificationParams
<1> QED BY <1>1, <1>2, <1>3 DEF Next

LEMMA WindowAlways == CertificationSpec => []WindowInv
BY WindowInit, WindowStep, PTL DEF CertificationSpec

------------------------------------------------------------------------------
OwedIsSum ==
    \A v \in Validators :
        /\ CountedVotes(v) \in Nat
        /\ CountedVotes(v) = Cardinality(WindowVotes(v)) - Cardinality(UncountedVotes(v))
        /\ Cardinality(OverdueVotes(v)) \in Nat
        /\ count[v] = CountedVotes(v) + Cardinality(OverdueVotes(v))

LEMMA OwedSums == WindowInv => OwedIsSum
<1> SUFFICES ASSUME WindowInv, NEW v \in Validators
             PROVE  /\ CountedVotes(v) \in Nat
                    /\ CountedVotes(v)
                         = Cardinality(WindowVotes(v)) - Cardinality(UncountedVotes(v))
                    /\ Cardinality(OverdueVotes(v)) \in Nat
                    /\ count[v] = CountedVotes(v) + Cardinality(OverdueVotes(v))
  BY DEF OwedIsSum
<1> DEFINE counted == WindowVotes(v) \cap present[v]
<1>1. /\ WindowVotes(v) \in SUBSET (1 .. height)
      /\ OverdueVotes(v) \in SUBSET (1 .. height) /\ height \in Nat
  BY DEF WindowInv, RecordTyped, WindowVotes, OverdueVotes
<1>2. /\ counted \in SUBSET (1 .. height)
      /\ UncountedVotes(v) \in SUBSET (1 .. height)
  BY <1>1 DEF UncountedVotes
<1>3. WindowVotes(v) = counted \cup UncountedVotes(v) /\ counted \cap UncountedVotes(v) = {}
  BY DEF UncountedVotes
<1>4. counted \cap OverdueVotes(v) = {}
  BY <1>1, WindowPositive DEF WindowVotes, OverdueVotes
<1>5. CountedVotes(v) = Cardinality(counted) /\ Owed(v) = counted \cup OverdueVotes(v)
  BY DEF CountedVotes, Owed
<1> HIDE DEF counted
<1>6. /\ IsFiniteSet(counted) /\ Cardinality(counted) \in Nat
      /\ IsFiniteSet(UncountedVotes(v)) /\ Cardinality(UncountedVotes(v)) \in Nat
      /\ IsFiniteSet(OverdueVotes(v)) /\ Cardinality(OverdueVotes(v)) \in Nat
  BY <1>1, <1>2, HeightsAreFinite
<1>7. Cardinality({}) = 0
  BY FS_EmptySet
<1>8. Cardinality(WindowVotes(v)) = Cardinality(counted) + Cardinality(UncountedVotes(v))
  <2>1. Cardinality(counted \cup UncountedVotes(v))
          = Cardinality(counted) + Cardinality(UncountedVotes(v)) - Cardinality({})
    BY <1>3, <1>6, FS_Union
  <2> QED BY <1>3, <1>6, <1>7, <2>1
<1>9. Cardinality(Owed(v)) = Cardinality(counted) + Cardinality(OverdueVotes(v))
  <2>1. Cardinality(counted \cup OverdueVotes(v))
          = Cardinality(counted) + Cardinality(OverdueVotes(v)) - Cardinality({})
    BY <1>4, <1>6, FS_Union
  <2> QED BY <1>5, <1>6, <1>7, <2>1
<1>10. count[v] = Cardinality(Owed(v))
  BY DEF WindowInv, CountIsBits, BitsAreOwed
<1> QED BY <1>5, <1>6, <1>8, <1>9, <1>10

\* The stored count of a validator is the number of its signatures in the commits of
\* the window, less those in blocks it was out of the set in, and with the counted
\* ones that fell due in such blocks, through every block, change of the set and
\* restart (keeper.go:257-302).
THEOREM CountIsExact == CertificationSpec => []CountDriftsOnlyByAbsence
<1>1. WindowInv => CountDriftsOnlyByAbsence
  <2> SUFFICES ASSUME WindowInv, NEW v \in Validators
               PROVE  count[v] = Cardinality(WindowVotes(v)) - Cardinality(UncountedVotes(v))
                                 + Cardinality(OverdueVotes(v))
    BY DEF CountDriftsOnlyByAbsence
  <2> QED BY OwedSums DEF OwedIsSum
<1> QED BY <1>1, WindowAlways, PTL

\* A block jails no attested validator that keeps its slot and whose signatures in the
\* window, those in blocks it was in the set of, reach the threshold (keeper.go:306).
THEOREM JailingHasCause == CertificationSpec => JailedForCause
<1>1. ASSUME WindowInv', OwedIsSum', SetTyped, [Next]_vars
      PROVE  [height' # height =>
                \A v \in jailed' \ jailed :
                   \/ v \notin attested
                   \/ v \in active \ active'
                   \/ CountedVotes(v)' < Threshold(height', degraded')]_vars
  <2> SUFFICES ASSUME height' # height, NEW v \in jailed' \ jailed,
                      v \in attested, v \notin active \ active'
               PROVE  CountedVotes(v)' < Threshold(height', degraded')
    OBVIOUS
  <2>1. PICK votes \in SUBSET MayHaveVoted(height + 1), rejected \in Rejections :
          EndBlock(votes, rejected)
    BY <1>1, BlockMovesHeight
  <2>2. v \in JailedByCertification(Elected, height + 1, votes, DegradedAfter(rejected))
    <3>1. v \notin Ejected(Elected)
      BY <2>1 DEF EndBlock, ValidatorEndBlocker, SlotsAfter, Ejected
    <3> QED BY <2>1, <3>1 DEF EndBlock
  <2>3. /\ v \in Elected
        /\ CountAfter(v, height + 1, votes)
             < Threshold(height + 1, DegradedAfter(rejected))
    BY <2>2 DEF JailedByCertification
  <2>4. v \in Validators
    BY <1>1, <2>3 DEF Elected, SetTyped
  <2>5. count'[v] < Threshold(height', degraded')
    BY <2>1, <2>3, <2>4 DEF EndBlock, CertificationEndBlocker
  <2>6. height' \in Nat /\ degraded' \in BOOLEAN
    BY <1>1, <2>1 DEF WindowInv, RecordTyped, EndBlock, CertificationEndBlocker,
                      DegradedAfter
  <2>7. Threshold(height', degraded') \in Nat
    BY <2>6, ThresholdIsNat
  <2>8. /\ CountedVotes(v)' \in Nat /\ Cardinality(OverdueVotes(v)') \in Nat
        /\ count'[v] = CountedVotes(v)' + Cardinality(OverdueVotes(v)')
    BY <1>1, <2>4 DEF OwedIsSum
  <2> QED BY <2>5, <2>7, <2>8
<1> QED BY <1>1, OwedSums, WindowAlways, SetTypedAlways, PTL
    DEF CertificationSpec, JailedForCause

\* Who a block leaves in the set has counted votes enough in the window, or votes that
\* fell due while it was absent and were never subtracted (keeper.go:294-306).
THEOREM LaggardsWereAbsent == CertificationSpec => LaggardsEscapeOnlyByAbsence
<1>1. ASSUME WindowInv', OwedIsSum', SetTyped, [Next]_vars
      PROVE  [height' # height =>
                \A v \in bonded' \ jailed' :
                   \/ CountedVotes(v)' >= Threshold(height', degraded')
                   \/ OverdueVotes(v)' # {}]_vars
  <2> SUFFICES ASSUME height' # height, NEW v \in bonded' \ jailed', OverdueVotes(v)' = {}
               PROVE  CountedVotes(v)' >= Threshold(height', degraded')
    OBVIOUS
  <2>1. PICK votes \in SUBSET MayHaveVoted(height + 1), rejected \in Rejections :
          EndBlock(votes, rejected)
    BY <1>1, BlockMovesHeight
  <2>2. /\ v \in Elected
        /\ v \notin JailedByCertification(Elected, height + 1, votes, DegradedAfter(rejected))
    BY <2>1 DEF EndBlock
  <2>3. v \in Validators
    BY <1>1, <2>2 DEF Elected, SetTyped
  <2>4. ~(count'[v] < Threshold(height', degraded'))
    BY <2>1, <2>2, <2>3 DEF EndBlock, CertificationEndBlocker, JailedByCertification
  <2>5. height' \in Nat /\ degraded' \in BOOLEAN
    BY <1>1, <2>1 DEF WindowInv, RecordTyped, EndBlock, CertificationEndBlocker,
                      DegradedAfter
  <2>6. Threshold(height', degraded') \in Nat
    BY <2>5, ThresholdIsNat
  <2>7. /\ CountedVotes(v)' \in Nat
        /\ count'[v] = CountedVotes(v)' + Cardinality(OverdueVotes(v)')
    BY <1>1, <2>3 DEF OwedIsSum
  <2>8. Cardinality(OverdueVotes(v)') = 0
    BY FS_EmptySet
  <2> QED BY <2>4, <2>6, <2>7, <2>8
<1> QED BY <1>1, OwedSums, WindowAlways, SetTypedAlways, PTL
    DEF CertificationSpec, LaggardsEscapeOnlyByAbsence

------------------------------------------------------------------------------
(***************************************************************************)
(* The slots of x/validator.  Who is in a slot has fewer than              *)
(* maxValidators ahead of it; counting them needs the last of those in     *)
(* slots, who has all the others ahead.                                    *)
(***************************************************************************)

\* A set of numbers has a least one.
LEMMA LeastNumber ==
    ASSUME NEW T \in SUBSET Nat, T # {}
    PROVE  \E m \in T : \A n \in T : m <= n
<1> DEFINE R == {p \in Nat \X Nat : p[1] < p[2]}
<1>1. R = OpToRel(<, Nat)
  BY DEF OpToRel
<1>2. IsWellFoundedOn(R, Nat)
  BY <1>1, NatLessThanWellFounded
<1> HIDE DEF R
<1>3. \E m \in T : \A n \in T : ~(<<n, m>> \in R)
  BY <1>2, WFMin
<1>4. PICK m \in T : \A n \in T : ~(<<n, m>> \in R)
  BY <1>3
<1>5. ASSUME NEW n \in T PROVE m <= n
  <2>1. ~(<<n, m>> \in R) /\ n \in Nat /\ m \in Nat
    BY <1>4
  <2>2. ~(n < m)
    BY <2>1 DEF R
  <2> QED BY <2>1, <2>2
<1> QED BY <1>5

\* The validators of a set that is not empty have a last one.
LEMMA LastValidator ==
    ASSUME NEW S \in SUBSET Validators, S # {}
    PROVE  \E m \in S : \A w \in S : Rank[w] <= Rank[m]
<1> DEFINE IsLast(m, A) == m \in A /\ \A w \in A : Rank[w] <= Rank[m]
           Bad == {A \in SUBSET S : A # {} /\ ~\E m \in A : IsLast(m, A)}
           Counts == {Cardinality(A) : A \in Bad}
<1>1. SUFFICES ASSUME Bad # {} PROVE FALSE
  BY <1>1
<1>2. \A A \in SUBSET S : IsFiniteSet(A) /\ Cardinality(A) \in Nat
  BY ValidatorParams, FS_Subset, FS_CardinalityType
<1>3. Counts \in SUBSET Nat /\ Counts # {}
  BY <1>1, <1>2
<1>4. PICK c \in Counts : \A d \in Counts : c <= d
  <2> HIDE DEF Counts
  <2> QED BY <1>3, LeastNumber
<1>5. PICK A \in Bad : Cardinality(A) = c
  BY <1>4
<1>6. PICK x \in A : TRUE
  OBVIOUS
<1>7. \A w \in A : Rank[w] \in Nat
  BY ValidatorParams
<1>8. Cardinality(A \ {x}) = Cardinality(A) - 1 /\ A \ {x} \in SUBSET S
  BY <1>2, <1>5, <1>6, FS_RemoveElement
<1>9. A \ {x} \notin Bad
  <2>1. ~(Cardinality(A) <= Cardinality(A \ {x}))
    BY <1>2, <1>8
  <2> QED BY <1>4, <1>5, <2>1
<1>10. CASE A \ {x} = {}
  <2>1. IsLast(x, A)
    BY <1>6, <1>7, <1>10
  <2> QED BY <1>5, <1>6, <2>1
<1>11. CASE A \ {x} # {}
  <2>1. PICK m \in A \ {x} : IsLast(m, A \ {x})
    BY <1>8, <1>9, <1>11
  <2>2. IsLast(m, A) \/ IsLast(x, A)
    <3>1. CASE Rank[x] <= Rank[m]
      <4>1. \A w \in A : w = x \/ w \in A \ {x}
        OBVIOUS
      <4> QED BY <2>1, <3>1, <4>1
    <3>2. CASE ~(Rank[x] <= Rank[m])
      <4>1. ASSUME NEW w \in A PROVE Rank[w] <= Rank[x]
        <5>1. Rank[w] \in Nat /\ Rank[x] \in Nat /\ Rank[m] \in Nat
          BY <1>6, <1>7
        <5>2. CASE w = x
          BY <5>1, <5>2
        <5>3. CASE w # x
          <6>1. Rank[w] <= Rank[m]
            BY <2>1, <5>3
          <6> QED BY <3>2, <5>1, <6>1
        <5> QED BY <5>2, <5>3
      <4> QED BY <1>6, <4>1
    <3> QED BY <3>1, <3>2
  <2> QED BY <1>5, <1>6, <2>2
<1> QED BY <1>10, <1>11

\* The pass hands out no more slots than there are.
LEMMA SlotsFit ==
    ASSUME NEW S \in SUBSET Validators, maxValidators \in Nat
    PROVE  Cardinality(InSlots(S)) <= maxValidators
<1> DEFINE I == InSlots(S)
<1>1. I \in SUBSET S /\ I \in SUBSET Validators
  BY DEF InSlots
<1>2. \A A \in SUBSET Validators : IsFiniteSet(A) /\ Cardinality(A) \in Nat
  BY ValidatorParams, FS_Subset, FS_CardinalityType
<1>3. CASE I = {}
  BY <1>3, FS_EmptySet
<1>4. CASE I # {}
  <2> HIDE DEF I
  <2>1. PICK m \in I : \A w \in I : Rank[w] <= Rank[m]
    BY <1>1, <1>4, LastValidator
  <2>2. I \ {m} \subseteq Ahead(m, S)
    <3> SUFFICES ASSUME NEW w \in I, w # m PROVE w \in Ahead(m, S)
      OBVIOUS
    <3>1. Rank[w] \in Nat /\ Rank[m] \in Nat /\ Rank[w] # Rank[m]
      BY <1>1, ValidatorParams
    <3>2. Rank[w] < Rank[m]
      BY <2>1, <3>1
    <3> QED BY <1>1, <3>2 DEF Ahead
  <2>3. Ahead(m, S) \in SUBSET Validators
    BY DEF Ahead
  <2>4. Cardinality(I \ {m}) <= Cardinality(Ahead(m, S))
    BY <1>2, <2>2, <2>3, FS_Subset
  <2>5. Cardinality(I \ {m}) = Cardinality(I) - 1
    BY <1>1, <1>2, FS_RemoveElement
  <2>6. Cardinality(Ahead(m, S)) < maxValidators
    BY DEF I, InSlots
  <2>7. Cardinality(I) \in Nat /\ Cardinality(Ahead(m, S)) \in Nat
    BY <1>1, <1>2, <2>3
  <2>8. Cardinality(I) <= maxValidators
    BY <2>4, <2>5, <2>6, <2>7
  <2> QED BY <2>8 DEF I
<1> QED BY <1>3, <1>4

\* After each block at most maxValidators of the set hold slots, whatever marks
\* messages left and however the number was lowered (x/validator keeper.go:148).
THEOREM SlotsWithinNumber == CertificationSpec => SlotsNotOverfilled
<1>1. ASSUME SetTyped, [Next]_vars
      PROVE  [height' # height => Cardinality(active' \cap bonded') <= maxValidators']_vars
  <2> SUFFICES ASSUME height' # height
               PROVE  Cardinality(active' \cap bonded') <= maxValidators'
    OBVIOUS
  <2>1. PICK votes \in SUBSET MayHaveVoted(height + 1), rejected \in Rejections :
          EndBlock(votes, rejected)
    BY <1>1, BlockMovesHeight
  <2>2. /\ bonded' = Elected /\ active' = SlotsAfter(Elected)
        /\ maxValidators' = maxValidators
    BY <2>1 DEF EndBlock, ValidatorEndBlocker
  <2>3. active' \cap bonded' = InSlots(Elected)
    BY <2>2 DEF SlotsAfter, Ejected, InSlots
  <2>4. Elected \in SUBSET Validators /\ maxValidators \in Nat
    BY <1>1, ValidatorParams DEF SetTyped, Elected
  <2> QED BY <2>2, <2>3, <2>4, SlotsFit
<1> QED BY <1>1, SetTypedAlways, PTL DEF CertificationSpec, SlotsNotOverfilled

------------------------------------------------------------------------------
(***************************************************************************)
(* What holds of the governed chain for every value of the constants: it   *)
(* is a behaviour of x/certification as specified alone, a payload is paid *)
(* once, and a paused constitution freezes what proposals write.           *)
(***************************************************************************)

\* A step of the governed chain is a step of x/certification with x/validator, or
\* leaves them alone.
LEMMA GovernedStep == [GovernanceNext]_govVars => [Next]_vars
<1> SUFFICES ASSUME GovernanceNext, ~UNCHANGED vars PROVE Next
  BY DEF govVars
<1>1. CASE Message
  <2>1. ASSUME NEW v \in Validators,
               \/ Stake(v)
               \/ Unstake(v)
               \/ Unjail(v)
               \/ FillValidatorSlot(v)
               \/ EjectValidator(v),
               UNCHANGED <<certVars, recordVars, height>>
        PROVE  Next
    BY <2>1 DEF Next, SetStep
  <2>2. ASSUME NEW n \in Limits, UpdateCertificationParams(n) PROVE Next
    BY <2>2 DEF Next
  <2>3. ASSUME NEW n \in Sizes, NEW violates \in BOOLEAN, UpdateValidatorSlot(n, violates)
        PROVE  Next
    BY <2>3 DEF Next, SetStep, UpdateValidatorSlot
  <2>4. ASSUME NEW id, NEW key, NEW isActive, NEW violates,
               UpdateWitnessRegistry(id, key, isActive, violates)
        PROVE  FALSE
    BY <2>4 DEF UpdateWitnessRegistry
  <2> QED BY <1>1, <2>1, <2>2, <2>3, <2>4 DEF Message, Proposal
<1>2. CASE Restart
  BY <1>2 DEF Restart, Next
<1>3. CASE Block
  BY <1>3 DEF Block, Next
<1> QED BY <1>1, <1>2, <1>3 DEF GovernanceNext

\* The governed chain implements x/certification as specified on its own: what is
\* proved of the one holds of the other (app.go:744).
THEOREM GovernedCertifies == GovernanceSpec => CertificationSpec
BY GovernedStep, PTL DEF GovernanceSpec, GovernanceInit, CertificationSpec

\* The stored count never drifts but by absence, whatever governance does.
THEOREM GovernedCountIsExact == GovernanceSpec => []CountDriftsOnlyByAbsence
BY GovernedCertifies, CountIsExact, PTL

------------------------------------------------------------------------------
\* A payload was paid when its nonce is stored, and not otherwise.
PaidIffProcessed ==
    paid = [p \in Payloads |-> IF p \in processed THEN 1 ELSE 0]

LEMMA PaidStep == PaidIffProcessed /\ [GovernanceNext]_govVars => PaidIffProcessed'
<1> SUFFICES ASSUME PaidIffProcessed, [GovernanceNext]_govVars PROVE PaidIffProcessed'
  OBVIOUS
<1> USE DEF PaidIffProcessed
<1>1. CASE UNCHANGED <<processed, paid>>
  BY <1>1
<1>2. ASSUME NEW id \in Witnesses, NEW p \in Payloads, NEW amount \in Amounts,
             NEW timestamp, ProcessSettlement(id, p, amount, timestamp, height)
      PROVE  PaidIffProcessed'
  BY <1>2 DEF ProcessSettlement
<1>3. CASE Restart
  BY <1>3 DEF Restart, SettlementRestart, ImportedNonces
<1>4. CASE UNCHANGED settlementVars
  BY <1>1, <1>4 DEF settlementVars
<1>5. ASSUME NEW id, NEW key, NEW isActive, NEW violates,
             UpdateWitnessRegistry(id, key, isActive, violates)
      PROVE  PaidIffProcessed'
  BY <1>1, <1>5 DEF UpdateWitnessRegistry, SetWitnessPubKey, DeleteWitnessPubKey
<1>6. ASSUME NEW n, NEW violates, UpdateValidatorSlot(n, violates)
      PROVE  PaidIffProcessed'
  BY <1>4, <1>6 DEF UpdateValidatorSlot
<1>7. ASSUME NEW key, NEW p, Attest(key, p) PROVE PaidIffProcessed'
  BY <1>1, <1>7 DEF Attest
<1>8. CASE Message
  BY <1>2, <1>4, <1>5, <1>6, <1>7, <1>8 DEF Message, Proposal, SettlementStep
<1>9. CASE Block
  BY <1>4, <1>9 DEF Block
<1>10. CASE UNCHANGED govVars
  BY <1>4, <1>10 DEF govVars
<1> QED BY <1>3, <1>8, <1>9, <1>10 DEF GovernanceNext

\* No payload is settled twice, whichever witness attests it, through rotated keys
\* and restarts from an exported genesis (x/settlement keeper.go:118).
THEOREM PaysOnce == GovernanceSpec => []SettledOnce
<1>1. GovernanceInit => PaidIffProcessed
  BY DEF GovernanceInit, SettlementInit, PaidIffProcessed
<1>2. PaidIffProcessed => SettledOnce
  BY DEF PaidIffProcessed, SettledOnce
<1> QED BY <1>1, <1>2, PaidStep, PTL DEF GovernanceSpec

\* A paused constitution freezes the number of slots and the registry of witnesses:
\* the way around the contract that ExecuteProposal leaves open is never taken
\* (x/governance-ext keeper.go:197).
THEOREM PauseHolds == GovernanceSpec => PauseFreezesProposals
<1>1. ASSUME [GovernanceNext]_govVars
      PROVE  [paused => UNCHANGED <<maxValidators, registry>>]_govVars
  <2> SUFFICES ASSUME paused PROVE UNCHANGED <<maxValidators, registry>>
    OBVIOUS
  <2>1. ASSUME NEW violates PROVE ~ConstitutionAllows(violates)
    BY DEF ConstitutionAllows, CheckProposal
  <2>2. CASE Message
    BY <2>1, <2>2 DEF Message, Proposal, UpdateValidatorSlot, UpdateWitnessRegistry,
       SettlementStep, Attest, ProcessSettlement, settlementVars, vars, setVars, slotVars,
       Stake, Unstake, Unjail, FillValidatorSlot, EjectValidator, UpdateCertificationParams
  <2>3. CASE Restart
    BY <2>3 DEF Restart, ExportImportGenesis, SettlementRestart, setVars, slotVars
  <2>4. CASE Block
    BY <2>4 DEF Block, EndBlock, ValidatorEndBlocker, settlementVars
  <2>5. CASE UNCHANGED govVars
    BY <2>5 DEF govVars, vars, setVars, slotVars, settlementVars
  <2> QED BY <1>1, <2>2, <2>3, <2>4, <2>5 DEF GovernanceNext
<1> QED BY <1>1, PTL DEF GovernanceSpec, PauseFreezesProposals
=============================================================================
