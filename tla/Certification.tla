---------------------------- MODULE Certification ----------------------------
(***************************************************************************)
(* x/certification on top of x/validator: the rolling liveness window, the *)
(* degraded mode and the jailing of every block's EndBlocker               *)
(* (chain/x/certification/keeper.go), with restarts from exported genesis. *)
(***************************************************************************)
EXTENDS ValidatorSet, Integers

CONSTANTS
    W,              \* blocks in the window; 10000 in the code
    Bootstrap,      \* no votes are asked below this height; 100 in the code
    K,              \* votes asked of a full window; 5000 in the code
    KDegraded,      \* the same in degraded mode; 3400 in the code
    Listed,         \* attested_validators of the genesis file
    Limits,         \* the values governance gives MaxConsecutiveRejections
    Rejections,     \* what a block may report of the last proposal
    MaxHeight       \* bound of the model

ASSUME CertificationParams ==
    /\ W \in Nat \ {0}
    /\ Bootstrap \in Nat /\ K \in Nat /\ KDegraded \in Nat
    /\ Listed \subseteq Validators
    /\ Limits \subseteq Nat \ {0}
    /\ Rejections \subseteq BOOLEAN
    /\ MaxHeight \in Nat

VARIABLES
    height,
    bits,           \* SignedBitPrefix: the heights whose stored bit is 1
    count,          \* SignedCountPrefix
    attested,       \* AttestationKeyPrefix
    rejections,     \* ConsecutiveRejectionKey
    degraded,       \* DegradedModeKey
    limit,          \* MaxConsecutiveRejections
    \* The chain's own record, which the module does not store.
    since,          \* the last block before the present genesis
    present,        \* heights after whose election a validator was in the set
    voted           \* heights whose commit information has its signature,
                    \* whether or not it is in the set of the block

certVars == <<bits, count, attested, rejections, degraded, limit>>
recordVars == <<since, present, voted>>
vars == <<setVars, certVars, recordVars, height>>

CertificationTypeOK ==
    /\ ValidatorTypeOK
    /\ height \in Nat
    /\ since \in Nat /\ since <= height
    /\ bits \in [Validators -> SUBSET Nat]
    /\ count \in [Validators -> Int]
    /\ attested \subseteq Validators
    /\ rejections \in Nat
    /\ degraded \in BOOLEAN
    /\ limit \in Limits
    /\ present \in [Validators -> SUBSET Nat]
    /\ voted \in [Validators -> SUBSET Nat]

(* InitGenesis: an empty list attests everybody in the set. *)
ImportAttested(list) == IF list = {} THEN bonded ELSE list

CertificationInit ==
    /\ SetInit
    /\ height = 0
    /\ bits = [v \in Validators |-> {}]
    /\ count = [v \in Validators |-> 0]
    /\ attested = ImportAttested(Listed)
    /\ rejections = 0
    /\ degraded = FALSE
    /\ limit \in Limits
    /\ since = 0
    /\ present = [v \in Validators |-> IF v \in bonded THEN {0} ELSE {}]
    /\ voted = [v \in Validators |-> {}]

-----------------------------------------------------------------------------
(* CometBFT: the set that commits block h - 1 is the one elected two blocks
   before it, or that of the genesis; the first block has no last commit. *)
SetBehind(h) == IF h < since + 3 THEN since ELSE h - 3

MayHaveVoted(h) ==
    {v \in Validators : h > since + 1 /\ SetBehind(h) \in present[v]}

-----------------------------------------------------------------------------
(* GetRequiredSigningThreshold *)
Threshold(h, deg) ==
    LET asked == IF deg THEN KDegraded ELSE K
    IN  IF h < Bootstrap THEN 0
        ELSE IF h < W THEN (h * asked) \div W
        ELSE asked

RejectionsAfter(rejected) == IF rejected THEN rejections + 1 ELSE 0

(* Degraded mode begins at the limit and ends with the first accepted block. *)
DegradedAfter(rejected) ==
    rejected /\ (degraded \/ RejectionsAfter(rejected) >= limit)

\* Mutant of Leaving: the window is one block too short.
LeavesEarly(h) == IF h > W THEN {h - W + 1} ELSE {}

(* The bit that leaves the window of block h. *)
Leaving(h) == IF h > W THEN {h - W} ELSE {}

(* The window of a validator of the set in block h. *)
BitsAfter(v, h, votes) ==
    (bits[v] \cup (IF v \in votes THEN {h} ELSE {})) \ Leaving(h)

\* Mutant of CountAfter: the count falls whether or not the leaving bit is set.
DecrementsAlways(v, h, votes) ==
    count[v] + (IF v \in votes THEN 1 ELSE 0) - Cardinality(Leaving(h))

CountAfter(v, h, votes) ==
    count[v] + (IF v \in votes THEN 1 ELSE 0)
             - (IF bits[v] \cap Leaving(h) # {} THEN 1 ELSE 0)

\* Mutant of JailedByCertification: one vote too few is forgiven.
ForgivesOne(S, h, votes, deg) ==
    {v \in S : \/ CountAfter(v, h, votes) + 1 < Threshold(h, deg)
               \/ v \notin attested}

JailedByCertification(S, h, votes, deg) ==
    {v \in S : \/ CountAfter(v, h, votes) < Threshold(h, deg)
               \/ v \notin attested}

CertificationEndBlocker(S, h, votes, rejected) ==
    /\ rejections' = RejectionsAfter(rejected)
    /\ degraded' = DegradedAfter(rejected)
    /\ bits' = [v \in Validators |->
                  IF v \in S THEN BitsAfter(v, h, votes) ELSE bits[v]]
    /\ count' = [v \in Validators |->
                  IF v \in S THEN CountAfter(v, h, votes) ELSE count[v]]
    /\ UNCHANGED <<attested, limit>>

(* A block ends: x/staking elects, x/validator hands out the slots,
   x/certification moves its windows (app.go:744).  CometBFT makes no block
   that leaves the chain without validators. *)
EndBlock(votes, rejected) ==
    LET h == height + 1
    IN  /\ height < MaxHeight /\ Elected # {}
        /\ height' = h
        /\ bonded' = Elected
        /\ ValidatorEndBlocker(Elected)
        /\ CertificationEndBlocker(Elected, h, votes, rejected)
        /\ jailed' = jailed \cup Ejected(Elected)
                            \cup JailedByCertification(Elected, h, votes,
                                                       DegradedAfter(rejected))
        /\ present' = [v \in Validators |->
             IF v \in Elected THEN present[v] \cup {h} ELSE present[v]]
        /\ voted' = [v \in Validators |->
             IF v \in votes THEN voted[v] \cup {h} ELSE voted[v]]
        /\ UNCHANGED <<staked, since>>

(* MsgUpdateCertificationParams, for governance only. *)
UpdateCertificationParams(n) ==
    /\ limit' = n
    /\ UNCHANGED <<bits, count, attested, rejections, degraded>>
    /\ UNCHANGED <<setVars, recordVars, height>>

(* A chain started from an exported genesis: x/validator exports all it has,
   x/certification neither bits nor counts. *)
ExportImportGenesis ==
    /\ height > since
    /\ bits' = [v \in Validators |-> {}]
    /\ count' = [v \in Validators |-> 0]
    /\ attested' = ImportAttested(attested)
    /\ since' = height
    /\ present' = [v \in Validators |->
         IF v \in bonded THEN present[v] \cup {height} ELSE present[v]]
    /\ UNCHANGED <<setVars, rejections, degraded, limit, voted, height>>

SetStep ==
    \/ \E v \in Validators : \/ Stake(v)
                             \/ Unstake(v)
                             \/ Unjail(v)
                             \/ FillValidatorSlot(v)
                             \/ EjectValidator(v)
    \/ \E n \in Sizes : SetMaxValidators(n)

Next ==
    \/ SetStep /\ UNCHANGED <<certVars, recordVars, height>>
    \/ \E votes \in SUBSET MayHaveVoted(height + 1), rejected \in Rejections :
         EndBlock(votes, rejected)
    \/ \E n \in Limits : UpdateCertificationParams(n)
    \/ ExportImportGenesis

CertificationSpec == CertificationInit /\ [][Next]_vars

-----------------------------------------------------------------------------
(* Signatures of v in the window that ends with the present block. *)
WindowVotes(v) == {b \in voted[v] : b > since /\ b > height - W}

(* Those in blocks that ended with v out of the set: CometBFT has a validator
   sign for up to three blocks after x/staking dropped it, and the module reads
   the commit for the validators of the set only (keeper.go:271). *)
UncountedVotes(v) == WindowVotes(v) \ present[v]

(* Counted votes that fell due in a block v had no part in. *)
OverdueVotes(v) ==
    {b \in voted[v] \cap present[v] :
        b > since /\ b <= height - W /\ b + W \notin present[v]}

(* The stored count drifts from the chain's own record of signatures by what
   happened while the validator was out of the set and by nothing else: votes it
   still cast are missing, votes that left the window then are there for ever
   (keeper.go:271 and 294). *)
CountDriftsOnlyByAbsence ==
    \A v \in Validators :
        count[v] = Cardinality(WindowVotes(v)) - Cardinality(UncountedVotes(v))
                   + Cardinality(OverdueVotes(v))

CountedVotes(v) == Cardinality(WindowVotes(v) \cap present[v])

(* Who a block jails is not attested, loses its slot in this block, or signed
   too little of the window while it was in the set (keeper.go:306).  That is
   less than ADR 002 asks for, which counts every signature in the window: with
   WindowVotes for CountedVotes a validator that was out of the set breaks it. *)
JailedForCause ==
    [][height' # height =>
         \A v \in jailed' \ jailed :
            \/ v \notin attested
            \/ v \in active \ active'
            \/ CountedVotes(v)' < Threshold(height', degraded')]_vars

(* Who stays in the set with too few counted votes in the window owes it to
   overdue votes, and so to an absence (keeper.go:294-306). *)
LaggardsEscapeOnlyByAbsence ==
    [][height' # height =>
         \A v \in bonded' \ jailed' :
            \/ CountedVotes(v)' >= Threshold(height', degraded')
            \/ OverdueVotes(v)' # {}]_vars

(* When a block has ended, no more validators of the set hold a slot than
   there are slots, whoever filled slots by message and however governance
   lowered their number (x/validator keeper.go:148). *)
SlotsNotOverfilled ==
    [][height' # height => Cardinality(active' \cap bonded') <= maxValidators']_vars
=============================================================================
