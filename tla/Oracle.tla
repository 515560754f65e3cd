------------------------------- MODULE Oracle --------------------------------
(***************************************************************************)
(* x/oracle: operators commit to a price under a hash, reveal it, and once *)
(* enough of them have revealed a round its price is aggregated.  The      *)
(* EndBlocker slashes who committed and did not reveal in time.            *)
(*                                                                         *)
(* A key <<operator, feed, round>> names a report.  A hash is the value it *)
(* commits to: sha256 has no collision, and nobody reads a value off it.   *)
(***************************************************************************)
EXTENDS Naturals, FiniteSets, Sequences, Functions

CONSTANTS
    Reporters,                 \* accounts that may send oracle messages
    Validators,                \* those that are validators and can be slashed
    Feeds, Rounds,
    Values,                    \* prices an operator may report
    GenesisOperators,          \* operators at genesis
    CommitWindow, RevealWindow, MinOperatorCommits, StalenessThresholdBlocks,
    Width,                     \* bits of a price (64)
    Faulty,                    \* reporters whose prices may be anything
    MaxHeight                  \* bound: height of the chain

\* ValidateGenesis: every parameter is positive.
ASSUME OracleParams ==
    /\ Validators \subseteq Reporters /\ GenesisOperators \subseteq Reporters
    /\ Faulty \subseteq Reporters
    /\ IsFiniteSet(Reporters)
    /\ Width \in Nat /\ Values \subseteq 0..(2^Width - 1)
    /\ CommitWindow \in Nat \ {0} /\ RevealWindow \in Nat \ {0}
    /\ MinOperatorCommits \in Nat \ {0} /\ StalenessThresholdBlocks \in Nat \ {0}
    /\ MaxHeight \in Nat \ {0}

Keys == Reporters \X Feeds \X Rounds
Window == CommitWindow + RevealWindow

VARIABLES
    height,      \* height of the running block
    operators,   \* registered operators
    commits,     \* stored commits: key -> value committed to and height
    expiries,    \* expiry index: <<height, key>>
    reveals,     \* revealed values: key -> value
    aggregates,  \* latest price of a feed and the height it was aggregated at
    slashes      \* slashes so far: the key, the height, the commit's height

oracleVars == <<height, operators, commits, expiries, reveals, aggregates, slashes>>

\* Nothing in the store is dated after the running block.
Commitment == [value : Values, height : 1..height]
Price      == [price : 0..(2^Width - 1), height : 1..height]
Slash      == [key : Keys, at : 1..height, committed : 0..height]

\* Every price fits in its bits, and no report, price or slash has a date that
\* is still to come: a price could otherwise stay fresh for too long.
OracleTypeOK ==
    /\ height \in 1..MaxHeight
    /\ operators \subseteq Reporters
    /\ DOMAIN commits \subseteq Keys /\ commits \in [DOMAIN commits -> Commitment]
    /\ expiries \subseteq Nat \X Keys
    /\ DOMAIN reveals \subseteq Keys /\ reveals \in [DOMAIN reveals -> Values]
    /\ DOMAIN aggregates \subseteq Feeds /\ aggregates \in [DOMAIN aggregates -> Price]
    /\ slashes \subseteq Slash

NoneYet == [x \in {} |-> x]

OracleInit ==
    /\ height = 1
    /\ operators = GenesisOperators
    /\ commits = NoneYet /\ expiries = {}
    /\ reveals = NoneYet /\ aggregates = NoneYet
    /\ slashes = {}

------------------------------------------------------------------------------
\* f with one more, or another, value.
With(f, x, v) == [y \in DOMAIN f \cup {x} |-> IF y = x THEN v ELSE f[y]]

\* Sums and products of prices wrap around.
Wrap(n) == n % 2^Width

Distance(v, w) == IF v > w THEN v - w ELSE w - v

\* The k-th smallest of the values of f.
Ranked(f, k) ==
    CHOOSE v \in {f[x] : x \in DOMAIN f} :
        /\ Cardinality({x \in DOMAIN f : f[x] < v}) < k
        /\ Cardinality({x \in DOMAIN f : f[x] <= v}) >= k

\* Mutant: the upper one of the sorted values.
TakesLargest(f) == IF DOMAIN f = {} THEN 0 ELSE Ranked(f, Cardinality(DOMAIN f))

CalculateMedian(f) ==
    LET n == Cardinality(DOMAIN f)
    IN  IF n = 0 THEN 0
        ELSE IF n % 2 = 1 THEN Ranked(f, n \div 2 + 1)
        ELSE Wrap(Ranked(f, n \div 2) + Ranked(f, n \div 2 + 1)) \div 2

\* What lies within three median deviations of the median; all of it if there
\* are at most two values or the median deviation is zero.
FilterOutliersMAD(f) ==
    LET deviation == [x \in DOMAIN f |-> Distance(f[x], CalculateMedian(f))]
        mad       == CalculateMedian(deviation)
    IN  IF Cardinality(DOMAIN f) <= 2 \/ mad = 0 THEN f
        ELSE Restrict(f, {x \in DOMAIN f : deviation[x] <= Wrap(3 * mad)})

\* The reports revealed for a round, by operator.
RevealedValues(revealed, feed, round) ==
    [o \in {r \in Reporters : <<r, feed, round>> \in DOMAIN revealed} |-> revealed[<<o, feed, round>>]]

AggregatePrice(values) == CalculateMedian(FilterOutliersMAD(values))

IsFeedStale(feed) ==
    feed \notin DOMAIN aggregates \/ height - aggregates[feed].height > StalenessThresholdBlocks

------------------------------------------------------------------------------
\* Anyone may report while no operator is registered.
MayReport(operator) == operators = {} \/ operator \in operators

\* Mutant: the expiry of the commit that is replaced stays in the index.
KeepsOldExpiry(key) == expiries \cup {<<height + Window, key>>}

MovedExpiry(key) ==
    (IF key \in DOMAIN commits THEN expiries \ {<<commits[key].height + Window, key>>} ELSE expiries)
        \cup {<<height + Window, key>>}

\* SubmitOracleCommit: a second commit of a round replaces the first.
CommitHash(key, value) ==
    /\ MayReport(key[1])
    /\ commits' = With(commits, key, [value |-> value, height |-> height])
    /\ expiries' = MovedExpiry(key)
    /\ UNCHANGED <<height, operators, reveals, aggregates, slashes>>

MatchesCommit(key, value) == key \in DOMAIN commits /\ commits[key].value = value

Dated(price) == [price |-> price, height |-> height]

\* RevealOracleReport: the report is stored, and the round aggregated as soon
\* as it has enough of them, and again with each further one.
RevealReport(key, value) ==
    /\ MayReport(key[1])
    /\ MatchesCommit(key, value)
    /\ reveals' = With(reveals, key, value)
    /\ LET values == RevealedValues(reveals', key[2], key[3]) IN
          aggregates' = IF Cardinality(DOMAIN values) >= MinOperatorCommits
                        THEN With(aggregates, key[2], Dated(AggregatePrice(values)))
                        ELSE aggregates
    /\ UNCHANGED <<height, operators, commits, expiries, slashes>>

\* MsgUpdateOracleOperator of x/governance-ext.
SetOperatorActive(operator, active) ==
    /\ operators' = IF active THEN operators \cup {operator} ELSE operators \ {operator}
    /\ UNCHANGED <<height, commits, expiries, reveals, aggregates, slashes>>

------------------------------------------------------------------------------
\* Mutant: a report expires one block late.
DueLater == {e \in expiries : e[1] < height}

Due == {e \in expiries : e[1] <= height}

CommitHeight(key) == IF key \in DOMAIN commits THEN commits[key].height ELSE 0

\* An expired report costs its operator a slash if it was not revealed.
Slashable(key) == key \notin DOMAIN reveals /\ key[1] \in Validators

\* What EndBlocker does to the store.
OracleEndBlocker ==
    LET keys == {e[2] : e \in Due} IN
    /\ slashes' = slashes \cup {[key |-> k, at |-> height, committed |-> CommitHeight(k)] :
                                   k \in {x \in keys : Slashable(x)}}
    /\ expiries' = expiries \ Due
    /\ commits' = Restrict(commits, DOMAIN commits \ keys)
    /\ UNCHANGED <<operators, reveals, aggregates>>

NextHeight == height < MaxHeight /\ height' = height + 1

\* ExportGenesis writes the parameters and the operators; nothing else of the
\* store survives a restart from it.
OracleExportImport ==
    /\ commits' = NoneYet /\ expiries' = {} /\ reveals' = NoneYet /\ aggregates' = NoneYet
    /\ UNCHANGED <<height, operators, slashes>>

OracleMessage ==
    \/ \E k \in Keys, v \in Values : CommitHash(k, v) \/ RevealReport(k, v)
    \/ \E o \in Reporters : SetOperatorActive(o, TRUE) \/ SetOperatorActive(o, FALSE)

OracleNext == OracleMessage \/ (OracleEndBlocker /\ NextHeight) \/ OracleExportImport

OracleSpec == OracleInit /\ [][OracleNext]_oracleVars

------------------------------------------------------------------------------
\* Every stored commit has one entry in the expiry index, at the end of its own
\* window, and there is no other entry: a commit that replaces another one is
\* neither settled early, by what the first one left, nor never.
ExpiriesMatchCommits ==
    expiries = {<<commits[k].height + Window, k>> : k \in DOMAIN commits}

\* A slash hits a stored commit, as old as the two windows together, and no
\* commit outlives them: every one is settled in its block.
SlashedInTime ==
    /\ \A s \in slashes : s.committed > 0 /\ s.at = s.committed + Window
    /\ \A k \in DOMAIN commits : height <= commits[k].height + Window

\* A new price comes from a round with enough reports.  If those of the faulty
\* reporters are fewer than half of them, it leaves the range of the others'
\* prices by at most three times its width, whatever the faulty ones report.
PriceFollowsMajority ==
    [][\A f \in DOMAIN aggregates' :
          (f \notin DOMAIN aggregates \/ aggregates'[f] # aggregates[f]) =>
          \E r \in Rounds :
             LET values == RevealedValues(reveals', f, r)
                 honest == {values[o] : o \in DOMAIN values \ Faulty}
                 price  == aggregates'[f].price
             IN  /\ Cardinality(DOMAIN values) >= MinOperatorCommits
                 /\ 2 * Cardinality(DOMAIN values \cap Faulty) < Cardinality(DOMAIN values) =>
                       \E lo, hi \in honest :
                          /\ \A v \in honest : lo <= v /\ v <= hi
                          /\ price <= hi + 3 * (hi - lo)
                          /\ price + 3 * (hi - lo) >= lo]_oracleVars
==============================================================================
