--------------------------- MODULE Milestone_proofs ----------------------------
(***************************************************************************)
(* x/oracle and x/milestone for any number of operators, feeds, rounds,    *)
(* prices and milestones.                                                  *)
(*                                                                         *)
(* The commits: a slash is in time because the expiry index has an entry   *)
(* for each stored commit and no other, and because no commit is older     *)
(* than its window when a block begins; neither is inductive alone.        *)
(*                                                                         *)
(* The prices: the k-th smallest value exists as the least bound that k    *)
(* values keep, so what fewer than half of the reporters report moves      *)
(* neither the median nor the median deviation past the others.            *)
(*                                                                         *)
(* The milestones: the EndBlocker's loops are recursive functions of the   *)
(* turn.  What holds of the store between any two turns is StoreOK, and    *)
(* Moves says what the turns so far have done to the milestones.           *)
(***************************************************************************)
EXTENDS Milestone, FiniteSetTheorems, WellFoundedInduction, TLAPS

------------------------------------------------------------------------------
(***************************************************************************)
(* Numbers                                                                 *)
(***************************************************************************)
\* A set of numbers has a least one.
LEMMA LeastNumber ==
    ASSUME NEW T \in SUBSET Nat, T # {}
    PROVE  \E m \in T : \A n \in T : m <= n
<1> DEFINE R == {p \in Nat \X Nat : p[1] < p[2]}
<1>1. R = OpToRel(<, Nat)
  BY DEF OpToRel
<1>2. IsWellFoundedOn(R, Nat)
  BY <1>1, NatLessThanWellFounded
<1> HIDE DEF R
<1>3. \E m \in T : \A n \in T : ~(<<n, m>> \in R)
  BY <1>2, WFMin
<1>4. PICK m \in T : \A n \in T : ~(<<n, m>> \in R)
  BY <1>3
<1>5. ASSUME NEW n \in T PROVE m <= n
  <2>1. ~(<<n, m>> \in R) /\ n \in Nat /\ m \in Nat
    BY <1>4
  <2>2. ~(n < m)
    BY <2>1 DEF R
  <2> QED BY <2>1, <2>2
<1> QED BY <1>5

\* Induction along a loop of n turns, for the set of turns at which a fact holds.
LEMMA EveryTurn ==
    ASSUME NEW n \in Nat, NEW T, 0 \in T, \A i \in 1 .. n : i - 1 \in T => i \in T
    PROVE  \A i \in 0 .. n : i \in T
<1> DEFINE Missing == {i \in 0 .. n : i \notin T}
<1>1. SUFFICES ASSUME Missing # {} PROVE FALSE
  OBVIOUS
<1>2. Missing \in SUBSET Nat
  OBVIOUS
<1>3. PICK m \in Missing : \A i \in Missing : m <= i
  BY <1>1, <1>2, LeastNumber
<1>4. m \in 1 .. n /\ m \notin T
  BY <1>3
<1>5. m - 1 \in 0 .. n /\ ~(m <= m - 1)
  BY <1>4
<1>6. m - 1 \notin Missing
  BY <1>3, <1>5
<1> QED BY <1>4, <1>5, <1>6

------------------------------------------------------------------------------
\* The commits as far as the index depends on them.
CommitsTyped ==
    /\ height \in Nat \ {0}
    /\ DOMAIN commits \subseteq Keys
    /\ \A k \in DOMAIN commits : commits[k].height \in 1..height

Settlement == CommitsTyped /\ ExpiriesMatchCommits /\ SlashedInTime

LEMMA WindowPositive == Window \in Nat \ {0}
BY OracleParams DEF Window

LEMMA SettlementInit == OracleInit => Settlement
BY DEF OracleInit, Settlement, CommitsTyped, ExpiriesMatchCommits, SlashedInTime, NoneYet

\* A commit, first or repeated, has the only entry of its key.
LEMMA CommitKeepsSettlement ==
    ASSUME Settlement, NEW key \in Keys, NEW value \in Values, CommitHash(key, value)
    PROVE  Settlement'
<1> USE WindowPositive DEF Settlement, CommitsTyped
<1>1. /\ DOMAIN commits' = DOMAIN commits \cup {key}
      /\ commits'[key].height = height
      /\ \A k \in DOMAIN commits \ {key} : commits'[k] = commits[k]
      /\ height' = height /\ slashes' = slashes /\ expiries' = MovedExpiry(key)
  BY DEF CommitHash, With
<1>2. CommitsTyped'
  BY <1>1
<1>3. expiries' = {<<commits'[k].height + Window, k>> : k \in DOMAIN commits'}
  <2>1. expiries' = {<<commits[k].height + Window, k>> : k \in DOMAIN commits \ {key}}
                       \cup {<<height + Window, key>>}
    BY <1>1 DEF MovedExpiry, ExpiriesMatchCommits
  <2>2. {<<commits[k].height + Window, k>> : k \in DOMAIN commits \ {key}}
           = {<<commits'[k].height + Window, k>> : k \in DOMAIN commits \ {key}}
    BY <1>1
  <2> QED BY <1>1, <2>1, <2>2
<1>4. SlashedInTime'
  BY <1>1 DEF SlashedInTime
<1> QED BY <1>2, <1>3, <1>4 DEF ExpiriesMatchCommits

\* The EndBlocker settles the reports that expire in its block, which are those
\* of the commits whose window ends there, and leaves the others.
LEMMA EndBlockKeepsSettlement ==
    ASSUME Settlement, OracleEndBlocker, NextHeight
    PROVE  Settlement'
<1> DEFINE keys == {e[2] : e \in Due}
<1> USE WindowPositive DEF Settlement, CommitsTyped
<1>1. ASSUME NEW k \in DOMAIN commits
      PROVE  k \in keys <=> commits[k].height + Window <= height
  <2>1. k \in keys => commits[k].height + Window <= height
    BY DEF Due, ExpiriesMatchCommits
  <2>2. <<commits[k].height + Window, k>> \in expiries
    BY DEF ExpiriesMatchCommits
  <2>3. commits[k].height + Window <= height => <<commits[k].height + Window, k>> \in Due
    BY <2>2 DEF Due
  <2> QED BY <2>1, <2>3
<1>2. \A k \in keys : k \in DOMAIN commits /\ commits[k].height + Window = height
  BY DEF Due, ExpiriesMatchCommits, SlashedInTime
<1>3. /\ DOMAIN commits' = DOMAIN commits \ keys
      /\ \A k \in DOMAIN commits' : commits'[k] = commits[k]
      /\ expiries' = expiries \ Due /\ height' = height + 1
  BY DEF OracleEndBlocker, NextHeight, Restrict
<1>4. CommitsTyped'
  BY <1>3
<1>5. expiries' = {<<commits'[k].height + Window, k>> : k \in DOMAIN commits'}
  <2>1. Due = {<<commits[k].height + Window, k>> : k \in DOMAIN commits \cap keys}
    BY <1>1 DEF Due, ExpiriesMatchCommits
  <2>2. expiries \ Due = {<<commits[k].height + Window, k>> : k \in DOMAIN commits \ keys}
    BY <2>1 DEF ExpiriesMatchCommits
  <2> QED BY <1>3, <2>2
<1>6. SlashedInTime'
  <2>1. ASSUME NEW s \in slashes' PROVE s.committed > 0 /\ s.at = s.committed + Window
    <3>1. CASE s \in slashes
      BY <3>1 DEF SlashedInTime
    <3>2. CASE s \notin slashes
      <4>1. PICK k \in keys : s = [key |-> k, at |-> height, committed |-> CommitHeight(k)]
        BY <3>2, <2>1 DEF OracleEndBlocker
      <4> QED BY <1>2, <4>1 DEF CommitHeight
    <3> QED BY <3>1, <3>2
  <2>2. ASSUME NEW k \in DOMAIN commits' PROVE height' <= commits'[k].height + Window
    BY <1>1, <1>3, <2>2
  <2> QED BY <2>1, <2>2 DEF SlashedInTime
<1> QED BY <1>4, <1>5, <1>6 DEF ExpiriesMatchCommits

LEMMA SettlementStep == Settlement /\ [OracleNext]_oracleVars => Settlement'
<1> SUFFICES ASSUME Settlement, [OracleNext]_oracleVars PROVE Settlement'
  OBVIOUS
<1>1. ASSUME NEW k \in Keys, NEW v \in Values, CommitHash(k, v) PROVE Settlement'
  BY <1>1, CommitKeepsSettlement
<1>2. ASSUME NEW k \in Keys, NEW v \in Values, RevealReport(k, v) PROVE Settlement'
  BY <1>2 DEF RevealReport, Settlement, CommitsTyped, ExpiriesMatchCommits, SlashedInTime
<1>3. ASSUME NEW o \in Reporters, NEW active \in BOOLEAN, SetOperatorActive(o, active)
      PROVE  Settlement'
  BY <1>3 DEF SetOperatorActive, Settlement, CommitsTyped, ExpiriesMatchCommits, SlashedInTime
<1>4. CASE OracleEndBlocker /\ NextHeight
  BY <1>4, EndBlockKeepsSettlement
<1>5. CASE OracleExportImport
  BY <1>5 DEF OracleExportImport, NoneYet, Settlement, CommitsTyped, ExpiriesMatchCommits, SlashedInTime
<1>6. CASE UNCHANGED oracleVars
  BY <1>6 DEF oracleVars, Settlement, CommitsTyped, ExpiriesMatchCommits, SlashedInTime
<1> QED
  BY <1>1, <1>2, <1>3, <1>4, <1>5, <1>6 DEF OracleNext, OracleMessage

LEMMA SettlementAlways == OracleSpec => []Settlement
BY SettlementInit, SettlementStep, PTL DEF OracleSpec

------------------------------------------------------------------------------
\* However often operators commit to a round, whoever is registered in between,
\* the expiry index (CommitHash, EndBlocker) has one entry for each stored
\* commit and no other, through restarts from an exported genesis.
THEOREM IndexIsExact == OracleSpec => []ExpiriesMatchCommits
<1>1. Settlement => ExpiriesMatchCommits
  BY DEF Settlement
<1> QED BY <1>1, SettlementAlways, PTL

\* No operator is slashed but for a commit that is still stored and whose two
\* windows end in that block, and no commit is left behind by the EndBlocker.
THEOREM SlashesAreInTime == OracleSpec => []SlashedInTime
<1>1. Settlement => SlashedInTime
  BY DEF Settlement
<1> QED BY <1>1, SettlementAlways, PTL

------------------------------------------------------------------------------
(***************************************************************************)
(* The k-th smallest of finitely many values                               *)
(***************************************************************************)
UpTo(f, v)  == {x \in DOMAIN f : f[x] <= v}
Below(f, v) == {x \in DOMAIN f : f[x] < v}

\* f has finitely many values, none above bound.
Bounded(f, bound) ==
    /\ IsFiniteSet(DOMAIN f) /\ bound \in Nat
    /\ \A x \in DOMAIN f : f[x] \in 0 .. bound

LEMMA PartCardinality ==
    ASSUME NEW S, IsFiniteSet(S), NEW T, T \subseteq S
    PROVE  Cardinality(S) \in Nat /\ Cardinality(T) \in Nat /\ Cardinality(T) <= Cardinality(S)
<1>1. IsFiniteSet(T) /\ Cardinality(T) <= Cardinality(S)
  BY FS_Subset
<1> QED BY <1>1, FS_CardinalityType

\* The least bound that k values keep is the k-th smallest.
LEMMA RankExists ==
    ASSUME NEW f, NEW bound, Bounded(f, bound), NEW k \in 1 .. Cardinality(DOMAIN f)
    PROVE  \E v \in {f[x] : x \in DOMAIN f} :
              Cardinality(Below(f, v)) < k /\ Cardinality(UpTo(f, v)) >= k
<1> DEFINE D == DOMAIN f
           T == {c \in Nat : Cardinality(UpTo(f, c)) >= k}
<1>1. IsFiniteSet(D) /\ bound \in Nat /\ \A x \in D : f[x] \in 0 .. bound
  BY DEF Bounded
<1>2. \A c : UpTo(f, c) \subseteq D /\ Below(f, c) \subseteq D
  BY DEF UpTo, Below
<1>3. \A c : Cardinality(UpTo(f, c)) \in Nat /\ Cardinality(Below(f, c)) \in Nat
  BY <1>1, <1>2, PartCardinality
<1>4. k \in Nat /\ k >= 1 /\ Cardinality(D) \in Nat /\ k <= Cardinality(D)
  BY <1>1, FS_CardinalityType
<1>5. bound \in T
  <2>1. UpTo(f, bound) = D
    BY <1>1 DEF UpTo
  <2> QED BY <1>1, <1>4, <2>1
<1>6. PICK v \in T : \A c \in T : v <= c
  BY <1>5, LeastNumber
<1>7. v \in Nat /\ Cardinality(UpTo(f, v)) >= k
  BY <1>6
<1>8. Cardinality(Below(f, v)) < k
  <2>1. CASE v = 0
    <3>1. Below(f, v) = {}
      BY <1>1, <2>1 DEF Below
    <3>2. Cardinality(Below(f, v)) = 0
      BY <3>1, FS_EmptySet
    <3> QED BY <1>4, <3>2
  <2>2. CASE v # 0
    <3>1. v - 1 \in Nat /\ ~(v <= v - 1)
      BY <1>7, <2>2
    <3>2. v - 1 \notin T
      BY <1>6, <3>1
    <3>3. ~(Cardinality(UpTo(f, v - 1)) >= k)
      BY <3>1, <3>2
    <3>4. UpTo(f, v - 1) = Below(f, v)
      <4>1. \A x \in D : f[x] \in Nat
        BY <1>1
      <4>2. \A n \in Nat : n <= v - 1 <=> n < v
        BY <1>7
      <4> QED BY <4>1, <4>2 DEF UpTo, Below
    <3>5. ~(Cardinality(Below(f, v)) >= k)
      BY <3>3, <3>4
    <3> QED BY <1>3, <1>4, <3>5
  <2> QED BY <2>1, <2>2
<1>9. \E x \in D : f[x] = v
  <2> SUFFICES ASSUME \A x \in D : f[x] # v PROVE FALSE
    OBVIOUS
  <2>1. \A x \in D : f[x] \in Nat
    BY <1>1
  <2>2. \A n \in Nat : n # v => (n <= v <=> n < v)
    BY <1>7
  <2>3. UpTo(f, v) = Below(f, v)
    BY <2>1, <2>2 DEF UpTo, Below
  <2>4. Cardinality(UpTo(f, v)) < k
    BY <1>8, <2>3
  <2> HIDE DEF T
  <2> QED BY <1>3, <1>4, <1>7, <2>4
<1> QED BY <1>7, <1>8, <1>9

LEMMA RankedIsRank ==
    ASSUME NEW f, NEW bound, Bounded(f, bound), NEW k \in 1 .. Cardinality(DOMAIN f)
    PROVE  /\ \E x \in DOMAIN f : Ranked(f, k) = f[x]
           /\ Ranked(f, k) \in 0 .. bound
           /\ Cardinality(Below(f, Ranked(f, k))) < k
           /\ Cardinality(UpTo(f, Ranked(f, k))) >= k
<1> DEFINE values == {f[x] : x \in DOMAIN f}
           IsRank(v) == Cardinality(Below(f, v)) < k /\ Cardinality(UpTo(f, v)) >= k
<1>1. \E v \in values : IsRank(v)
  BY RankExists
<1>2. Ranked(f, k) = CHOOSE v \in values : IsRank(v)
  BY DEF Ranked, Below, UpTo
<1> HIDE DEF IsRank, values
<1>3. Ranked(f, k) \in values /\ IsRank(Ranked(f, k))
  BY <1>1, <1>2
<1>4. PICK x \in DOMAIN f : Ranked(f, k) = f[x]
  BY <1>3 DEF values
<1>5. f[x] \in 0 .. bound
  BY DEF Bounded
<1> QED BY <1>3, <1>4, <1>5 DEF IsRank

\* A rank that the values outside of good cannot reach, from below or from above, is
\* that of a value between those of good.
LEMMA RankBetween ==
    ASSUME NEW f, NEW bound, Bounded(f, bound), NEW k \in 1 .. Cardinality(DOMAIN f),
           NEW good \in SUBSET DOMAIN f, NEW lo \in Nat, NEW hi \in Nat,
           \A x \in good : lo <= f[x] /\ f[x] <= hi,
           Cardinality(DOMAIN f \ good) < k, k <= Cardinality(good)
    PROVE  Ranked(f, k) \in lo .. hi
<1> DEFINE v == Ranked(f, k)
           D == DOMAIN f
<1>1. v \in Nat /\ Cardinality(Below(f, v)) < k /\ Cardinality(UpTo(f, v)) >= k
  <2>1. v \in 0 .. bound /\ Cardinality(Below(f, v)) < k /\ Cardinality(UpTo(f, v)) >= k
    BY RankedIsRank
  <2> QED BY <2>1
<1>2. IsFiniteSet(D) /\ (\A x \in D : f[x] \in Nat) /\ k \in Nat
  BY FS_CardinalityType DEF Bounded
<1>3. IsFiniteSet(D \ good) /\ IsFiniteSet(Below(f, v))
  BY <1>2, FS_Subset DEF Below
<1> HIDE DEF v
<1>4. ASSUME v < lo PROVE FALSE
  <2>1. UpTo(f, v) \subseteq D \ good
    <3>1. ASSUME NEW x \in D, f[x] <= v PROVE x \notin good
      BY <1>1, <1>2, <1>4, <3>1
    <3> QED BY <3>1 DEF UpTo
  <2>2. /\ Cardinality(UpTo(f, v)) <= Cardinality(D \ good)
        /\ Cardinality(UpTo(f, v)) \in Nat /\ Cardinality(D \ good) \in Nat
    BY <1>3, <2>1, PartCardinality
  <2> QED BY <1>1, <1>2, <2>2
<1>5. ASSUME hi < v PROVE FALSE
  <2>1. good \subseteq Below(f, v)
    <3>1. ASSUME NEW x \in good PROVE f[x] < v
      BY <1>1, <1>2, <1>5
    <3> QED BY <3>1 DEF Below
  <2>2. /\ Cardinality(good) <= Cardinality(Below(f, v))
        /\ Cardinality(good) \in Nat /\ Cardinality(Below(f, v)) \in Nat
    BY <1>3, <2>1, PartCardinality
  <2> QED BY <1>1, <1>2, <2>2
<1> QED BY <1>1, <1>4, <1>5 DEF v

------------------------------------------------------------------------------
(***************************************************************************)
(* The median, the filter and the price                                    *)
(***************************************************************************)
\* The positions of the median in n values: the middle, or the two next to it.
LEMMA Halves ==
    ASSUME NEW n \in Nat, n > 0
    PROVE  /\ n % 2 = 1 => n \div 2 + 1 \in 1 .. n /\ n = 2 * (n \div 2) + 1
           /\ n % 2 # 1 => n \div 2 \in 1 .. n /\ n \div 2 + 1 \in 1 .. n /\ n = 2 * (n \div 2)
           /\ n \div 2 \in Nat
OBVIOUS

LEMMA MedianOdd ==
    ASSUME NEW f, Cardinality(DOMAIN f) \in Nat \ {0}, Cardinality(DOMAIN f) % 2 = 1
    PROVE  CalculateMedian(f) = Ranked(f, Cardinality(DOMAIN f) \div 2 + 1)
<1> DEFINE n == Cardinality(DOMAIN f)
<1> HIDE DEF n
<1>1. CalculateMedian(f) = IF n = 0 THEN 0
                           ELSE IF n % 2 = 1 THEN Ranked(f, n \div 2 + 1)
                           ELSE Wrap(Ranked(f, n \div 2) + Ranked(f, n \div 2 + 1)) \div 2
  BY DEF CalculateMedian, n
<1>2. n # 0 /\ n % 2 = 1
  BY DEF n
<1> QED BY <1>1, <1>2 DEF n

LEMMA MedianEven ==
    ASSUME NEW f, Cardinality(DOMAIN f) \in Nat \ {0}, Cardinality(DOMAIN f) % 2 # 1
    PROVE  LET half == Cardinality(DOMAIN f) \div 2
           IN  CalculateMedian(f) = Wrap(Ranked(f, half) + Ranked(f, half + 1)) \div 2
<1> DEFINE n == Cardinality(DOMAIN f)
<1> HIDE DEF n
<1>1. CalculateMedian(f) = IF n = 0 THEN 0
                           ELSE IF n % 2 = 1 THEN Ranked(f, n \div 2 + 1)
                           ELSE Wrap(Ranked(f, n \div 2) + Ranked(f, n \div 2 + 1)) \div 2
  BY DEF CalculateMedian, n
<1>2. n # 0 /\ n % 2 # 1
  BY DEF n
<1> QED BY <1>1, <1>2 DEF n

LEMMA NoWrap == ASSUME NEW m \in Nat, m < 2 ^ Width PROVE Wrap(m) = m
<1> DEFINE modulus == 2 ^ Width
<1>1. modulus \in Int
  BY OracleParams
<1> HIDE DEF modulus
<1>2. m < modulus
  BY DEF modulus
<1>3. m % modulus = m
  BY <1>1, <1>2
<1> QED BY <1>3 DEF Wrap, modulus

LEMMA WrapFits == ASSUME NEW m \in Nat, 2 ^ Width > 0 PROVE Wrap(m) \in 0 .. (2 ^ Width - 1)
<1> DEFINE modulus == 2 ^ Width
<1>1. modulus \in Int
  BY OracleParams
<1> HIDE DEF modulus
<1>2. modulus > 0
  BY DEF modulus
<1>3. m % modulus \in 0 .. (modulus - 1)
  BY <1>1, <1>2
<1> QED BY <1>3 DEF Wrap, modulus

LEMMA Average ==
    ASSUME NEW a \in Nat, NEW b \in Nat, NEW lo \in Nat, NEW hi \in Nat, a \in lo .. hi, b \in lo .. hi
    PROVE  (a + b) \div 2 \in lo .. hi /\ (a <= (a + b) \div 2 \/ b <= (a + b) \div 2)
OBVIOUS

\* While values outside of good are fewer than half of all, the median lies
\* between values of good.
LEMMA MedianBetween ==
    ASSUME NEW f, NEW bound, Bounded(f, bound), 2 * bound < 2 ^ Width,
           NEW good \in SUBSET DOMAIN f, NEW lo \in Nat, NEW hi \in Nat,
           \A x \in good : lo <= f[x] /\ f[x] <= hi,
           2 * Cardinality(DOMAIN f \ good) < Cardinality(DOMAIN f)
    PROVE  CalculateMedian(f) \in lo .. hi
<1> DEFINE n == Cardinality(DOMAIN f)
           g == Cardinality(good)
           b == Cardinality(DOMAIN f \ good)
           half == n \div 2
<1>1. n \in Nat /\ g \in Nat /\ b \in Nat /\ n = g + b
  <2>1. IsFiniteSet(DOMAIN f)
    BY DEF Bounded
  <2>2. n \in Nat /\ g \in Nat /\ b \in Nat
    BY <2>1, PartCardinality
  <2>3. b = n - Cardinality(DOMAIN f \cap good)
    BY <2>1, FS_Difference
  <2>4. DOMAIN f \cap good = good
    OBVIOUS
  <2>5. b = n - g
    BY <2>3, <2>4
  <2> HIDE DEF n, g, b
  <2> QED BY <2>2, <2>5
<1>2. 2 * b < n
  OBVIOUS
<1>3. \A k \in 1 .. n : b < k /\ k <= g => Ranked(f, k) \in lo .. hi
  BY RankBetween
<1>4. \A k \in 1 .. n : Ranked(f, k) \in 0 .. bound
  BY RankedIsRank
<1>5. bound \in Nat
  BY DEF Bounded
<1>6. CASE n % 2 = 1
  <2>1. CalculateMedian(f) = Ranked(f, half + 1)
    BY <1>1, <1>2, <1>6, MedianOdd
  <2> HIDE DEF n, g, b
  <2>2. half + 1 \in 1 .. n /\ n = 2 * half + 1 /\ half \in Nat
    BY <1>1, <1>2, <1>6, Halves
  <2> HIDE DEF half
  <2>3. b < half + 1 /\ half + 1 <= g
    BY <1>1, <1>2, <2>2
  <2> QED BY <1>3, <2>1, <2>2, <2>3
<1>7. CASE n % 2 # 1
  <2> DEFINE low == Ranked(f, half)
             high == Ranked(f, half + 1)
  <2>1. CalculateMedian(f) = Wrap(low + high) \div 2
    BY <1>1, <1>2, <1>7, MedianEven
  <2> HIDE DEF n, g, b, low, high
  <2>2. half \in 1 .. n /\ half + 1 \in 1 .. n /\ n = 2 * half /\ half \in Nat
    BY <1>1, <1>2, <1>7, Halves
  <2> HIDE DEF half
  <2>3. b < half /\ half <= g /\ b < half + 1 /\ half + 1 <= g
    BY <1>1, <1>2, <2>2
  <2>4. low \in lo .. hi /\ high \in lo .. hi
    BY <1>3, <2>2, <2>3 DEF low, high
  <2>5. low \in 0 .. bound /\ high \in 0 .. bound
    BY <1>4, <2>2 DEF low, high
  <2>6. Wrap(low + high) = low + high
    <3>1. low + high \in Nat /\ low + high <= 2 * bound
      BY <1>5, <2>5
    <3>2. low + high < 2 ^ Width
      <4> DEFINE modulus == 2 ^ Width
      <4>1. modulus \in Int /\ 2 * bound < modulus
        BY OracleParams
      <4> HIDE DEF modulus
      <4>2. low + high < modulus
        BY <1>5, <2>5, <3>1, <4>1
      <4> QED BY <4>2 DEF modulus
    <3> QED BY <3>1, <3>2, NoWrap
  <2>7. (low + high) \div 2 \in lo .. hi
    BY <2>4, Average
  <2> QED BY <2>1, <2>6, <2>7
<1> QED BY <1>6, <1>7

\* Some value is not above the median.
LEMMA MedianIsReached ==
    ASSUME NEW f, NEW bound, Bounded(f, bound), 2 * bound < 2 ^ Width, DOMAIN f # {}
    PROVE  \E x \in DOMAIN f : f[x] <= CalculateMedian(f)
<1> DEFINE n == Cardinality(DOMAIN f)
           half == n \div 2
<1>1. n \in Nat /\ n > 0 /\ bound \in Nat
  <2>1. n \in Nat /\ n # 0 /\ bound \in Nat
    BY FS_CardinalityType, FS_EmptySet DEF Bounded
  <2> HIDE DEF n
  <2> QED BY <2>1
<1>2. \A k \in 1 .. n : Ranked(f, k) \in 0 .. bound /\ \E x \in DOMAIN f : Ranked(f, k) = f[x]
  BY RankedIsRank
<1>3. CASE n % 2 = 1
  <2>1. CalculateMedian(f) = Ranked(f, half + 1)
    BY <1>1, <1>3, MedianOdd
  <2> HIDE DEF n
  <2>2. half + 1 \in 1 .. n
    BY <1>1, <1>3, Halves
  <2> HIDE DEF half
  <2>3. Ranked(f, half + 1) \in Nat
    BY <1>1, <1>2, <2>2
  <2>4. PICK x \in DOMAIN f : Ranked(f, half + 1) = f[x]
    BY <1>2, <2>2
  <2> QED BY <2>1, <2>3, <2>4
<1>4. CASE n % 2 # 1
  <2> DEFINE low == Ranked(f, half)
             high == Ranked(f, half + 1)
  <2>1. CalculateMedian(f) = Wrap(low + high) \div 2
    BY <1>1, <1>4, MedianEven
  <2> HIDE DEF n
  <2>2. half \in 1 .. n /\ half + 1 \in 1 .. n
    BY <1>1, <1>4, Halves
  <2> HIDE DEF half
  <2>3. low \in 0 .. bound /\ high \in 0 .. bound
    BY <1>2, <2>2
  <2>4. (\E x \in DOMAIN f : low = f[x]) /\ \E x \in DOMAIN f : high = f[x]
    BY <1>2, <2>2
  <2> HIDE DEF low, high
  <2>5. Wrap(low + high) = low + high
    <3>1. low + high \in Nat /\ low + high <= 2 * bound
      BY <1>1, <2>3
    <3>2. low + high < 2 ^ Width
      <4> DEFINE modulus == 2 ^ Width
      <4>1. modulus \in Int /\ 2 * bound < modulus
        BY OracleParams
      <4> HIDE DEF modulus
      <4>2. low + high < modulus
        BY <1>1, <2>3, <3>1, <4>1
      <4> QED BY <4>2 DEF modulus
    <3> QED BY <3>1, <3>2, NoWrap
  <2>6. low <= (low + high) \div 2 \/ high <= (low + high) \div 2
    BY <1>1, <2>3, Average
  <2> QED BY <2>1, <2>4, <2>5, <2>6
<1> QED BY <1>3, <1>4

LEMMA DistanceFits ==
    ASSUME NEW v \in Nat, NEW w \in Nat
    PROVE  /\ Distance(v, w) \in Nat
           /\ v = w + Distance(v, w) \/ v + Distance(v, w) = w
BY DEF Distance

\* The price lies no further from the prices of good than three times their spread.
LEMMA PriceNear ==
    ASSUME NEW f, NEW bound, Bounded(f, bound), 3 * bound < 2 ^ Width,
           NEW good \in SUBSET DOMAIN f, NEW lo \in Nat, NEW spread \in Nat,
           \A x \in good : lo <= f[x] /\ f[x] <= lo + spread,
           2 * Cardinality(DOMAIN f \ good) < Cardinality(DOMAIN f)
    PROVE  /\ AggregatePrice(f) \in Nat
           /\ AggregatePrice(f) <= lo + spread + 3 * spread
           /\ AggregatePrice(f) + 3 * spread >= lo
<1> DEFINE med == CalculateMedian(f)
           deviation == [x \in DOMAIN f |-> Distance(f[x], med)]
           mad == CalculateMedian(deviation)
           near == {x \in DOMAIN f : deviation[x] <= Wrap(3 * mad)}
           kept == Restrict(f, near)
<1>1. 2 * bound < 2 ^ Width /\ bound \in Nat
  <2> DEFINE modulus == 2 ^ Width
  <2>1. modulus \in Int /\ 3 * bound < modulus /\ bound \in Nat
    BY OracleParams DEF Bounded
  <2> HIDE DEF modulus
  <2>2. 2 * bound < modulus
    BY <2>1
  <2> QED BY <2>1, <2>2 DEF modulus
<1>2. med \in lo .. (lo + spread) /\ med \in 0 .. bound
  <2>1. lo + spread \in Nat
    OBVIOUS
  <2>2. med \in lo .. (lo + spread)
    BY <1>1, <2>1, MedianBetween
  <2>3. \A x \in DOMAIN f : 0 <= f[x] /\ f[x] <= bound
    BY <1>1 DEF Bounded
  <2>4. DOMAIN f \ DOMAIN f = {}
    OBVIOUS
  <2>5. 2 * Cardinality(DOMAIN f \ DOMAIN f) < Cardinality(DOMAIN f)
    <3>1. /\ Cardinality(DOMAIN f \ good) \in Nat /\ Cardinality(DOMAIN f) \in Nat
          /\ Cardinality(DOMAIN f \ DOMAIN f) = 0
      <4>1. IsFiniteSet(DOMAIN f)
        BY DEF Bounded
      <4> QED BY <2>4, <4>1, PartCardinality, FS_EmptySet
    <3> QED BY <3>1
  <2>6. med \in 0 .. bound
    BY <1>1, <2>3, <2>5, MedianBetween
  <2> QED BY <2>2, <2>6
<1>3. AggregatePrice(f) = CalculateMedian(IF Cardinality(DOMAIN f) <= 2 \/ mad = 0 THEN f ELSE kept)
  BY DEF AggregatePrice, FilterOutliersMAD
<1>4. CASE Cardinality(DOMAIN f) <= 2 \/ mad = 0
  <2>1. AggregatePrice(f) = med
    BY <1>3, <1>4
  <2> HIDE DEF med
  <2> QED BY <1>2, <2>1
<1>5. CASE ~(Cardinality(DOMAIN f) <= 2 \/ mad = 0)
  <2>1. AggregatePrice(f) = CalculateMedian(kept)
    BY <1>3, <1>5
  <2> HIDE DEF med
  <2>2. ASSUME NEW x \in DOMAIN f
        PROVE  /\ deviation[x] \in 0 .. bound /\ deviation[x] = Distance(f[x], med)
               /\ f[x] = med + deviation[x] \/ f[x] + deviation[x] = med
    <3>1. f[x] \in 0 .. bound
      BY DEF Bounded
    <3>2. f[x] \in Nat /\ med \in Nat /\ deviation[x] = Distance(f[x], med)
      BY <1>1, <1>2, <3>1
    <3>3. /\ deviation[x] \in Nat
          /\ f[x] = med + deviation[x] \/ f[x] + deviation[x] = med
      BY <3>2, DistanceFits
    <3> DEFINE d == deviation[x]
    <3> HIDE DEF deviation
    <3>4. d <= bound
      BY <1>1, <1>2, <3>1, <3>3
    <3> QED BY <1>1, <3>2, <3>3, <3>4
  <2>3. DOMAIN deviation = DOMAIN f
    OBVIOUS
  <2> HIDE DEF deviation
  <2>4. Bounded(deviation, bound)
    BY <1>1, <2>2, <2>3 DEF Bounded
  <2>5. mad \in 0 .. spread
    <3>1. ASSUME NEW x \in good PROVE 0 <= deviation[x] /\ deviation[x] <= spread
      <4>1. /\ deviation[x] \in 0 .. bound
            /\ f[x] = med + deviation[x] \/ f[x] + deviation[x] = med
            /\ lo <= f[x] /\ f[x] <= lo + spread /\ f[x] \in 0 .. bound
        BY <2>2 DEF Bounded
      <4> QED BY <1>1, <1>2, <4>1
    <3> QED BY <1>1, <2>3, <2>4, <3>1, MedianBetween
  <2>6. PICK y \in DOMAIN f : deviation[y] <= mad
    <3>1. DOMAIN f # {}
      <4>1. IsFiniteSet(DOMAIN f) /\ Cardinality(DOMAIN f \ good) \in Nat
        BY PartCardinality DEF Bounded
      <4>2. Cardinality(DOMAIN f) # 0
        BY <4>1
      <4> QED BY <4>1, <4>2, FS_EmptySet
    <3> QED BY <1>1, <2>3, <2>4, <3>1, MedianIsReached
  <2>7. mad \in 0 .. bound
    <3>1. \A x \in DOMAIN f : 0 <= deviation[x] /\ deviation[x] <= bound
      BY <1>1, <2>2
    <3>2. 2 * Cardinality(DOMAIN deviation \ DOMAIN f) < Cardinality(DOMAIN deviation)
      <4>1. IsFiniteSet(DOMAIN f) /\ DOMAIN deviation \ DOMAIN f = {}
        BY <2>3 DEF Bounded
      <4>2. Cardinality(DOMAIN f) \in Nat /\ Cardinality(DOMAIN f) # 0 /\ Cardinality(DOMAIN deviation \ DOMAIN f) = 0
        BY <2>6, <4>1, FS_CardinalityType, FS_EmptySet
      <4> QED BY <2>3, <4>2
    <3> QED BY <1>1, <2>3, <2>4, <3>1, <3>2, MedianBetween
  <2> HIDE DEF mad
  <2>8. Wrap(3 * mad) = 3 * mad
    <3>1. 3 * mad \in Nat /\ 3 * mad <= 3 * bound
      BY <1>1, <2>7
    <3>2. 3 * mad < 2 ^ Width
      <4> DEFINE modulus == 2 ^ Width
      <4>1. modulus \in Int /\ 3 * bound < modulus
        BY OracleParams
      <4> HIDE DEF modulus
      <4>2. 3 * mad < modulus
        BY <1>1, <2>7, <3>1, <4>1
      <4> QED BY <4>2 DEF modulus
    <3> QED BY <3>1, <3>2, NoWrap
  <2>9. near \subseteq DOMAIN f /\ y \in near /\ \A x \in near : deviation[x] <= 3 * mad
    <3>1. deviation[y] <= 3 * mad
      BY <1>1, <2>2, <2>5, <2>6
    <3> QED BY <2>8, <3>1
  <2> HIDE DEF near
  <2>10. DOMAIN kept = near /\ \A x \in near : kept[x] = f[x]
    BY <2>9 DEF Restrict
  <2> HIDE DEF kept
  <2>11. Bounded(kept, bound)
    BY <2>9, <2>10, FS_Subset DEF Bounded
  <2> DEFINE floor == IF 3 * mad <= med THEN med - 3 * mad ELSE 0
             ceiling == med + 3 * mad
  <2>12. floor \in Nat /\ ceiling \in Nat /\ floor + 3 * mad >= med
    BY <1>1, <1>2, <2>5
  <2>13. ASSUME NEW x \in near PROVE floor <= kept[x] /\ kept[x] <= ceiling
    <3>1. /\ deviation[x] \in 0 .. bound
          /\ f[x] = med + deviation[x] \/ f[x] + deviation[x] = med
          /\ f[x] \in 0 .. bound /\ deviation[x] <= 3 * mad /\ kept[x] = f[x]
      BY <2>2, <2>9, <2>10 DEF Bounded
    <3> QED BY <1>1, <1>2, <2>5, <3>1
  <2> HIDE DEF floor, ceiling
  <2>14. 2 * Cardinality(DOMAIN kept \ near) < Cardinality(DOMAIN kept)
    <3>1. IsFiniteSet(near) /\ DOMAIN kept \ near = {} /\ near # {}
      BY <2>9, <2>10, <2>11 DEF Bounded
    <3>2. Cardinality(near) \in Nat /\ Cardinality(near) # 0 /\ Cardinality(DOMAIN kept \ near) = 0
      BY <3>1, FS_CardinalityType, FS_EmptySet
    <3> QED BY <2>10, <3>2
  <2>15. CalculateMedian(kept) \in floor .. ceiling
    BY <1>1, <2>10, <2>11, <2>12, <2>13, <2>14, MedianBetween
  <2>16. AggregatePrice(f) \in floor .. ceiling
    BY <2>1, <2>15
  <2> QED BY <1>2, <2>5, <2>12, <2>16 DEF ceiling
<1> QED BY <1>4, <1>5

\* Whatever the values and however sums wrap around, a price fits in its bits.
LEMMA MedianFits ==
    ASSUME NEW f, 2 ^ Width > 0, Bounded(f, 2 ^ Width - 1)
    PROVE  CalculateMedian(f) \in 0 .. (2 ^ Width - 1)
<1> DEFINE n == Cardinality(DOMAIN f)
           half == n \div 2
           top == 2 ^ Width - 1
<1>1. n \in Nat /\ top \in Nat
  BY FS_CardinalityType DEF Bounded
<1>2. \A k \in 1 .. n : Ranked(f, k) \in 0 .. top
  BY RankedIsRank
<1>3. CASE n = 0
  <2>1. CalculateMedian(f) = 0
    BY <1>3 DEF CalculateMedian
  <2> HIDE DEF top
  <2>2. 0 \in 0 .. top
    BY <1>1
  <2> QED BY <2>1, <2>2 DEF top
<1>4. CASE n # 0 /\ n % 2 = 1
  <2>1. CalculateMedian(f) = Ranked(f, half + 1)
    BY <1>1, <1>4, MedianOdd
  <2> HIDE DEF n
  <2>2. half + 1 \in 1 .. n
    BY <1>1, <1>4, Halves
  <2> QED BY <1>2, <2>1, <2>2
<1>5. CASE n # 0 /\ n % 2 # 1
  <2> DEFINE low == Ranked(f, half)
             high == Ranked(f, half + 1)
             sum == Wrap(low + high)
  <2>1. CalculateMedian(f) = sum \div 2
    BY <1>1, <1>5, MedianEven
  <2> HIDE DEF n
  <2>2. half \in 1 .. n /\ half + 1 \in 1 .. n
    BY <1>1, <1>5, Halves
  <2> HIDE DEF half
  <2>3. low \in 0 .. top /\ high \in 0 .. top
    BY <1>2, <2>2
  <2>4. low + high \in Nat
    <3> HIDE DEF low, high, top
    <3> QED BY <1>1, <2>3
  <2>5. sum \in 0 .. top
    BY <2>4, WrapFits
  <2> HIDE DEF sum, top
  <2>6. sum \div 2 \in 0 .. top
    BY <1>1, <2>5
  <2> QED BY <2>1, <2>6 DEF top
<1> QED BY <1>3, <1>4, <1>5

LEMMA PriceFits ==
    ASSUME NEW f, 2 ^ Width > 0, Bounded(f, 2 ^ Width - 1)
    PROVE  AggregatePrice(f) \in 0 .. (2 ^ Width - 1)
<1> DEFINE deviation == [x \in DOMAIN f |-> Distance(f[x], CalculateMedian(f))]
           mad == CalculateMedian(deviation)
           near == {x \in DOMAIN f : deviation[x] <= Wrap(3 * mad)}
           kept == Restrict(f, near)
<1>1. FilterOutliersMAD(f) = f \/ FilterOutliersMAD(f) = kept
  BY DEF FilterOutliersMAD
<1>2. Bounded(kept, 2 ^ Width - 1)
  <2>1. near \subseteq DOMAIN f
    OBVIOUS
  <2> HIDE DEF near
  <2>2. DOMAIN kept = near /\ \A x \in near : kept[x] = f[x]
    BY <2>1 DEF Restrict
  <2> HIDE DEF kept
  <2> QED BY <2>1, <2>2, FS_Subset DEF Bounded
<1> HIDE DEF kept
<1> QED BY <1>1, <1>2, MedianFits DEF AggregatePrice

\* The reports of a round are finitely many prices.
LEMMA ReportsBounded ==
    ASSUME NEW revealed, NEW feed, NEW round,
           \A k \in DOMAIN revealed : revealed[k] \in Values,
           NEW bound \in Nat, \A v \in Values : v \in 0 .. bound
    PROVE  Bounded(RevealedValues(revealed, feed, round), bound)
<1> DEFINE values == RevealedValues(revealed, feed, round)
           who == {r \in Reporters : <<r, feed, round>> \in DOMAIN revealed}
<1>1. DOMAIN values = who /\ \A o \in who : values[o] = revealed[<<o, feed, round>>]
  BY DEF RevealedValues
<1>2. IsFiniteSet(who)
  BY OracleParams, FS_Subset
<1>3. \A o \in who : values[o] \in Values
  BY <1>1
<1> HIDE DEF values
<1> QED BY <1>1, <1>2, <1>3 DEF Bounded, values

LEMMA PriceTyped ==
    ASSUME NEW revealed, NEW feed, NEW round,
           \A k \in DOMAIN revealed : revealed[k] \in Values,
           NEW value \in Values
    PROVE  AggregatePrice(RevealedValues(revealed, feed, round)) \in 0 .. (2 ^ Width - 1)
<1> DEFINE top == 2 ^ Width - 1
<1>1. top \in Int /\ \A v \in Values : v \in 0 .. top
  BY OracleParams
<1>2. top \in Nat
  <2> HIDE DEF top
  <2> QED BY <1>1
<1>3. 2 ^ Width > 0
  BY <1>2, OracleParams
<1> QED BY <1>1, <1>2, <1>3, ReportsBounded, PriceFits

LEMMA OracleTypeInit == OracleInit => OracleTypeOK
BY OracleParams DEF OracleInit, OracleTypeOK, NoneYet

LEMMA OracleTypeStep == OracleTypeOK /\ [OracleNext]_oracleVars => OracleTypeOK'
<1> SUFFICES ASSUME OracleTypeOK, [OracleNext]_oracleVars PROVE OracleTypeOK'
  OBVIOUS
<1>1. /\ height \in Nat /\ height >= 1 /\ height <= MaxHeight /\ MaxHeight \in Nat
      /\ Window \in Nat
  BY OracleParams, WindowPositive DEF OracleTypeOK
<1>2. ASSUME NEW k \in Keys, NEW v \in Values, CommitHash(k, v) PROVE OracleTypeOK'
  <2>1. /\ commits' = With(commits, k, [value |-> v, height |-> height]) /\ expiries' = MovedExpiry(k)
        /\ UNCHANGED <<height, operators, reveals, aggregates, slashes>>
    BY <1>2 DEF CommitHash
  <2>2. /\ DOMAIN commits' = DOMAIN commits \cup {k}
        /\ \A x \in DOMAIN commits' : commits'[x] \in Commitment
    BY <1>1, <2>1 DEF With, OracleTypeOK, Commitment
  <2>3. commits' \in [DOMAIN commits' -> Commitment]
    BY <2>1, <2>2 DEF With
  <2>4. expiries' \subseteq Nat \X Keys
    BY <1>1, <2>1 DEF MovedExpiry, OracleTypeOK
  <2> QED BY <2>1, <2>2, <2>3, <2>4 DEF OracleTypeOK, Commitment, Price, Slash
<1>3. ASSUME NEW k \in Keys, NEW v \in Values, RevealReport(k, v) PROVE OracleTypeOK'
  <2> DEFINE values == RevealedValues(reveals', k[2], k[3])
             price == AggregatePrice(values)
  <2>1. /\ reveals' = With(reveals, k, v)
        /\ aggregates' = aggregates \/ aggregates' = With(aggregates, k[2], Dated(price))
        /\ UNCHANGED <<height, operators, commits, expiries, slashes>>
    BY <1>3 DEF RevealReport
  <2>2. /\ DOMAIN reveals' \subseteq Keys
        /\ \A x \in DOMAIN reveals' : reveals'[x] \in Values
        /\ reveals' \in [DOMAIN reveals' -> Values]
    BY <2>1 DEF With, OracleTypeOK
  <2>3. price \in 0 .. (2 ^ Width - 1)
    BY <2>2, PriceTyped
  <2>4. Dated(price) \in Price /\ k[2] \in Feeds
    BY <1>1, <2>3 DEF Dated, Price, Keys
  <2> HIDE DEF price
  <2>5. DOMAIN aggregates' \subseteq Feeds /\ aggregates' \in [DOMAIN aggregates' -> Price]
    BY <2>1, <2>4 DEF With, OracleTypeOK
  <2> QED BY <2>1, <2>2, <2>5 DEF OracleTypeOK, Commitment, Price, Slash
<1>4. ASSUME NEW o \in Reporters, NEW active \in BOOLEAN, SetOperatorActive(o, active)
      PROVE  OracleTypeOK'
  BY <1>4 DEF SetOperatorActive, OracleTypeOK, Commitment, Price, Slash
<1>5. CASE OracleEndBlocker /\ NextHeight
  <2> DEFINE keys == {e[2] : e \in Due}
  <2>1. /\ slashes' = slashes \cup {[key |-> k, at |-> height, committed |-> CommitHeight(k)] :
                                       k \in {x \in keys : Slashable(x)}}
        /\ expiries' = expiries \ Due
        /\ commits' = Restrict(commits, DOMAIN commits \ keys)
        /\ UNCHANGED <<operators, reveals, aggregates>>
        /\ height < MaxHeight /\ height' = height + 1
    BY <1>5 DEF OracleEndBlocker, NextHeight
  <2>2. keys \subseteq Keys
    BY DEF Due, OracleTypeOK
  <2>3. \A k \in keys : CommitHeight(k) \in 0 .. height
    BY <1>1 DEF CommitHeight, OracleTypeOK, Commitment
  <2>4. height' \in 1 .. MaxHeight
    BY <1>1, <2>1
  <2>5. 1 .. height \subseteq 1 .. height' /\ 0 .. height \subseteq 0 .. height'
    BY <1>1, <2>1
  <2>6. commits' \in [DOMAIN commits' -> Commitment'] /\ DOMAIN commits' \subseteq Keys
    BY <2>1, <2>5 DEF Restrict, OracleTypeOK, Commitment
  <2>7. aggregates' \in [DOMAIN aggregates' -> Price'] /\ DOMAIN aggregates' \subseteq Feeds
    BY <2>1, <2>5 DEF OracleTypeOK, Price
  <2>8. slashes' \subseteq Slash'
    <3>1. ASSUME NEW s \in slashes' PROVE s \in Slash'
      <4>1. CASE s \in slashes
        BY <2>5, <4>1 DEF OracleTypeOK, Slash
      <4>2. CASE s \notin slashes
        <5>1. PICK k \in keys : s = [key |-> k, at |-> height, committed |-> CommitHeight(k)]
          BY <2>1, <4>2
        <5>2. k \in Keys /\ height \in 1 .. height' /\ CommitHeight(k) \in 0 .. height'
          BY <1>1, <2>1, <2>2, <2>3, <2>5
        <5> QED BY <5>1, <5>2 DEF Slash
      <4> QED BY <4>1, <4>2
    <3> QED BY <3>1
  <2>9. expiries' \subseteq Nat \X Keys
    BY <2>1 DEF OracleTypeOK
  <2> QED BY <2>1, <2>4, <2>6, <2>7, <2>8, <2>9 DEF OracleTypeOK
<1>6. CASE OracleExportImport
  BY <1>6 DEF OracleExportImport, NoneYet, OracleTypeOK, Commitment, Price, Slash
<1>7. CASE UNCHANGED oracleVars
  BY <1>7 DEF oracleVars, OracleTypeOK, Commitment, Price, Slash
<1> QED
  BY <1>2, <1>3, <1>4, <1>5, <1>6, <1>7 DEF OracleNext, OracleMessage

\* The store of x/oracle always has its type: a price fits in its bits, and nothing
\* is dated after the running block.
THEOREM OracleTyped == OracleSpec => []OracleTypeOK
BY OracleTypeInit, OracleTypeStep, PTL DEF OracleSpec

------------------------------------------------------------------------------
\* Sums and products of prices do not wrap around.
PricesFit == \A v \in Values : 3 * v < 2 ^ Width

\* A bounded one has a greatest.
LEMMA LargestOf ==
    ASSUME NEW S \in SUBSET Nat, S # {}, NEW bound \in Nat, \A v \in S : v <= bound
    PROVE  \E hi \in S : \A v \in S : v <= hi
<1> DEFINE Gaps == {g \in 0 .. bound : bound - g \in S}
<1>1. Gaps \in SUBSET Nat
  OBVIOUS
<1>2. Gaps # {}
  <2>1. PICK v \in S : TRUE
    OBVIOUS
  <2>2. bound - v \in 0 .. bound /\ bound - (bound - v) = v
    BY <2>1
  <2>3. bound - v \in Gaps
    BY <2>1, <2>2
  <2> QED BY <2>3
<1>3. PICK g \in Gaps : \A h \in Gaps : g <= h
  BY <1>1, <1>2, LeastNumber
<1>4. ASSUME NEW v \in S PROVE v <= bound - g
  <2>1. bound - v \in 0 .. bound /\ bound - (bound - v) = v /\ v \in Nat
    OBVIOUS
  <2>2. bound - v \in Gaps
    BY <2>1
  <2>3. g <= bound - v /\ g \in 0 .. bound
    BY <1>3, <2>2
  <2> QED BY <2>1, <2>3
<1> QED BY <1>3, <1>4

\* The price of a round most of whose reports are honest.
LEMMA RoundFollows ==
    ASSUME PricesFit, NEW values, IsFiniteSet(DOMAIN values), \A o \in DOMAIN values : values[o] \in Values,
           2 * Cardinality(DOMAIN values \cap Faulty) < Cardinality(DOMAIN values)
    PROVE  LET honest == {values[o] : o \in DOMAIN values \ Faulty}
               price  == AggregatePrice(values)
           IN  \E lo, hi \in honest :
                  /\ \A v \in honest : lo <= v /\ v <= hi
                  /\ price <= hi + 3 * (hi - lo)
                  /\ price + 3 * (hi - lo) >= lo
<1> DEFINE D == DOMAIN values
           good == D \ Faulty
           honest == {values[o] : o \in good}
           all == {values[o] : o \in D}
           price == AggregatePrice(values)
<1>1. \A v \in Values : v \in Nat /\ 3 * v < 2 ^ Width
  BY OracleParams DEF PricesFit
<1>2. \A o \in D : values[o] \in Nat
  BY <1>1
<1>3. D \ good = D \cap Faulty
  OBVIOUS
<1>4. 2 * Cardinality(D \ good) < Cardinality(D)
  BY <1>3
<1>5. good # {}
  <2>1. Cardinality(D) \in Nat
    BY FS_CardinalityType
  <2>2. good = {} => D \ good = D
    OBVIOUS
  <2> HIDE DEF D, good
  <2> QED BY <1>4, <2>1, <2>2
<1>6. \E bound \in Values : \A o \in D : values[o] <= bound
  <2> DEFINE top == 2 ^ Width - 1
  <2>1. top \in Int /\ \A v \in Values : v \in 0 .. top
    BY OracleParams
  <2> HIDE DEF top
  <2>2. PICK o \in D : TRUE
    BY <1>5
  <2>3. top \in Nat
    BY <2>1, <2>2
  <2>4. all \in SUBSET Nat /\ all # {} /\ \A v \in all : v <= top
    BY <1>2, <2>1, <2>2
  <2>5. PICK hi \in all : \A v \in all : v <= hi
    BY <2>3, <2>4, LargestOf
  <2> QED BY <2>5
<1>7. PICK bound \in Values : \A o \in D : values[o] <= bound
  BY <1>6
<1>8. bound \in Nat /\ 3 * bound < 2 ^ Width /\ Bounded(values, bound)
  BY <1>1, <1>2, <1>7 DEF Bounded
<1>9. honest \in SUBSET Nat /\ honest # {} /\ \A v \in honest : v <= bound
  BY <1>2, <1>5, <1>7
<1>10. PICK lo \in honest : \A v \in honest : lo <= v
  BY <1>9, LeastNumber
<1>11. PICK hi \in honest : \A v \in honest : v <= hi
  BY <1>8, <1>9, LargestOf
<1>12. lo \in Nat /\ hi \in Nat /\ lo <= hi
  BY <1>9, <1>10, <1>11
<1> DEFINE spread == hi - lo
<1>13. spread \in Nat /\ lo + spread = hi
  BY <1>12
<1>14. \A o \in good : lo <= values[o] /\ values[o] <= lo + spread
  BY <1>10, <1>11, <1>13
<1> HIDE DEF spread
<1>15. good \in SUBSET D
  OBVIOUS
<1>16. /\ price \in Nat
       /\ price <= lo + spread + 3 * spread
       /\ price + 3 * spread >= lo
  <2> HIDE DEF good, honest
  <2> QED BY <1>4, <1>8, <1>12, <1>13, <1>14, <1>15, PriceNear
<1>17. price <= hi + 3 * spread /\ price + 3 * spread >= lo
  <2> HIDE DEF price
  <2> QED BY <1>12, <1>13, <1>16
<1> HIDE DEF honest, price
<1> QED BY <1>10, <1>11, <1>17 DEF spread, honest, price

\* A round is aggregated by its own reports, of which there are enough.
LEMMA NewPriceFollows ==
    ASSUME PricesFit, OracleTypeOK, OracleTypeOK', NEW k \in Keys, NEW value \in Values,
           RevealReport(k, value), NEW f \in DOMAIN aggregates',
           f \notin DOMAIN aggregates \/ aggregates'[f] # aggregates[f]
    PROVE  LET values == RevealedValues(reveals', f, k[3])
               honest == {values[o] : o \in DOMAIN values \ Faulty}
               price  == aggregates'[f].price
           IN  /\ Cardinality(DOMAIN values) >= MinOperatorCommits
               /\ 2 * Cardinality(DOMAIN values \cap Faulty) < Cardinality(DOMAIN values) =>
                     \E lo, hi \in honest :
                        /\ \A v \in honest : lo <= v /\ v <= hi
                        /\ price <= hi + 3 * (hi - lo)
                        /\ price + 3 * (hi - lo) >= lo
<1> DEFINE values == RevealedValues(reveals', k[2], k[3])
           who == {r \in Reporters : <<r, k[2], k[3]>> \in DOMAIN reveals'}
<1>1. aggregates' = IF Cardinality(DOMAIN values) >= MinOperatorCommits
                    THEN With(aggregates, k[2], Dated(AggregatePrice(values))) ELSE aggregates
  BY DEF RevealReport
<1>2. \A x \in DOMAIN reveals' : reveals'[x] \in Values
  BY DEF OracleTypeOK
<1>3. DOMAIN values = who /\ \A o \in who : values[o] = reveals'[<<o, k[2], k[3]>>]
  BY DEF RevealedValues
<1>4. IsFiniteSet(DOMAIN values) /\ \A o \in DOMAIN values : values[o] \in Values
  <2>1. IsFiniteSet(who)
    BY OracleParams, FS_Subset
  <2> HIDE DEF values
  <2> QED BY <1>2, <1>3, <2>1
<1> HIDE DEF values
<1>5. Cardinality(DOMAIN values) >= MinOperatorCommits
  BY <1>1
<1>6. aggregates' = With(aggregates, k[2], Dated(AggregatePrice(values)))
  BY <1>1, <1>5
<1>7. f = k[2] /\ aggregates'[f] = Dated(AggregatePrice(values))
  BY <1>6 DEF With
<1>8. aggregates'[f].price = AggregatePrice(values)
  BY <1>7 DEF Dated
<1>9. 2 * Cardinality(DOMAIN values \cap Faulty) < Cardinality(DOMAIN values) =>
         \E lo, hi \in {values[o] : o \in DOMAIN values \ Faulty} :
            /\ \A v \in {values[o] : o \in DOMAIN values \ Faulty} : lo <= v /\ v <= hi
            /\ AggregatePrice(values) <= hi + 3 * (hi - lo)
            /\ AggregatePrice(values) + 3 * (hi - lo) >= lo
  BY <1>4, RoundFollows
<1>10. RevealedValues(reveals', f, k[3]) = values
  BY <1>7 DEF values
<1> QED BY <1>5, <1>8, <1>9, <1>10

\* A new price (RevealOracleReport) lies in the range of the honest prices of its
\* round, or outside by at most three times its width, whenever the faulty reporters
\* are fewer than half, however many reporters there are and whatever they report.
THEOREM PriceFollowsHonest == PricesFit => (OracleSpec => PriceFollowsMajority)
<1> SUFFICES ASSUME PricesFit PROVE OracleSpec => PriceFollowsMajority
  OBVIOUS
<1> DEFINE Follows ==
        \A f \in DOMAIN aggregates' :
          (f \notin DOMAIN aggregates \/ aggregates'[f] # aggregates[f]) =>
          \E r \in Rounds :
             LET values == RevealedValues(reveals', f, r)
                 honest == {values[o] : o \in DOMAIN values \ Faulty}
                 price  == aggregates'[f].price
             IN  /\ Cardinality(DOMAIN values) >= MinOperatorCommits
                 /\ 2 * Cardinality(DOMAIN values \cap Faulty) < Cardinality(DOMAIN values) =>
                       \E lo, hi \in honest :
                          /\ \A v \in honest : lo <= v /\ v <= hi
                          /\ price <= hi + 3 * (hi - lo)
                          /\ price + 3 * (hi - lo) >= lo
<1>1. OracleTypeOK /\ OracleTypeOK' /\ [OracleNext]_oracleVars => [Follows]_oracleVars
  <2> SUFFICES ASSUME OracleTypeOK, OracleTypeOK', OracleNext PROVE Follows
    OBVIOUS
  <2>1. ASSUME DOMAIN aggregates' = {} \/ aggregates' = aggregates PROVE Follows
    BY <2>1
  <2>2. ASSUME NEW k \in Keys, NEW v \in Values, RevealReport(k, v) PROVE Follows
    <3>1. k[3] \in Rounds
      BY DEF Keys
    <3> QED BY <2>2, <3>1, NewPriceFollows
  <2> HIDE DEF Follows
  <2>3. ASSUME NEW k \in Keys, NEW v \in Values, CommitHash(k, v) PROVE Follows
    BY <2>1, <2>3 DEF CommitHash
  <2>4. ASSUME NEW o \in Reporters, NEW active \in BOOLEAN, SetOperatorActive(o, active) PROVE Follows
    BY <2>1, <2>4 DEF SetOperatorActive
  <2>5. CASE OracleEndBlocker /\ NextHeight
    BY <2>1, <2>5 DEF OracleEndBlocker
  <2>6. CASE OracleExportImport
    BY <2>1, <2>6 DEF OracleExportImport, NoneYet
  <2> QED BY <2>2, <2>3, <2>4, <2>5, <2>6 DEF OracleNext, OracleMessage
<1> QED BY <1>1, OracleTyped, PTL DEF OracleSpec, PriceFollowsMajority

------------------------------------------------------------------------------
(***************************************************************************)
(* The loops: over the milestones of a feed, as the index had them, over   *)
(* the feeds, and over the milestones of a genesis.  Each is a recursive   *)
(* function of the turn, which exists for every number of turns.           *)
(***************************************************************************)
Turn(loop, s, i) ==
    CASE loop.over = "milestones" ->
           IF <<loop.feed, IdOrder[i]>> \in loop.index THEN ProcessMilestone(s, IdOrder[i]) ELSE s
      [] loop.over = "feeds" -> ProcessFeed(s, FeedOrder[i])
      [] loop.over = "genesis" ->
           IF IdOrder[i] \in DOMAIN milestones THEN SetMilestone(s, IdOrder[i], milestones[IdOrder[i]]) ELSE s

MilestonesOf(store, feed) == [over |-> "milestones", feed |-> feed, index |-> store.feedIndex]
AllFeeds == [over |-> "feeds"]
Genesis  == [over |-> "genesis"]

Turns(loop, start, n, t) == t = [i \in 0 .. n |-> IF i = 0 THEN start ELSE Turn(loop, t[i - 1], i)]

Emptied == [milestones |-> NoneYet, feedIndex |-> {}, activeFeeds |-> {}, staleBlocked |-> {},
            escrow |-> escrow, payouts |-> payouts, processed |-> 0]

LEMMA Lengths == Len(IdOrder) \in Nat /\ Len(FeedOrder) \in Nat
BY MilestoneParams

\* By induction on the turns: one more turn extends the function by one value.
LEMMA TurnsExist ==
    ASSUME NEW loop, NEW start, NEW n \in Nat
    PROVE  \E t : Turns(loop, start, n, t)
<1> DEFINE T == {k \in 0 .. n : \E t : t = [i \in 0 .. k |-> IF i = 0 THEN start ELSE Turn(loop, t[i - 1], i)]}
<1> HIDE DEF T
<1>1. 0 \in T
  <2> DEFINE first == [i \in 0 .. 0 |-> start]
             A(i) == IF i = 0 THEN start ELSE Turn(loop, first[i - 1], i)
  <2>1. \A i \in 0 .. 0 : A(i) = start
    OBVIOUS
  <2> HIDE DEF A
  <2>2. first = [i \in 0 .. 0 |-> A(i)]
    BY <2>1
  <2>3. \E t : t = [i \in 0 .. 0 |-> IF i = 0 THEN start ELSE Turn(loop, t[i - 1], i)]
    BY <2>2 DEF A
  <2> QED BY <2>3 DEF T
<1>2. ASSUME NEW k \in 1 .. n, k - 1 \in T PROVE k \in T
  <2>1. PICK t : t = [i \in 0 .. (k - 1) |-> IF i = 0 THEN start ELSE Turn(loop, t[i - 1], i)]
    BY <1>2 DEF T
  <2> DEFINE A(i) == IF i = k THEN Turn(loop, t[k - 1], k) ELSE t[i]
             u == [i \in 0 .. k |-> A(i)]
             B(i) == IF i = 0 THEN start ELSE Turn(loop, u[i - 1], i)
  <2>2. ASSUME NEW i \in 0 .. k PROVE A(i) = B(i)
    <3>1. CASE i = k
      <4>1. u[k - 1] = t[k - 1]
        OBVIOUS
      <4> QED BY <3>1, <4>1
    <3>2. CASE i = 0
      BY <2>1, <3>2
    <3>3. CASE i # k /\ i # 0
      <4>1. i \in 0 .. (k - 1) /\ i - 1 \in 0 .. k /\ i - 1 # k
        BY <3>3
      <4>2. A(i) = t[i] /\ u[i - 1] = t[i - 1]
        BY <3>3, <4>1
      <4>3. t[i] = Turn(loop, t[i - 1], i)
        BY <2>1, <3>3, <4>1
      <4> QED BY <3>3, <4>2, <4>3
    <3> QED BY <3>1, <3>2, <3>3
  <2> HIDE DEF A, B
  <2>3. [i \in 0 .. k |-> A(i)] = [i \in 0 .. k |-> B(i)]
    BY <2>2
  <2>4. \E x : x = [i \in 0 .. k |-> IF i = 0 THEN start ELSE Turn(loop, x[i - 1], i)]
    BY <2>3 DEF B
  <2> QED BY <2>4 DEF T
<1>3. n \in T
  BY <1>1, <1>2, EveryTurn
<1> QED BY <1>3 DEF T, Turns

LEMMA MilestoneLoop ==
    ASSUME NEW store, NEW feed
    PROVE  \E t : /\ Turns(MilestonesOf(store, feed), store, Len(IdOrder), t)
                  /\ ProcessMilestones(store, feed) = t[Len(IdOrder)]
<1> DEFINE loop == MilestonesOf(store, feed)
           step(s, i) == IF <<feed, IdOrder[i]>> \in store.feedIndex THEN ProcessMilestone(s, IdOrder[i]) ELSE s
           IsTurns(t) == t = [i \in 0 .. Len(IdOrder) |-> IF i = 0 THEN store ELSE step(t[i - 1], i)]
           turn == CHOOSE t : IsTurns(t)
<1>1. \A s, i : Turn(loop, s, i) = step(s, i)
  BY DEF Turn, MilestonesOf
<1>2. ProcessMilestones(store, feed) = turn[Len(IdOrder)]
  BY DEF ProcessMilestones
<1> HIDE DEF loop, step
<1>3. PICK t : Turns(loop, store, Len(IdOrder), t)
  BY Lengths, TurnsExist
<1>4. IsTurns(t)
  BY <1>1, <1>3 DEF Turns
<1>5. IsTurns(turn)
  BY <1>4
<1>6. Turns(loop, store, Len(IdOrder), turn)
  BY <1>1, <1>5 DEF Turns
<1> QED BY <1>2, <1>6 DEF loop

LEMMA FeedLoop ==
    ASSUME MilestoneEndBlocker
    PROVE  \E t : Turns(AllFeeds, Store, Len(FeedOrder), t) /\ BecomesOf(t[Len(FeedOrder)])
<1> DEFINE step(s, i) == ProcessFeed(s, FeedOrder[i])
           IsTurns(t) == t = [i \in 0 .. Len(FeedOrder) |-> IF i = 0 THEN Store ELSE step(t[i - 1], i)]
           turn == CHOOSE t : IsTurns(t)
<1>1. \A s, i : Turn(AllFeeds, s, i) = step(s, i)
  BY DEF Turn, AllFeeds
<1>2. BecomesOf(turn[Len(FeedOrder)])
  BY DEF MilestoneEndBlocker
<1> HIDE DEF step
<1>3. PICK t : Turns(AllFeeds, Store, Len(FeedOrder), t)
  BY Lengths, TurnsExist
<1>4. IsTurns(t)
  BY <1>1, <1>3 DEF Turns
<1>5. IsTurns(turn)
  BY <1>4
<1>6. Turns(AllFeeds, Store, Len(FeedOrder), turn)
  BY <1>1, <1>5 DEF Turns
<1> QED BY <1>2, <1>6

LEMMA GenesisLoop ==
    ASSUME ExportImport
    PROVE  \E t : Turns(Genesis, Emptied, Len(IdOrder), t) /\ BecomesOf(t[Len(IdOrder)])
<1> DEFINE step(s, i) ==
              IF IdOrder[i] \in DOMAIN milestones THEN SetMilestone(s, IdOrder[i], milestones[IdOrder[i]]) ELSE s
           IsTurns(t) == t = [i \in 0 .. Len(IdOrder) |-> IF i = 0 THEN Emptied ELSE step(t[i - 1], i)]
           turn == CHOOSE t : IsTurns(t)
<1>1. \A s, i : Turn(Genesis, s, i) = step(s, i)
  BY DEF Turn, Genesis
<1>2. BecomesOf(turn[Len(IdOrder)])
  BY DEF ExportImport, Emptied
<1> HIDE DEF step
<1>3. PICK t : Turns(Genesis, Emptied, Len(IdOrder), t)
  BY Lengths, TurnsExist
<1>4. IsTurns(t)
  BY <1>1, <1>3 DEF Turns
<1>5. IsTurns(turn)
  BY <1>4
<1>6. Turns(Genesis, Emptied, Len(IdOrder), turn)
  BY <1>1, <1>5 DEF Turns
<1> QED BY <1>2, <1>6

------------------------------------------------------------------------------
(***************************************************************************)
(* What holds of the store, whatever part of a handler has run.            *)
(***************************************************************************)
Fields(s) ==
    s = [milestones |-> s.milestones, feedIndex |-> s.feedIndex, activeFeeds |-> s.activeFeeds,
         staleBlocked |-> s.staleBlocked, escrow |-> s.escrow, payouts |-> s.payouts,
         processed |-> s.processed]

\* A milestone keeps the feed it was created on, and is open while it has blocks left.
Proper(id, m) ==
    /\ m = [feed |-> Plans[id].feed, target |-> m.target, remaining |-> m.remaining, state |-> m.state]
    /\ m.target \in Targets
    /\ m.remaining \in 0 .. Plans[id].duration
    /\ m.state \in Open \cup Final
    /\ m.state \in Open => m.remaining > 0

Typed(s) ==
    /\ DOMAIN s.milestones \subseteq Ids
    /\ \A id \in DOMAIN s.milestones : Proper(id, s.milestones[id])
    /\ s.staleBlocked \subseteq Feeds
    /\ s.escrow \in 0 .. EscrowFunds
    /\ s.payouts \in Seq([id : Ids, paid : BOOLEAN])

OpenIn(s) == {id \in DOMAIN s.milestones : s.milestones[id].state \in Open}

Indexed(s) ==
    /\ s.feedIndex = {<<Plans[id].feed, id>> : id \in OpenIn(s)}
    /\ s.activeFeeds = {Plans[id].feed : id \in OpenIn(s)}

PaidOnce(s) ==
    /\ \A i, j \in DOMAIN s.payouts : s.payouts[i].id = s.payouts[j].id => i = j
    /\ \A id \in Ids : (\E i \in DOMAIN s.payouts : s.payouts[i].id = id)
                          <=> id \in DOMAIN s.milestones /\ s.milestones[id].state = "achieved"

StoreOK(s) == Fields(s) /\ Typed(s) /\ Indexed(s) /\ PaidOnce(s)

\* What one block may do to a milestone: nothing is used up and nothing settled
\* unless the feed is fresh, and then as the price says.
Settles(old, new) ==
    /\ new.feed = old.feed
    /\ new.remaining # old.remaining \/ (new.state # old.state /\ new.state \in Final)
          => /\ ~IsFeedStale(old.feed)
             /\ new.state = "achieved" <=> aggregates[old.feed].price >= old.target

\* Of the milestones a only some have changed.
Moves(a, b, some) ==
    /\ DOMAIN b = DOMAIN a
    /\ \A id \in DOMAIN a : (id \notin some => b[id] = a[id]) /\ Settles(a[id], b[id])

------------------------------------------------------------------------------
(***************************************************************************)
(* SetMilestone and the payout                                             *)
(***************************************************************************)
\* Only the milestone and the two indexes are written.
LEMMA SetOpen ==
    ASSUME NEW s, Fields(s), NEW id, NEW m, m.state \in Open
    PROVE  LET r == SetMilestone(s, id, m)
           IN  /\ Fields(r) /\ r.milestones = With(s.milestones, id, m)
               /\ r.feedIndex = s.feedIndex \cup {<<m.feed, id>>} /\ r.activeFeeds = s.activeFeeds \cup {m.feed}
               /\ r.staleBlocked = s.staleBlocked /\ r.escrow = s.escrow
               /\ r.payouts = s.payouts /\ r.processed = s.processed
<1> DEFINE added == With(s.milestones, id, m)
<1> HIDE DEF added
<1>1. SetMilestone(s, id, m) = [milestones |-> added, feedIndex |-> s.feedIndex \cup {<<m.feed, id>>}, activeFeeds |-> s.activeFeeds \cup {m.feed},
                                staleBlocked |-> s.staleBlocked, escrow |-> s.escrow,
                                payouts |-> s.payouts, processed |-> s.processed]
  BY DEF SetMilestone, Fields, added
<1> QED BY <1>1 DEF Fields, added

Without(index, m, id) == index \ {<<m.feed, id>>}

LEMMA SetClosed ==
    ASSUME NEW s, Fields(s), NEW id, NEW m, m.state \notin Open
    PROVE  LET r == SetMilestone(s, id, m)
           IN  /\ Fields(r) /\ r.milestones = With(s.milestones, id, m)
               /\ r.feedIndex = Without(s.feedIndex, m, id)
               /\ r.activeFeeds = KeepIfIndexed(s.activeFeeds, m.feed, Without(s.feedIndex, m, id))
               /\ r.staleBlocked = s.staleBlocked /\ r.escrow = s.escrow
               /\ r.payouts = s.payouts /\ r.processed = s.processed
<1> DEFINE closed == Without(s.feedIndex, m, id)
           kept == KeepIfIndexed(s.activeFeeds, m.feed, closed)
           added == With(s.milestones, id, m)
<1> HIDE DEF kept, added, closed
<1>1. SetMilestone(s, id, m) = [milestones |-> added, feedIndex |-> closed, activeFeeds |-> kept,
                                staleBlocked |-> s.staleBlocked, escrow |-> s.escrow,
                                payouts |-> s.payouts, processed |-> s.processed]
  BY DEF SetMilestone, Fields, added, kept, closed, Without
<1> QED BY <1>1 DEF Fields, added, kept, closed

LEMMA SetFields ==
    ASSUME NEW s, Fields(s), NEW id, NEW m
    PROVE  LET r == SetMilestone(s, id, m)
           IN  /\ Fields(r)
               /\ r.milestones = With(s.milestones, id, m)
               /\ r.staleBlocked = s.staleBlocked /\ r.escrow = s.escrow
               /\ r.payouts = s.payouts /\ r.processed = s.processed
<1>1. CASE m.state \in Open
  BY <1>1, SetOpen
<1>2. CASE m.state \notin Open
  BY <1>2, SetClosed
<1> QED BY <1>1, <1>2

LEMMA SetKeeps ==
    ASSUME NEW s, Fields(s), Typed(s), Indexed(s), NEW id \in Ids, NEW m, Proper(id, m)
    PROVE  LET r == SetMilestone(s, id, m)
           IN  Fields(r) /\ Typed(r) /\ Indexed(r)
<1> DEFINE r == SetMilestone(s, id, m)
           feed == Plans[id].feed
           closed == s.feedIndex \ {<<feed, id>>}
<1>1. m.feed = feed
  BY DEF Proper
<1>2. /\ Fields(r)
      /\ r.milestones = With(s.milestones, id, m)
      /\ m.state \in Open => r.feedIndex = s.feedIndex \cup {<<feed, id>>} /\ r.activeFeeds = s.activeFeeds \cup {feed}
      /\ m.state \notin Open => r.feedIndex = closed /\ r.activeFeeds = KeepIfIndexed(s.activeFeeds, feed, closed)
      /\ r.staleBlocked = s.staleBlocked /\ r.escrow = s.escrow /\ r.payouts = s.payouts
  <2>1. CASE m.state \in Open
    BY <1>1, <2>1, SetOpen
  <2>2. CASE m.state \notin Open
    <3>1. Without(s.feedIndex, m, id) = closed
      BY <1>1 DEF Without
    <3> HIDE DEF closed
    <3> QED BY <1>1, <2>2, <3>1, SetClosed
  <2> QED BY <2>1, <2>2
<1> HIDE DEF r
<1>3. /\ DOMAIN r.milestones = DOMAIN s.milestones \cup {id}
      /\ r.milestones[id] = m
      /\ \A i \in DOMAIN s.milestones : i # id => r.milestones[i] = s.milestones[i]
  BY <1>2 DEF With
<1>4. Typed(r)
  BY <1>2, <1>3 DEF Typed
<1>5. OpenIn(r) = IF m.state \in Open THEN OpenIn(s) \cup {id} ELSE OpenIn(s) \ {id}
  BY <1>3 DEF OpenIn
<1>6. Indexed(r)
  <2>1. CASE m.state \in Open
    BY <1>2, <1>5, <2>1 DEF Indexed
  <2>2. CASE m.state \notin Open
    <3>1. r.feedIndex = {<<Plans[i].feed, i>> : i \in OpenIn(r)}
      BY <1>2, <1>5, <2>2 DEF Indexed
    <3>2. (\E e \in closed : e[1] = feed) <=> \E i \in OpenIn(r) : Plans[i].feed = feed
      <4>1. closed = {<<Plans[i].feed, i>> : i \in OpenIn(r)}
        BY <1>2, <2>2, <3>1
      <4>2. \A e \in closed : \E i \in OpenIn(r) : e = <<Plans[i].feed, i>>
        BY <4>1
      <4>3. \A i \in OpenIn(r) : <<Plans[i].feed, i>> \in closed
        BY <4>1
      <4> HIDE DEF closed
      <4>4. ASSUME NEW e \in closed, e[1] = feed
            PROVE  \E i \in OpenIn(r) : Plans[i].feed = feed
        <5>1. PICK i \in OpenIn(r) : e = <<Plans[i].feed, i>>
          BY <4>2
        <5> QED BY <4>4, <5>1
      <4>5. ASSUME NEW i \in OpenIn(r), Plans[i].feed = feed
            PROVE  \E e \in closed : e[1] = feed
        BY <4>3, <4>5
      <4> QED BY <4>4, <4>5
    <3>3. r.activeFeeds = {Plans[i].feed : i \in OpenIn(r)}
      BY <1>2, <1>5, <2>2, <3>2 DEF Indexed, KeepIfIndexed
    <3> QED BY <3>1, <3>3 DEF Indexed
  <2> QED BY <2>1, <2>2
<1> QED BY <1>2, <1>4, <1>6 DEF r

\* Writing a milestone that was not achieved and is not leaves the payouts right.
LEMMA SetKeepsPaid ==
    ASSUME NEW s, StoreOK(s), NEW id \in Ids, NEW m, Proper(id, m),
           m.state = "achieved" <=> id \in DOMAIN s.milestones /\ s.milestones[id].state = "achieved"
    PROVE  StoreOK(SetMilestone(s, id, m))
<1> DEFINE r == SetMilestone(s, id, m)
<1>1. r.milestones = With(s.milestones, id, m) /\ r.payouts = s.payouts
  BY SetFields DEF StoreOK
<1>2. Fields(r) /\ Typed(r) /\ Indexed(r)
  BY SetKeeps DEF StoreOK
<1> HIDE DEF r
<1>3. /\ DOMAIN r.milestones = DOMAIN s.milestones \cup {id}
      /\ r.milestones[id] = m
      /\ \A i \in DOMAIN s.milestones : i # id => r.milestones[i] = s.milestones[i]
  BY <1>1 DEF With
<1>4. PaidOnce(r)
  BY <1>1, <1>3 DEF PaidOnce, StoreOK
<1> QED BY <1>2, <1>4 DEF StoreOK, r

LEMMA PayFields ==
    ASSUME NEW s, Fields(s), NEW id
    PROVE  LET r == TriggerVestingPayout(s, id)
               covered == Plans[id].payout <= s.escrow
           IN  /\ Fields(r)
               /\ r.milestones = s.milestones /\ r.feedIndex = s.feedIndex
               /\ r.activeFeeds = s.activeFeeds /\ r.staleBlocked = s.staleBlocked
               /\ r.escrow = IF covered THEN s.escrow - Plans[id].payout ELSE s.escrow
               /\ r.payouts = Append(s.payouts, [id |-> id, paid |-> covered])
<1> DEFINE r == TriggerVestingPayout(s, id)
           covered == Plans[id].payout <= s.escrow
           rest == IF covered THEN s.escrow - Plans[id].payout ELSE s.escrow
           events == Append(s.payouts, [id |-> id, paid |-> covered])
<1>1. r = [s EXCEPT !.escrow = rest, !.payouts = events]
  BY DEF TriggerVestingPayout
<1> HIDE DEF r, rest, events
<1>2. r = [milestones |-> s.milestones, feedIndex |-> s.feedIndex, activeFeeds |-> s.activeFeeds,
           staleBlocked |-> s.staleBlocked, escrow |-> rest, payouts |-> events, processed |-> s.processed]
  BY <1>1 DEF Fields
<1>3. /\ Fields(r)
      /\ r.milestones = s.milestones /\ r.feedIndex = s.feedIndex
      /\ r.activeFeeds = s.activeFeeds /\ r.staleBlocked = s.staleBlocked
      /\ r.escrow = rest /\ r.payouts = events
  BY <1>2 DEF Fields
<1> QED BY <1>3 DEF r, rest, events

\* An achieved milestone has its first and only payout event.
LEMMA AchieveKeeps ==
    ASSUME NEW s, StoreOK(s), NEW id \in OpenIn(s)
    PROVE  LET r == Achieve(s, id)
           IN  /\ StoreOK(r)
               /\ r.milestones = With(s.milestones, id, [s.milestones[id] EXCEPT !.state = "achieved"])
<1> DEFINE m == [s.milestones[id] EXCEPT !.state = "achieved"]
           stored == SetMilestone(s, id, m)
           r == TriggerVestingPayout(stored, id)
           covered == Plans[id].payout <= stored.escrow
<1>1. id \in Ids /\ id \in DOMAIN s.milestones /\ s.milestones[id].state \in Open
  BY DEF OpenIn, StoreOK, Typed
<1>2. Proper(id, s.milestones[id])
  BY <1>1 DEF StoreOK, Typed
<1>3. Proper(id, m) /\ m.state = "achieved"
  BY <1>2 DEF Proper, Open, Final
<1>4. Fields(stored) /\ Typed(stored) /\ Indexed(stored)
  BY <1>1, <1>3, SetKeeps DEF StoreOK
<1>5. stored.milestones = With(s.milestones, id, m) /\ stored.payouts = s.payouts
  BY SetFields DEF StoreOK
<1>6. /\ Fields(r)
      /\ r.milestones = stored.milestones /\ r.feedIndex = stored.feedIndex
      /\ r.activeFeeds = stored.activeFeeds /\ r.staleBlocked = stored.staleBlocked
      /\ r.escrow = IF covered THEN stored.escrow - Plans[id].payout ELSE stored.escrow
      /\ r.payouts = Append(stored.payouts, [id |-> id, paid |-> covered])
  BY <1>4, PayFields
<1>7. Achieve(s, id) = r
  BY DEF Achieve
<1> HIDE DEF stored, r, m
<1>8. /\ DOMAIN r.milestones = DOMAIN s.milestones
      /\ r.milestones[id] = m
      /\ \A i \in DOMAIN s.milestones : i # id => r.milestones[i] = s.milestones[i]
  BY <1>1, <1>5, <1>6 DEF With
<1>9. s.payouts \in Seq([id : Ids, paid : BOOLEAN])
  BY DEF StoreOK, Typed
<1>10. /\ Len(s.payouts) \in Nat /\ DOMAIN s.payouts = 1 .. Len(s.payouts)
       /\ DOMAIN r.payouts = 1 .. Len(s.payouts) + 1
       /\ r.payouts[Len(s.payouts) + 1] = [id |-> id, paid |-> covered]
       /\ \A i \in DOMAIN s.payouts : r.payouts[i] = s.payouts[i]
       /\ r.payouts \in Seq([id : Ids, paid : BOOLEAN])
  <2>1. covered \in BOOLEAN
    OBVIOUS
  <2> HIDE DEF covered
  <2> QED BY <1>1, <1>5, <1>6, <1>9, <2>1
<1>11. Typed(r)
  <2>1. Plans[id].payout \in Nat /\ stored.escrow \in 0 .. EscrowFunds /\ EscrowFunds \in Nat
    BY <1>1, <1>4, MilestoneParams DEF Typed
  <2>2. r.escrow \in 0 .. EscrowFunds
    BY <1>6, <2>1
  <2> QED BY <1>4, <1>6, <1>10, <2>2 DEF Typed
<1>12. Indexed(r)
  BY <1>4, <1>6 DEF Indexed, OpenIn
<1>13. PaidOnce(r)
  <2>1. \A i \in DOMAIN s.payouts : s.payouts[i].id # id
    BY <1>1 DEF StoreOK, PaidOnce, Open
  <2>2. \A i, j \in DOMAIN r.payouts : r.payouts[i].id = r.payouts[j].id => i = j
    <3> SUFFICES ASSUME NEW i \in DOMAIN r.payouts, NEW j \in DOMAIN r.payouts,
                        r.payouts[i].id = r.payouts[j].id
                 PROVE  i = j
      OBVIOUS
    <3>1. \A k \in DOMAIN r.payouts : k \in DOMAIN s.payouts \/ k = Len(s.payouts) + 1
      BY <1>10
    <3>2. r.payouts[Len(s.payouts) + 1].id = id
      BY <1>10
    <3> QED BY <1>10, <2>1, <3>1, <3>2 DEF StoreOK, PaidOnce
  <2>3. ASSUME NEW x \in Ids
        PROVE  (\E i \in DOMAIN r.payouts : r.payouts[i].id = x)
                  <=> x \in DOMAIN r.milestones /\ r.milestones[x].state = "achieved"
    <3>1. CASE x = id
      BY <1>1, <1>3, <1>8, <1>10, <3>1
    <3>2. CASE x # id
      <4>1. (\E i \in DOMAIN r.payouts : r.payouts[i].id = x) <=> \E i \in DOMAIN s.payouts : s.payouts[i].id = x
        BY <1>10, <3>2
      <4> QED BY <1>8, <3>2, <4>1 DEF StoreOK, PaidOnce
    <3> QED BY <3>1, <3>2
  <2> QED BY <2>2, <2>3 DEF PaidOnce
<1> QED BY <1>5, <1>6, <1>7, <1>11, <1>12, <1>13 DEF StoreOK, m

------------------------------------------------------------------------------
(***************************************************************************)
(* The turns of the loops                                                  *)
(***************************************************************************)
LEMMA UnchangedSettles == ASSUME NEW m PROVE Settles(m, m)
BY DEF Settles

LEMMA MovesTo ==
    ASSUME NEW a, NEW b, NEW id \in DOMAIN a, NEW m, b = With(a, id, m), Settles(a[id], m)
    PROVE  Moves(a, b, {id})
<1>1. /\ DOMAIN b = DOMAIN a
      /\ b[id] = m
      /\ \A i \in DOMAIN a : i # id => b[i] = a[i]
  BY DEF With
<1>2. \A i \in DOMAIN a : Settles(a[i], b[i])
  BY <1>1, UnchangedSettles
<1> QED BY <1>1, <1>2 DEF Moves

\* Counting a milestone as processed changes nothing else.
LEMMA CountKeeps ==
    ASSUME NEW s, StoreOK(s)
    PROVE  LET r == [s EXCEPT !.processed = @ + 1]
           IN  StoreOK(r) /\ r.milestones = s.milestones /\ OpenIn(r) = OpenIn(s)
<1> DEFINE r == [s EXCEPT !.processed = @ + 1]
<1>1. Fields(s)
  BY DEF StoreOK
<1>2. r = [milestones |-> s.milestones, feedIndex |-> s.feedIndex, activeFeeds |-> s.activeFeeds,
           staleBlocked |-> s.staleBlocked, escrow |-> s.escrow, payouts |-> s.payouts,
           processed |-> s.processed + 1]
  BY <1>1 DEF Fields
<1> HIDE DEF r
<1>3. /\ Fields(r)
      /\ r.milestones = s.milestones /\ r.feedIndex = s.feedIndex /\ r.activeFeeds = s.activeFeeds
      /\ r.staleBlocked = s.staleBlocked /\ r.escrow = s.escrow /\ r.payouts = s.payouts
  BY <1>2 DEF Fields
<1>4. StoreOK(r)
  BY <1>3 DEF StoreOK, Typed, Indexed, PaidOnce, OpenIn
<1> QED BY <1>3, <1>4 DEF r, OpenIn

\* Writing an open milestone of the store back in another state, not achieved.
LEMMA WriteMoves ==
    ASSUME NEW s, StoreOK(s), NEW id \in OpenIn(s), NEW m, Proper(id, m), m.state # "achieved",
           Settles(s.milestones[id], m)
    PROVE  LET r == SetMilestone(s, id, m)
           IN  StoreOK(r) /\ Moves(s.milestones, r.milestones, {id})
<1>1. id \in Ids /\ id \in DOMAIN s.milestones /\ s.milestones[id].state # "achieved"
  BY DEF OpenIn, StoreOK, Typed, Open
<1>2. StoreOK(SetMilestone(s, id, m))
  BY <1>1, SetKeepsPaid
<1>3. SetMilestone(s, id, m).milestones = With(s.milestones, id, m)
  BY SetFields DEF StoreOK
<1> QED BY <1>1, <1>2, <1>3, MovesTo

LEMMA BlockMoves ==
    ASSUME NEW s, StoreOK(s), NEW id \in OpenIn(s)
    PROVE  StoreOK(Block(s, id)) /\ Moves(s.milestones, Block(s, id).milestones, {id})
<1> DEFINE old == s.milestones[id]
           m == [old EXCEPT !.state = "stale-blocked"]
<1>1. Proper(id, old) /\ old.state \in Open
  BY DEF OpenIn, StoreOK, Typed
<1> HIDE DEF old
<1>2. m = [feed |-> old.feed, target |-> old.target, remaining |-> old.remaining, state |-> "stale-blocked"]
  BY <1>1 DEF Proper
<1>3. Proper(id, m) /\ m.state = "stale-blocked"
  BY <1>1, <1>2 DEF Proper, Open
<1>4. Settles(old, m)
  BY <1>1, <1>2 DEF Settles, Final, Proper
<1>5. Block(s, id) = SetMilestone(s, id, m)
  BY DEF Block, old
<1> HIDE DEF m
<1> QED BY <1>3, <1>4, <1>5, WriteMoves DEF old

LEMMA EvaluateMoves ==
    ASSUME NEW s, StoreOK(s), NEW id \in OpenIn(s), ~IsFeedStale(s.milestones[id].feed)
    PROVE  StoreOK(Evaluate(s, id)) /\ Moves(s.milestones, Evaluate(s, id).milestones, {id})
<1> DEFINE old == s.milestones[id]
           reached == aggregates[old.feed].price >= old.target
           achieved == [old EXCEPT !.state = "achieved"]
           left == old.remaining - 1
           m == IF old.state = "stale-blocked" THEN [old EXCEPT !.state = "pending"]
                ELSE [old EXCEPT !.remaining = left, !.state = IF left <= 0 THEN "expired" ELSE "pending"]
<1>1. Proper(id, old) /\ old.state \in Open /\ ~IsFeedStale(old.feed) /\ id \in DOMAIN s.milestones
      /\ old.remaining \in 1 .. Plans[id].duration /\ Plans[id].duration \in Nat
  <2>1. Proper(id, old) /\ old.state \in Open /\ id \in DOMAIN s.milestones /\ id \in Ids
    BY DEF OpenIn, StoreOK, Typed
  <2>2. Plans[id].duration \in Nat
    BY <2>1, MilestoneParams
  <2>3. old.remaining \in 1 .. Plans[id].duration
    BY <2>1, <2>2 DEF Proper
  <2> QED BY <2>1, <2>2, <2>3
<1>2. CASE reached
  <2>1. Evaluate(s, id) = Achieve(s, id)
    BY <1>2 DEF Evaluate
  <2>2. /\ StoreOK(Achieve(s, id))
        /\ Achieve(s, id).milestones = With(s.milestones, id, achieved)
    BY AchieveKeeps
  <2>3. Settles(old, achieved)
    <3>1. /\ achieved.feed = old.feed /\ achieved.remaining = old.remaining
          /\ achieved.state = "achieved"
      BY <1>1 DEF Proper
    <3> HIDE DEF achieved, old
    <3> QED BY <1>1, <1>2, <3>1 DEF Settles
  <2>4. Moves(s.milestones, Achieve(s, id).milestones, {id})
    BY <1>1, <2>2, <2>3, MovesTo
  <2> QED BY <2>1, <2>2, <2>4
<1>3. CASE ~reached
  <2>1. Evaluate(s, id) = SetMilestone(s, id, m)
    BY <1>3 DEF Evaluate
  <2> HIDE DEF old
  <2>2. Proper(id, m) /\ m.state # "achieved" /\ Settles(old, m)
    <3>1. CASE old.state = "stale-blocked"
      <4>1. m = [feed |-> old.feed, target |-> old.target, remaining |-> old.remaining, state |-> "pending"]
        BY <1>1, <3>1 DEF Proper
      <4>2. Proper(id, m) /\ m.state # "achieved"
        <5>1. m.target = old.target /\ m.remaining = old.remaining /\ m.state = "pending" /\ m.feed = old.feed
          BY <4>1
        <5> HIDE DEF m
        <5> QED BY <1>1, <4>1, <5>1 DEF Proper, Open
      <4>3. Settles(old, m)
        BY <1>1, <3>1, <4>1 DEF Settles, Final
      <4> QED BY <4>2, <4>3
    <3>2. CASE old.state # "stale-blocked"
      <4> DEFINE state == IF left <= 0 THEN "expired" ELSE "pending"
      <4>1. m = [feed |-> old.feed, target |-> old.target, remaining |-> left, state |-> state]
        BY <1>1, <3>2 DEF Proper
      <4>2. /\ state \in {"expired", "pending"}
            /\ left \in 0 .. Plans[id].duration
            /\ state = "pending" => left > 0
        BY <1>1
      <4> HIDE DEF state, left, m
      <4>3. m.feed = old.feed /\ m.target = old.target /\ m.remaining = left /\ m.state = state
        BY <4>1
      <4>4. Proper(id, m)
        BY <1>1, <4>1, <4>2, <4>3 DEF Proper, Open, Final
      <4>5. Settles(old, m)
        <5>1. m.feed = old.feed /\ ~(m.state = "achieved") /\ ~IsFeedStale(old.feed)
          BY <1>1, <4>2, <4>3
        <5> HIDE DEF reached
        <5> QED BY <1>3, <5>1 DEF Settles, reached
      <4> QED BY <4>2, <4>3, <4>4, <4>5
    <3> QED BY <3>1, <3>2
  <2> HIDE DEF m
  <2> QED BY <2>1, <2>2, WriteMoves DEF old
<1> QED BY <1>2, <1>3

\* A turn for a milestone changes this one only, and as the feed and the price say.
LEMMA TurnMoves ==
    ASSUME NEW s, StoreOK(s), NEW id \in Ids
    PROVE  LET r == ProcessMilestone(s, id)
           IN  StoreOK(r) /\ Moves(s.milestones, r.milestones, {id})
<1> DEFINE counted == [s EXCEPT !.processed = @ + 1]
           r == ProcessMilestone(s, id)
<1>1. CASE \/ s.processed >= MaxActiveMilestones
           \/ id \notin DOMAIN s.milestones
           \/ s.milestones[id].state \in Final
  <2>1. r = s
    BY <1>1 DEF ProcessMilestone
  <2>2. Moves(s.milestones, s.milestones, {id})
    BY UnchangedSettles DEF Moves
  <2> QED BY <2>1, <2>2
<1>2. CASE ~(\/ s.processed >= MaxActiveMilestones
             \/ id \notin DOMAIN s.milestones
             \/ s.milestones[id].state \in Final)
  <2>1. r = IF IsFeedStale(s.milestones[id].feed) THEN Block(counted, id) ELSE Evaluate(counted, id)
    BY <1>2 DEF ProcessMilestone
  <2>2. id \in OpenIn(s)
    <3>1. Proper(id, s.milestones[id])
      BY <1>2 DEF StoreOK, Typed
    <3> QED BY <1>2, <3>1 DEF OpenIn, Proper
  <2>3. StoreOK(counted) /\ counted.milestones = s.milestones /\ id \in OpenIn(counted)
    BY <2>2, CountKeeps
  <2> HIDE DEF counted, r
  <2>4. CASE IsFeedStale(s.milestones[id].feed)
    BY <2>1, <2>3, <2>4, BlockMoves DEF r
  <2>5. CASE ~IsFeedStale(s.milestones[id].feed)
    BY <2>1, <2>3, <2>5, EvaluateMoves DEF r
  <2> QED BY <2>4, <2>5
<1> QED BY <1>1, <1>2

\* No turn comes back to a milestone that was moved before.
LEMMA MovesApart ==
    ASSUME NEW a, NEW b, NEW c, NEW some, NEW more, Moves(a, b, some), Moves(b, c, more), some \cap more = {}
    PROVE  Moves(a, c, some \cup more)
<1>1. DOMAIN c = DOMAIN a
  BY DEF Moves
<1>2. ASSUME NEW i \in DOMAIN a
      PROVE  (i \notin some \cup more => c[i] = a[i]) /\ Settles(a[i], c[i])
  <2>1. CASE i \in more
    BY <2>1 DEF Moves
  <2>2. CASE i \notin more
    <3>1. c[i] = b[i] /\ Settles(a[i], b[i])
      BY <2>2 DEF Moves
    <3> QED BY <2>2, <3>1 DEF Moves
  <2> QED BY <2>1, <2>2
<1> QED BY <1>1, <1>2 DEF Moves

LEMMA NoMoves == ASSUME NEW a PROVE Moves(a, a, {})
BY UnchangedSettles DEF Moves

LEMMA MovesMore ==
    ASSUME NEW a, NEW b, NEW some, NEW more, Moves(a, b, some), some \subseteq more
    PROVE  Moves(a, b, more)
BY DEF Moves

LEMMA Orders ==
    /\ \A i \in 1 .. Len(IdOrder) : IdOrder[i] \in Ids
    /\ \A i, j \in 1 .. Len(IdOrder) : IdOrder[i] = IdOrder[j] => i = j
    /\ \A id \in Ids : \E i \in 1 .. Len(IdOrder) : IdOrder[i] = id
    /\ \A i \in 1 .. Len(FeedOrder) : FeedOrder[i] \in Feeds
    /\ \A i, j \in 1 .. Len(FeedOrder) : FeedOrder[i] = FeedOrder[j] => i = j
<1>1. DOMAIN IdOrder = 1 .. Len(IdOrder) /\ DOMAIN FeedOrder = 1 .. Len(FeedOrder)
  BY MilestoneParams
<1> QED BY <1>1, MilestoneParams DEF Range, IsInjective

LEMMA MilestonesMove ==
    ASSUME NEW s, StoreOK(s), NEW feed
    PROVE  LET r == ProcessMilestones(s, feed)
           IN  /\ StoreOK(r)
               /\ Moves(s.milestones, r.milestones, {id \in Ids : Plans[id].feed = feed})
<1> DEFINE n == Len(IdOrder)
           loop == MilestonesOf(s, feed)
           Before(i) == {IdOrder[j] : j \in 1 .. i} \cap {id \in Ids : Plans[id].feed = feed}
<1>1. PICK t : Turns(loop, s, n, t) /\ ProcessMilestones(s, feed) = t[n]
  BY MilestoneLoop
<1> DEFINE T == {i \in 0 .. n : StoreOK(t[i]) /\ Moves(s.milestones, t[i].milestones, Before(i))}
<1> HIDE DEF T
<1>2. n \in Nat
  BY Lengths
<1>3. 0 \in T
  <2>1. t[0] = s /\ Before(0) = {}
    BY <1>1, <1>2 DEF Turns
  <2> HIDE DEF Before
  <2>2. Moves(s.milestones, t[0].milestones, Before(0))
    BY <2>1, NoMoves
  <2> QED BY <1>2, <2>1, <2>2 DEF T
<1>4. ASSUME NEW i \in 1 .. n, i - 1 \in T PROVE i \in T
  <2>1. t[i] = Turn(loop, t[i - 1], i)
    BY <1>1, <1>2 DEF Turns
  <2>2. t[i] = IF <<feed, IdOrder[i]>> \in s.feedIndex THEN ProcessMilestone(t[i - 1], IdOrder[i]) ELSE t[i - 1]
    BY <2>1 DEF Turn, MilestonesOf
  <2>3. StoreOK(t[i - 1]) /\ Moves(s.milestones, t[i - 1].milestones, Before(i - 1))
    BY <1>4 DEF T
  <2>4. Before(i - 1) \subseteq Before(i)
    BY <1>2
  <2>5. CASE <<feed, IdOrder[i]>> \in s.feedIndex
    <3>1. IdOrder[i] \in Ids /\ IdOrder[i] \notin Before(i - 1)
      BY <1>2, Orders
    <3>2. Plans[IdOrder[i]].feed = feed
      BY <2>5 DEF StoreOK, Indexed
    <3>3. Before(i - 1) \cup {IdOrder[i]} \subseteq Before(i)
      BY <1>2, <2>4, <3>1, <3>2
    <3> HIDE DEF Before
    <3>4. StoreOK(t[i]) /\ Moves(t[i - 1].milestones, t[i].milestones, {IdOrder[i]})
      BY <2>2, <2>3, <2>5, <3>1, TurnMoves
    <3>5. Moves(s.milestones, t[i].milestones, Before(i - 1) \cup {IdOrder[i]})
      BY <2>3, <3>1, <3>4, MovesApart
    <3> QED BY <3>3, <3>4, <3>5, MovesMore DEF T
  <2>6. CASE <<feed, IdOrder[i]>> \notin s.feedIndex
    <3> HIDE DEF Before
    <3> QED BY <2>2, <2>3, <2>4, <2>6, MovesMore DEF T
  <2> QED BY <2>5, <2>6
<1>5. n \in T
  <2> HIDE DEF n
  <2>1. \A i \in 0 .. n : i \in T
    BY <1>2, <1>3, <1>4, EveryTurn
  <2> QED BY <1>2, <2>1
<1>6. Before(n) \subseteq {id \in Ids : Plans[id].feed = feed}
  OBVIOUS
<1> HIDE DEF Before
<1> QED BY <1>1, <1>5, <1>6, MovesMore DEF T

\* A turn for a feed changes the milestones on that feed only.
LEMMA FeedMoves ==
    ASSUME NEW s, StoreOK(s), NEW feed \in Feeds
    PROVE  LET r == ProcessFeed(s, feed)
           IN  /\ StoreOK(r)
               /\ Moves(s.milestones, r.milestones, {id \in Ids : Plans[id].feed = feed})
<1> DEFINE on == {id \in Ids : Plans[id].feed = feed}
           after == ProcessMilestones(s, feed)
           blocked == IF IsFeedStale(feed) THEN after.staleBlocked \cup {feed} ELSE after.staleBlocked \ {feed}
<1> HIDE DEF on
<1>1. ProcessFeed(s, feed) = s \/ ProcessFeed(s, feed) = [after EXCEPT !.staleBlocked = blocked]
  BY DEF ProcessFeed
<1>2. StoreOK(after) /\ Moves(s.milestones, after.milestones, on)
  BY MilestonesMove DEF on
<1>3. blocked \subseteq Feeds
  BY <1>2 DEF StoreOK, Typed
<1>4. CASE ProcessFeed(s, feed) = s
  <2>1. Moves(s.milestones, s.milestones, on)
    BY NoMoves, MovesMore
  <2> QED BY <1>4, <2>1 DEF on
<1>5. CASE ProcessFeed(s, feed) = [after EXCEPT !.staleBlocked = blocked]
  <2> DEFINE r == [after EXCEPT !.staleBlocked = blocked]
  <2>1. Fields(after)
    BY <1>2 DEF StoreOK
  <2> HIDE DEF after, blocked
  <2>2. r = [milestones |-> after.milestones, feedIndex |-> after.feedIndex, activeFeeds |-> after.activeFeeds,
             staleBlocked |-> blocked, escrow |-> after.escrow, payouts |-> after.payouts,
             processed |-> after.processed]
    BY <2>1 DEF Fields
  <2> HIDE DEF r
  <2>3. /\ Fields(r) /\ r.milestones = after.milestones /\ r.feedIndex = after.feedIndex
        /\ r.activeFeeds = after.activeFeeds /\ r.staleBlocked = blocked
        /\ r.escrow = after.escrow /\ r.payouts = after.payouts
    BY <2>2 DEF Fields
  <2>4. StoreOK(r)
    BY <1>2, <1>3, <2>3 DEF StoreOK, Typed, Indexed, PaidOnce, OpenIn
  <2> QED BY <1>2, <1>5, <2>3, <2>4 DEF on, r
<1> QED BY <1>1, <1>4, <1>5

\* The EndBlocker: every milestone is moved at most once, as its feed and the price say.
LEMMA EndBlockMoves ==
    ASSUME StoreOK(Store), MilestoneEndBlocker
    PROVE  \E r : StoreOK(r) /\ BecomesOf(r) /\ Moves(milestones, r.milestones, Ids)
<1> DEFINE n == Len(FeedOrder)
           Before(i) == {id \in Ids : \E j \in 1 .. i : FeedOrder[j] = Plans[id].feed}
<1>1. PICK t : Turns(AllFeeds, Store, n, t) /\ BecomesOf(t[n])
  BY FeedLoop
<1> DEFINE T == {i \in 0 .. n : StoreOK(t[i]) /\ Moves(milestones, t[i].milestones, Before(i))}
<1> HIDE DEF T
<1>2. n \in Nat
  BY Lengths
<1>3. 0 \in T
  <2>1. t[0] = Store /\ Before(0) = {} /\ Store.milestones = milestones
    BY <1>1, <1>2 DEF Turns, Store
  <2> HIDE DEF Before
  <2>2. Moves(milestones, t[0].milestones, Before(0))
    BY <2>1, NoMoves
  <2> QED BY <1>2, <2>1, <2>2 DEF T
<1>4. ASSUME NEW i \in 1 .. n, i - 1 \in T PROVE i \in T
  <2> DEFINE on == {id \in Ids : Plans[id].feed = FeedOrder[i]}
  <2>1. t[i] = Turn(AllFeeds, t[i - 1], i)
    BY <1>1, <1>2 DEF Turns
  <2>2. t[i] = ProcessFeed(t[i - 1], FeedOrder[i])
    BY <2>1 DEF Turn, AllFeeds
  <2>3. StoreOK(t[i - 1]) /\ Moves(milestones, t[i - 1].milestones, Before(i - 1))
    BY <1>4 DEF T
  <2>4. FeedOrder[i] \in Feeds
    BY <1>2, Orders
  <2>5. StoreOK(t[i]) /\ Moves(t[i - 1].milestones, t[i].milestones, on)
    BY <2>2, <2>3, <2>4, FeedMoves
  <2>6. Before(i - 1) \cap on = {}
    BY <1>2, Orders
  <2>7. Before(i - 1) \cup on \subseteq Before(i)
    BY <1>2
  <2> HIDE DEF Before, on
  <2>8. Moves(milestones, t[i].milestones, Before(i - 1) \cup on)
    BY <2>3, <2>5, <2>6, MovesApart
  <2>9. Moves(milestones, t[i].milestones, Before(i))
    BY <2>7, <2>8, MovesMore
  <2> QED BY <2>5, <2>9 DEF T
<1>5. n \in T
  <2> HIDE DEF n
  <2>1. \A i \in 0 .. n : i \in T
    BY <1>2, <1>3, <1>4, EveryTurn
  <2> QED BY <1>2, <2>1
<1>6. Before(n) \subseteq Ids
  OBVIOUS
<1> HIDE DEF Before
<1>7. StoreOK(t[n]) /\ Moves(milestones, t[n].milestones, Ids)
  BY <1>5, <1>6, MovesMore DEF T
<1> QED BY <1>1, <1>7

\* A genesis writes the exported milestones back, and the indexes with them.
LEMMA GenesisRestores ==
    ASSUME StoreOK(Store), ExportImport
    PROVE  \E r : StoreOK(r) /\ BecomesOf(r) /\ Moves(milestones, r.milestones, {})
<1> DEFINE n == Len(IdOrder)
           Before(i) == {IdOrder[j] : j \in 1 .. i} \cap DOMAIN milestones
           Restored(r, i) ==
               /\ Fields(r) /\ Typed(r) /\ Indexed(r)
               /\ r.payouts = payouts /\ DOMAIN r.milestones = Before(i)
               /\ \A id \in Before(i) : r.milestones[id] = milestones[id]
<1>1. PICK t : Turns(Genesis, Emptied, n, t) /\ BecomesOf(t[n])
  BY GenesisLoop
<1> DEFINE T == {i \in 0 .. n : Restored(t[i], i)}
<1> HIDE DEF T
<1>2. n \in Nat
  BY Lengths
<1>3. /\ Typed(Store) /\ PaidOnce(Store)
      /\ Store.milestones = milestones /\ Store.payouts = payouts /\ Store.escrow = escrow
  BY DEF StoreOK, Store
<1>4. 0 \in T
  <2>1. t[0] = Emptied /\ Before(0) = {}
    BY <1>1, <1>2 DEF Turns
  <2>2. Emptied = [milestones |-> NoneYet, feedIndex |-> {}, activeFeeds |-> {}, staleBlocked |-> {},
                   escrow |-> escrow, payouts |-> payouts, processed |-> 0]
    BY DEF Emptied
  <2>3. DOMAIN NoneYet = {}
    BY DEF NoneYet
  <2>4. Fields(Emptied) /\ Emptied.payouts = payouts /\ Emptied.milestones = NoneYet
    BY <2>2 DEF Fields
  <2>5. Typed(Emptied)
    BY <1>3, <2>2, <2>3 DEF Typed
  <2>6. Indexed(Emptied)
    BY <2>2, <2>3 DEF Indexed, OpenIn
  <2> HIDE DEF Before
  <2>7. Restored(Emptied, 0)
    BY <2>1, <2>3, <2>4, <2>5, <2>6
  <2> QED BY <1>2, <2>1, <2>7 DEF T
<1>5. ASSUME NEW i \in 1 .. n, i - 1 \in T PROVE i \in T
  <2> DEFINE id == IdOrder[i]
             s == t[i - 1]
  <2>1. t[i] = Turn(Genesis, s, i)
    BY <1>1, <1>2 DEF Turns
  <2>2. t[i] = IF id \in DOMAIN milestones THEN SetMilestone(s, id, milestones[id]) ELSE s
    BY <2>1 DEF Turn, Genesis
  <2>3. /\ Fields(s) /\ Typed(s) /\ Indexed(s)
        /\ s.payouts = payouts /\ DOMAIN s.milestones = Before(i - 1)
        /\ \A x \in Before(i - 1) : s.milestones[x] = milestones[x]
    BY <1>5 DEF T
  <2>4. CASE id \in DOMAIN milestones
    <3>1. Before(i) = Before(i - 1) \cup {id}
      BY <1>2, <2>4
    <3>2. Proper(id, milestones[id]) /\ id \in Ids
      BY <1>3, <2>4 DEF Typed
    <3> HIDE DEF Before, s, id
    <3>3. t[i] = SetMilestone(s, id, milestones[id])
      BY <2>2, <2>4
    <3>4. Fields(t[i]) /\ Typed(t[i]) /\ Indexed(t[i])
      BY <2>3, <3>2, <3>3, SetKeeps
    <3>5. t[i].milestones = With(s.milestones, id, milestones[id]) /\ t[i].payouts = payouts
      BY <2>3, <3>3, SetFields
    <3>6. /\ DOMAIN t[i].milestones = Before(i)
          /\ \A x \in Before(i) : t[i].milestones[x] = milestones[x]
      BY <2>3, <3>1, <3>5 DEF With
    <3>7. Restored(t[i], i)
      BY <3>4, <3>5, <3>6
    <3> QED BY <3>7 DEF T
  <2>5. CASE id \notin DOMAIN milestones
    <3>1. Before(i) = Before(i - 1)
      BY <1>2, <2>5
    <3> HIDE DEF Before
    <3>2. Restored(t[i], i)
      BY <2>2, <2>3, <2>5, <3>1
    <3> QED BY <3>2 DEF T
  <2> QED BY <2>4, <2>5
<1>6. Restored(t[n], n)
  <2> HIDE DEF n, Restored
  <2>1. \A i \in 0 .. n : i \in T
    BY <1>2, <1>4, <1>5, EveryTurn
  <2> QED BY <1>2, <2>1 DEF T
<1>7. Before(n) = DOMAIN milestones
  <2>1. ASSUME NEW id \in DOMAIN milestones PROVE id \in {IdOrder[j] : j \in 1 .. n}
    <3>1. id \in Ids
      BY <1>3 DEF Typed
    <3> QED BY <3>1, Orders
  <2> QED BY <2>1
<1> HIDE DEF Before
<1>8. DOMAIN t[n].milestones = DOMAIN milestones
      /\ \A id \in DOMAIN milestones : t[n].milestones[id] = milestones[id]
  BY <1>6, <1>7
<1>9. PaidOnce(t[n])
  BY <1>3, <1>6, <1>8 DEF PaidOnce
<1>10. Moves(milestones, t[n].milestones, {})
  BY <1>8, UnchangedSettles DEF Moves
<1> QED BY <1>1, <1>6, <1>9, <1>10 DEF StoreOK

------------------------------------------------------------------------------
(***************************************************************************)
(* The steps of the specification                                          *)
(***************************************************************************)
VestingInv == StoreOK(Store)

LEMMA StoreFields ==
    /\ Store.milestones = milestones /\ Store.feedIndex = feedIndex /\ Store.activeFeeds = activeFeeds
    /\ Store.staleBlocked = staleBlocked /\ Store.escrow = escrow /\ Store.payouts = payouts
    /\ Fields(Store)
BY DEF Store, Fields

LEMMA VestingTyped == VestingInit => VestingInv
<1> SUFFICES ASSUME VestingInit PROVE StoreOK(Store)
  BY DEF VestingInv
<1>1. /\ DOMAIN milestones = {} /\ feedIndex = {} /\ activeFeeds = {} /\ staleBlocked = {}
      /\ escrow = EscrowFunds /\ payouts = <<>> /\ DOMAIN payouts = {}
  BY DEF VestingInit, MilestoneInit, NoneYet
<1>2. Typed(Store)
  BY <1>1, StoreFields, MilestoneParams DEF Typed
<1>3. Indexed(Store)
  BY <1>1, StoreFields DEF Indexed, OpenIn
<1>4. PaidOnce(Store)
  BY <1>1, StoreFields DEF PaidOnce
<1> QED BY <1>2, <1>3, <1>4, StoreFields DEF StoreOK

\* Whatever a handler leaves in the store is the next state.
LEMMA Becomes ==
    ASSUME NEW r, StoreOK(r), BecomesOf(r)
    PROVE  VestingInv'
<1> DEFINE s == Store'
<1>1. /\ s.milestones = r.milestones /\ s.feedIndex = r.feedIndex /\ s.activeFeeds = r.activeFeeds
      /\ s.staleBlocked = r.staleBlocked /\ s.escrow = r.escrow /\ s.payouts = r.payouts /\ Fields(s)
  BY DEF Store, BecomesOf, Fields
<1> HIDE DEF s
<1>2. StoreOK(s)
  BY <1>1 DEF StoreOK, Typed, Indexed, PaidOnce, OpenIn
<1> QED BY <1>2 DEF VestingInv, s

LEMMA CreateKeeps ==
    ASSUME VestingInv, NEW id \in Ids, CreateMilestone(id)
    PROVE  VestingInv'
<1> DEFINE m == [feed |-> Plans[id].feed, target |-> Plans[id].target,
                 remaining |-> Plans[id].duration, state |-> "pending"]
<1>1. Proper(id, m) /\ m.state # "achieved"
  BY MilestoneParams DEF Proper, Open
<1>2. id \notin DOMAIN Store.milestones /\ BecomesOf(SetMilestone(Store, id, m))
  BY StoreFields DEF CreateMilestone
<1> HIDE DEF m
<1>3. StoreOK(SetMilestone(Store, id, m))
  BY <1>1, <1>2, SetKeepsPaid DEF VestingInv
<1> QED BY <1>2, <1>3, Becomes

LEMMA UpdateKeeps ==
    ASSUME VestingInv, NEW id \in Ids, NEW target \in Targets, UpdateMilestone(id, target)
    PROVE  /\ VestingInv'
           /\ \A i \in DOMAIN milestones : /\ milestones'[i].remaining = milestones[i].remaining
                                           /\ milestones'[i].state = milestones[i].state
<1> DEFINE old == milestones[id]
           m == [old EXCEPT !.target = target]
           r == SetMilestone(Store, id, m)
<1>1. id \in DOMAIN milestones /\ Proper(id, old)
  BY StoreFields DEF UpdateMilestone, VestingInv, StoreOK, Typed
<1>2. BecomesOf(r)
  BY DEF UpdateMilestone
<1> HIDE DEF old, r
<1>3. m = [feed |-> old.feed, target |-> target, remaining |-> old.remaining, state |-> old.state]
  BY <1>1 DEF Proper
<1>4. m.feed = old.feed /\ m.target = target /\ m.remaining = old.remaining /\ m.state = old.state
  BY <1>3
<1> HIDE DEF m
<1>5. Proper(id, m)
  BY <1>1, <1>3, <1>4 DEF Proper
<1>6. StoreOK(r) /\ r.milestones = With(milestones, id, m)
  <2>1. m.state = "achieved" <=> id \in DOMAIN Store.milestones /\ Store.milestones[id].state = "achieved"
    BY <1>1, <1>4, StoreFields DEF old
  <2> QED BY <1>5, <2>1, SetKeepsPaid, SetFields, StoreFields DEF VestingInv, r
<1>7. VestingInv'
  BY <1>2, <1>6, Becomes
<1>8. milestones' = With(milestones, id, m)
  BY <1>2, <1>6 DEF BecomesOf
<1>9. \A i \in DOMAIN milestones : /\ milestones'[i].remaining = milestones[i].remaining
                                   /\ milestones'[i].state = milestones[i].state
  BY <1>1, <1>4, <1>8 DEF With, old
<1> QED BY <1>7, <1>9

LEMMA EndBlockKeeps ==
    ASSUME VestingInv, EndBlock
    PROVE  /\ VestingInv'
           /\ \A i \in DOMAIN milestones : Settles(milestones[i], milestones'[i])
<1>1. PICK r : StoreOK(r) /\ BecomesOf(r) /\ Moves(milestones, r.milestones, Ids)
  BY EndBlockMoves DEF VestingInv, EndBlock
<1>2. VestingInv'
  BY <1>1, Becomes
<1>3. milestones' = r.milestones
  BY <1>1 DEF BecomesOf
<1> QED BY <1>1, <1>2, <1>3 DEF Moves

LEMMA ImportKeeps ==
    ASSUME VestingInv, ExportImport
    PROVE  /\ VestingInv'
           /\ \A i \in DOMAIN milestones : milestones'[i] = milestones[i]
<1>1. PICK r : StoreOK(r) /\ BecomesOf(r) /\ Moves(milestones, r.milestones, {})
  BY GenesisRestores DEF VestingInv
<1>2. VestingInv'
  BY <1>1, Becomes
<1>3. milestones' = r.milestones
  BY <1>1 DEF BecomesOf
<1> QED BY <1>1, <1>2, <1>3 DEF Moves

LEMMA UnchangedKeeps ==
    ASSUME VestingInv, UNCHANGED milestoneVars
    PROVE  VestingInv'
<1>1. BecomesOf(Store)
  BY StoreFields DEF milestoneVars, BecomesOf
<1> QED BY <1>1, Becomes DEF VestingInv

LEMMA VestingStep == VestingInv /\ [VestingNext]_vestingVars => VestingInv'
<1> SUFFICES ASSUME VestingInv, [VestingNext]_vestingVars PROVE VestingInv'
  OBVIOUS
<1>1. CASE OracleMessage /\ UNCHANGED milestoneVars
  BY <1>1, UnchangedKeeps
<1>2. ASSUME NEW id \in Ids, CreateMilestone(id) PROVE VestingInv'
  BY <1>2, CreateKeeps
<1>3. ASSUME NEW id \in Ids, NEW target \in Targets, UpdateMilestone(id, target) PROVE VestingInv'
  BY <1>3, UpdateKeeps
<1>4. CASE EndBlock
  BY <1>4, EndBlockKeeps
<1>5. CASE ExportImport
  BY <1>5, ImportKeeps
<1>6. CASE UNCHANGED vestingVars
  BY <1>6, UnchangedKeeps DEF vestingVars
<1> QED BY <1>1, <1>2, <1>3, <1>4, <1>5, <1>6 DEF VestingNext

LEMMA VestingAlways == VestingSpec => []VestingInv
BY VestingTyped, VestingStep, PTL DEF VestingSpec

------------------------------------------------------------------------------
\* The stored milestones, both indexes and the payouts always have their types: the
\* escrow account (TriggerVestingPayout) never goes below zero and no clock does.
THEOREM MilestonesTyped == VestingSpec => []MilestoneTypeOK
<1>1. VestingInv => MilestoneTypeOK
  <2> SUFFICES ASSUME Typed(Store), Indexed(Store) PROVE MilestoneTypeOK
    BY DEF VestingInv, StoreOK
  <2>1. /\ DOMAIN milestones \subseteq Ids
        /\ \A id \in DOMAIN milestones : Proper(id, milestones[id])
        /\ staleBlocked \subseteq Feeds /\ escrow \in 0 .. EscrowFunds
        /\ payouts \in Seq([id : Ids, paid : BOOLEAN])
    BY StoreFields DEF Typed
  <2>2. feedIndex \subseteq Feeds \X Ids /\ activeFeeds \subseteq Feeds
    <3>1. OpenIn(Store) \subseteq Ids
      BY <2>1, StoreFields DEF OpenIn
    <3>2. \A id \in OpenIn(Store) : Plans[id].feed \in Feeds
      BY <3>1, MilestoneParams
    <3> QED BY <3>1, <3>2, StoreFields DEF Indexed
  <2> QED BY <2>1, <2>2 DEF MilestoneTypeOK, Proper
<1> QED BY <1>1, VestingAlways, PTL

\* Whatever is created, edited, paid, expired and restarted, in whatever order the
\* blocks' budgets allow: the index by feed has an entry for each open milestone and no
\* other, and a feed is visited as long as it has one (SetMilestone).
THEOREM IndexesMatchStates == VestingSpec => []IndexMatchesStates
<1>1. VestingInv => IndexMatchesStates
  <2> SUFFICES ASSUME Typed(Store), Indexed(Store) PROVE IndexMatchesStates
    BY DEF VestingInv, StoreOK
  <2>1. OpenIn(Store) = {i \in DOMAIN milestones : milestones[i].state \in Open}
    BY StoreFields DEF OpenIn
  <2>2. \A id \in OpenIn(Store) : milestones[id].feed = Plans[id].feed
    BY <2>1, StoreFields DEF Typed, Proper
  <2>3. feedIndex = {<<milestones[id].feed, id>> : id \in OpenIn(Store)}
    BY <2>2, StoreFields DEF Indexed
  <2>4. activeFeeds = {e[1] : e \in feedIndex}
    <3>1. feedIndex = {<<Plans[id].feed, id>> : id \in OpenIn(Store)}
      BY StoreFields DEF Indexed
    <3>2. activeFeeds = {Plans[id].feed : id \in OpenIn(Store)}
      BY StoreFields DEF Indexed
    <3>3. ASSUME NEW id \in OpenIn(Store) PROVE \E e \in feedIndex : e[1] = Plans[id].feed
      <4>1. <<Plans[id].feed, id>> \in feedIndex
        BY <3>1
      <4> QED BY <4>1
    <3>4. ASSUME NEW e \in feedIndex PROVE \E id \in OpenIn(Store) : e[1] = Plans[id].feed
      BY <3>1
    <3> QED BY <3>2, <3>3, <3>4
  <2> QED BY <2>1, <2>3, <2>4 DEF IndexMatchesStates
<1> QED BY <1>1, VestingAlways, PTL

\* A milestone that reaches its target is paid, or found uncovered, in that block and
\* never again, through restarts and later edits (EndBlocker, keeper.go:260).
THEOREM AchievedPaidOnce == VestingSpec => []AchievedPaysOnce
<1>1. VestingInv => AchievedPaysOnce
  <2> SUFFICES ASSUME Typed(Store), PaidOnce(Store) PROVE AchievedPaysOnce
    BY DEF VestingInv, StoreOK
  <2>1. /\ \A i, j \in DOMAIN payouts : payouts[i].id = payouts[j].id => i = j
        /\ \A id \in Ids : (\E i \in DOMAIN payouts : payouts[i].id = id)
                              <=> id \in DOMAIN milestones /\ milestones[id].state = "achieved"
    BY StoreFields DEF PaidOnce
  <2>2. DOMAIN milestones \subseteq Ids /\ payouts \in Seq([id : Ids, paid : BOOLEAN])
    BY StoreFields DEF Typed
  <2>3. ASSUME NEW i \in DOMAIN payouts PROVE payouts[i].id \in Ids
    <3> DEFINE events == [id : Ids, paid : BOOLEAN]
    <3>1. payouts \in Seq(events) /\ i \in DOMAIN payouts
      BY <2>2, <2>3
    <3> HIDE DEF events
    <3>2. payouts[i] \in events
      BY <3>1
    <3> QED BY <3>2 DEF events
  <2> QED BY <2>1, <2>2, <2>3 DEF AchievedPaysOnce
<1> QED BY <1>1, VestingAlways, PTL

\* No block touches the clock of a milestone whose feed is stale, and what a block
\* settles it settles as the fresh price says, once, whatever the order of feeds and
\* milestones and wherever the budget ends (EndBlocker, keeper.go:198).
THEOREM SettledOnlyOnFreshPrice == VestingSpec => SettledOnFreshPrice
<1> DEFINE Settled ==
        \A id \in DOMAIN milestones :
          LET old == milestones[id]
              new == milestones'[id]
              reached == aggregates[old.feed].price >= old.target
          IN  (new.remaining # old.remaining \/ (new.state # old.state /\ new.state \in Final)) =>
                 ~IsFeedStale(old.feed) /\ (new.state = "achieved" <=> reached)
<1>1. VestingInv /\ [VestingNext]_vestingVars => [Settled]_vestingVars
  <2> SUFFICES ASSUME VestingInv, VestingNext PROVE Settled
    OBVIOUS
  <2>1. ASSUME \A i \in DOMAIN milestones : /\ milestones'[i].remaining = milestones[i].remaining
                                            /\ milestones'[i].state = milestones[i].state
        PROVE  Settled
    BY <2>1
  <2> HIDE DEF Settled
  <2>2. CASE OracleMessage /\ UNCHANGED milestoneVars
    BY <2>1, <2>2 DEF milestoneVars
  <2>3. ASSUME NEW id \in Ids, CreateMilestone(id) PROVE Settled
    <3> DEFINE m == [feed |-> Plans[id].feed, target |-> Plans[id].target,
                     remaining |-> Plans[id].duration, state |-> "pending"]
    <3>1. id \notin DOMAIN milestones /\ milestones' = SetMilestone(Store, id, m).milestones
      BY <2>3 DEF CreateMilestone, BecomesOf
    <3> HIDE DEF m
    <3>2. milestones' = With(milestones, id, m)
      BY <3>1, SetFields, StoreFields
    <3>3. \A i \in DOMAIN milestones : milestones'[i] = milestones[i]
      BY <3>1, <3>2 DEF With
    <3> QED BY <2>1, <3>3
  <2>4. ASSUME NEW id \in Ids, NEW target \in Targets, UpdateMilestone(id, target) PROVE Settled
    BY <2>1, <2>4, UpdateKeeps
  <2>5. CASE EndBlock
    <3>1. \A i \in DOMAIN milestones : Settles(milestones[i], milestones'[i])
      BY <2>5, EndBlockKeeps
    <3> QED BY <3>1 DEF Settled, Settles
  <2>6. CASE ExportImport
    BY <2>1, <2>6, ImportKeeps
  <2> QED BY <2>2, <2>3, <2>4, <2>5, <2>6 DEF VestingNext
<1> QED BY <1>1, VestingAlways, PTL DEF VestingSpec, SettledOnFreshPrice

------------------------------------------------------------------------------
\* x/milestone leaves the store of x/oracle alone: its EndBlocker, messages and genesis
\* are steps of x/oracle or none.
THEOREM VestingHasOracle == VestingSpec => OracleSpec
<1>1. VestingInit => OracleInit
  BY DEF VestingInit
<1>2. [VestingNext]_vestingVars => [OracleNext]_oracleVars
  BY DEF VestingNext, vestingVars, OracleNext, CreateMilestone, UpdateMilestone, EndBlock, ExportImport
<1> QED BY <1>1, <1>2, PTL DEF VestingSpec, OracleSpec

\* So no operator is slashed out of time, and no commit is left behind, on the chain
\* with both modules (EndBlocker of x/oracle).
THEOREM VestingSettlesCommits == VestingSpec => []ExpiriesMatchCommits /\ []SlashedInTime
BY VestingHasOracle, IndexIsExact, SlashesAreInTime
==============================================================================
