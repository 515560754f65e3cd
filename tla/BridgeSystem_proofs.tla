------------------------- MODULE BridgeSystem_proofs --------------------------
(***************************************************************************)
(* The bridge for every value of the constants: the nonce bitmap both ends *)
(* use, LockBox.sol, x/bridge, and the two with the committee in between.  *)
(***************************************************************************)
EXTENDS BridgeSystem, TLAPS, FiniteSetTheorems, SequenceTheorems, NaturalsInduction,
        WellFoundedInduction

------------------------------------------------------------------------------
(***************************************************************************)
(* What the bit arithmetic of the nonce registry guarantees for every      *)
(* natural number, whatever was stored before, and the one fact on event   *)
(* logs that both ends of the bridge need beside it.                       *)
(***************************************************************************)

\* Two nonces that share a word and a bit are the same nonce.
LEMMA WordAndBitIdentify ==
    ASSUME NEW m \in Nat, NEW n \in Nat,
           WordIndex(m) = WordIndex(n), BitIndex(m) = BitIndex(n)
    PROVE  m = n
<1>1. m = 256 * (m \div 256) + (m % 256)
  OBVIOUS
<1>2. n = 256 * (n \div 256) + (n % 256)
  OBVIOUS
<1> QED BY <1>1, <1>2 DEF WordIndex, BitIndex

\* SetNonceProcessed(n) records n, keeps every other nonce recorded and
\* records no other one: x/bridge and the LockBox never confuse two nonces.
THEOREM SetNonceExact ==
    ASSUME NEW words, NEW m \in Nat, NEW n \in Nat
    PROVE  IsNonceProcessed(SetNonceProcessed(words, n), m)
              <=> (m = n \/ IsNonceProcessed(words, m))
<1> DEFINE after == SetNonceProcessed(words, n)
<1>1. CASE WordIndex(m) = WordIndex(n)
  <2>1. WordAt(after, WordIndex(m))
           = WordAt(words, WordIndex(m)) \cup {BitIndex(n)}
    BY <1>1 DEF WordAt, SetNonceProcessed
  <2>2. BitIndex(m) = BitIndex(n) <=> m = n
    BY <1>1, WordAndBitIdentify
  <2> QED BY <2>1, <2>2 DEF IsNonceProcessed
<1>2. CASE WordIndex(m) # WordIndex(n)
  <2>1. WordAt(after, WordIndex(m)) = WordAt(words, WordIndex(m))
    BY <1>2 DEF WordAt, SetNonceProcessed
  <2>2. m # n
    BY <1>2
  <2> QED BY <2>1, <2>2 DEF IsNonceProcessed
<1> QED BY <1>1, <1>2

\* Storing a nonce yields a well-formed bitmap again.
LEMMA SetNonceType ==
    ASSUME NEW words, IsBitmap(words), NEW n \in Nat
    PROVE  IsBitmap(SetNonceProcessed(words, n))
<1>1. WordIndex(n) \in Nat /\ BitIndex(n) \in 0..255
  BY DEF WordIndex, BitIndex
<1> QED BY <1>1 DEF IsBitmap, SetNonceProcessed, WordAt

\* No word of the registry is ever zero: storing a nonce keeps it so.
LEMMA SetNonceNoZeroWord ==
    ASSUME NEW words, NEW n \in Nat,
           \A w \in DOMAIN words : words[w] # {}
    PROVE  \A w \in DOMAIN SetNonceProcessed(words, n) :
               SetNonceProcessed(words, n)[w] # {}
BY DEF SetNonceProcessed, WordAt

LEMMA EmptyBitmapFacts ==
    /\ IsBitmap(EmptyBitmap)
    /\ \A n : ~IsNonceProcessed(EmptyBitmap, n)
BY DEF IsBitmap, EmptyBitmap, IsNonceProcessed, WordAt

\* An event log keeps its entries and gains one at its end.
LEMMA LogAppend ==
    ASSUME NEW S, NEW log \in Seq(S), NEW e \in S
    PROVE  /\ Append(log, e) \in Seq(S)
           /\ Len(log) \in Nat
           /\ DOMAIN log = 1..Len(log)
           /\ DOMAIN Append(log, e) = 1..(Len(log) + 1)
           /\ Append(log, e)[Len(log) + 1] = e
           /\ \A i \in 1..Len(log) : Append(log, e)[i] = log[i] /\ log[i] \in S
OBVIOUS

\* A set of numbers has a least one.
LEMMA LeastNumber ==
    ASSUME NEW T \in SUBSET Nat, T # {}
    PROVE  \E m \in T : \A n \in T : m <= n
<1> DEFINE R == {p \in Nat \X Nat : p[1] < p[2]}
<1>1. R = OpToRel(<, Nat)
  BY DEF OpToRel
<1>2. IsWellFoundedOn(R, Nat)
  BY <1>1, NatLessThanWellFounded
<1> HIDE DEF R
<1>3. \E m \in T : \A n \in T : ~(<<n, m>> \in R)
  BY <1>2, WFMin
<1>4. PICK m \in T : \A n \in T : ~(<<n, m>> \in R)
  BY <1>3
<1>5. ASSUME NEW n \in T PROVE m <= n
  <2>1. ~(<<n, m>> \in R) /\ n \in Nat /\ m \in Nat
    BY <1>4
  <2>2. ~(n < m)
    BY <2>1 DEF R
  <2> QED BY <2>1, <2>2
<1> QED BY <1>5

\* Induction along a log of n events, for the set of positions at which a fact holds.
LEMMA EveryPosition ==
    ASSUME NEW n \in Nat, NEW T, 0 \in T, \A i \in 1 .. n : i - 1 \in T => i \in T
    PROVE  \A i \in 0 .. n : i \in T
<1> DEFINE Missing == {i \in 0 .. n : i \notin T}
<1>1. SUFFICES ASSUME Missing # {} PROVE FALSE
  OBVIOUS
<1>2. Missing \in SUBSET Nat
  OBVIOUS
<1>3. PICK m \in Missing : \A i \in Missing : m <= i
  BY <1>1, <1>2, LeastNumber
<1>4. m \in 1 .. n /\ m \notin T
  BY <1>3
<1>5. m - 1 \in 0 .. n /\ ~(m <= m - 1)
  BY <1>4
<1>6. m - 1 \notin Missing
  BY <1>3, <1>5
<1> QED BY <1>4, <1>5, <1>6

------------------------------------------------------------------------------
(***************************************************************************)
(* Sums.  The two ends of the bridge bound sums of amounts, over a log and *)
(* over accounts; a recursive function has its values because it can be    *)
(* extended by one value at a time.                                        *)
(***************************************************************************)

\* sum[i] is the sum of the first i values, up to n.
IsSum(sum, values, n) ==
    sum = [i \in 0..n |-> IF i = 0 THEN 0 ELSE sum[i - 1] + values[i]]

\* There are such sums,
LEMMA SumsExist ==
    ASSUME NEW values, NEW n \in Nat
    PROVE  \E sum : IsSum(sum, values, n)
<1> DEFINE T == {i \in 0..n : \E sum : IsSum(sum, values, i)}
<1>1. 0 \in T
  <2> DEFINE zero == [i \in 0..0 |-> 0]
  <2>1. IsSum(zero, values, 0)
    BY DEF IsSum
  <2> QED BY <2>1
<1>2. ASSUME NEW i \in 1..n, i - 1 \in T PROVE i \in T
  <2>1. PICK f : IsSum(f, values, i - 1)
    BY <1>2
  <2> DEFINE g == [j \in 0..i |-> IF j = i THEN f[i - 1] + values[i] ELSE f[j]]
  <2>2. ASSUME NEW j \in 0..i
        PROVE  g[j] = IF j = 0 THEN 0 ELSE g[j - 1] + values[j]
    <3>1. CASE j = i
      <4>1. j # 0 /\ j - 1 \in 0..i /\ j - 1 # i
        BY <3>1
      <4> QED BY <3>1, <4>1
    <3>2. CASE j = 0
      <4>1. 0 \in 0..(i - 1) /\ i # 0
        OBVIOUS
      <4>2. f[0] = 0
        BY <2>1, <4>1 DEF IsSum
      <4> QED BY <3>2, <4>1, <4>2
    <3>3. CASE j # i /\ j # 0
      <4>1. j \in 0..(i - 1) /\ j - 1 \in 0..i /\ j - 1 # i
        BY <3>3
      <4>2. f[j] = f[j - 1] + values[j]
        BY <2>1, <3>3, <4>1 DEF IsSum
      <4> QED BY <3>3, <4>1, <4>2
    <3> QED BY <3>1, <3>2, <3>3
  <2>3. IsSum(g, values, i)
    <3>1. g = [j \in 0..i |-> g[j]]
      OBVIOUS
    <3> HIDE DEF g
    <3> QED BY <2>2, <3>1 DEF IsSum
  <2> QED BY <2>3
<1> HIDE DEF T
<1>3. n \in T
  BY <1>1, <1>2, EveryPosition
<1> QED BY <1>3 DEF T

\* Total is the last of them,
LEMMA TotalIsSum ==
    ASSUME NEW values, NEW n \in Nat
    PROVE  \E sum : IsSum(sum, values, n) /\ Total(values, n) = sum[n]
<1> DEFINE sum == CHOOSE sum : IsSum(sum, values, n)
<1>1. Total(values, n) = sum[n]
  BY DEF Total, IsSum
<1>2. IsSum(sum, values, n)
  BY SumsExist
<1> QED BY <1>1, <1>2

\* and they agree as far as they reach.
LEMMA SumsAgree ==
    ASSUME NEW values, NEW n \in Nat, NEW m \in Nat, n <= m,
           NEW f, IsSum(f, values, n), NEW g, IsSum(g, values, m)
    PROVE  g[n] = f[n]
<1> DEFINE T == {i \in 0..n : g[i] = f[i]}
<1>1. 0 \in T
  BY DEF IsSum
<1>2. ASSUME NEW i \in 1..n, i - 1 \in T PROVE i \in T
  <2>1. i \in 0..n /\ i \in 0..m /\ i # 0
    OBVIOUS
  <2>2. f[i] = f[i - 1] + values[i]
    BY <2>1 DEF IsSum
  <2>3. g[i] = g[i - 1] + values[i]
    BY <2>1 DEF IsSum
  <2> QED BY <1>2, <2>1, <2>2, <2>3
<1> HIDE DEF T
<1>3. n \in T
  BY <1>1, <1>2, EveryPosition
<1> QED BY <1>3 DEF T

\* The two equations of Total: all that is used of it from here on.
LEMMA TotalZero == ASSUME NEW values PROVE Total(values, 0) = 0
<1>1. PICK sum : IsSum(sum, values, 0) /\ Total(values, 0) = sum[0]
  BY TotalIsSum
<1> QED BY <1>1 DEF IsSum

LEMMA TotalNext ==
    ASSUME NEW values, NEW n \in Nat
    PROVE  Total(values, n + 1) = Total(values, n) + values[n + 1]
<1>1. PICK f : IsSum(f, values, n) /\ Total(values, n) = f[n]
  BY TotalIsSum
<1>2. PICK g : IsSum(g, values, n + 1) /\ Total(values, n + 1) = g[n + 1]
  BY TotalIsSum
<1>3. g[n] = f[n]
  BY <1>1, <1>2, SumsAgree
<1>4. g[n + 1] = g[n] + values[n + 1]
  <2>1. n + 1 \in 0..(n + 1) /\ n + 1 # 0 /\ (n + 1) - 1 = n
    OBVIOUS
  <2> QED BY <1>2, <2>1 DEF IsSum
<1> QED BY <1>1, <1>2, <1>3, <1>4

LEMMA TotalTurn ==
    ASSUME NEW values, NEW n \in Nat, NEW i \in 1..n
    PROVE  Total(values, i) = Total(values, i - 1) + values[i]
<1>1. i - 1 \in Nat /\ (i - 1) + 1 = i
  OBVIOUS
<1> QED BY <1>1, TotalNext

LEMMA TotalNat ==
    ASSUME NEW values, NEW n \in Nat, \A i \in 1..n : values[i] \in Nat
    PROVE  Total(values, n) \in Nat
<1> DEFINE T == {i \in 0..n : Total(values, i) \in Nat}
<1>1. 0 \in T
  BY TotalZero
<1>2. ASSUME NEW i \in 1..n, i - 1 \in T PROVE i \in T
  BY <1>2, TotalTurn
<1> HIDE DEF T
<1>3. n \in T
  BY <1>1, <1>2, EveryPosition
<1> QED BY <1>3 DEF T

\* Equal values have equal sums.
LEMMA TotalSame ==
    ASSUME NEW values, NEW others, NEW n \in Nat, \A i \in 1..n : others[i] = values[i]
    PROVE  Total(others, n) = Total(values, n)
<1> DEFINE T == {i \in 0..n : Total(others, i) = Total(values, i)}
<1>1. 0 \in T
  BY TotalZero
<1>2. ASSUME NEW i \in 1..n, i - 1 \in T PROVE i \in T
  BY <1>2, TotalTurn
<1> HIDE DEF T
<1>3. n \in T
  BY <1>1, <1>2, EveryPosition
<1> QED BY <1>3 DEF T

\* A change of one value changes the sum by as much.
LEMMA TotalChange ==
    ASSUME NEW values, NEW others, NEW n \in Nat, NEW k \in 1..n, NEW d \in Int,
           \A i \in 1..n : values[i] \in Int,
           others[k] = values[k] + d, \A i \in 1..n : i # k => others[i] = values[i]
    PROVE  Total(others, n) = Total(values, n) + d
<1> DEFINE T == {i \in 0..n : /\ Total(values, i) \in Int
                              /\ Total(others, i) = Total(values, i) + (IF i < k THEN 0 ELSE d)}
<1>1. 0 \in T
  BY TotalZero
<1>2. ASSUME NEW i \in 1..n, i - 1 \in T PROVE i \in T
  <2>1. /\ Total(values, i) = Total(values, i - 1) + values[i]
        /\ Total(others, i) = Total(others, i - 1) + others[i]
    BY TotalTurn
  <2>2. values[i] \in Int /\ others[k] = values[k] + d /\ (i # k => others[i] = values[i])
    OBVIOUS
  <2>3. /\ Total(values, i - 1) \in Int
        /\ Total(others, i - 1) = Total(values, i - 1) + (IF i - 1 < k THEN 0 ELSE d)
    BY <1>2
  <2>4. CASE i = k
    <3>1. i - 1 < k /\ ~(i < k)
      BY <2>4
    <3> QED BY <2>1, <2>2, <2>3, <2>4, <3>1
  <2>5. CASE i < k
    <3>1. i - 1 < k /\ i # k
      BY <2>5
    <3> QED BY <2>1, <2>2, <2>3, <2>5, <3>1
  <2>6. CASE i > k
    <3>1. ~(i - 1 < k) /\ ~(i < k) /\ i # k
      BY <2>6
    <3> QED BY <2>1, <2>2, <2>3, <3>1
  <2> QED BY <2>4, <2>5, <2>6
<1> HIDE DEF T
<1>3. n \in T
  BY <1>1, <1>2, EveryPosition
<1>4. ~(n < k)
  OBVIOUS
<1> QED BY <1>3, <1>4 DEF T

------------------------------------------------------------------------------
(***************************************************************************)
(* LockBox.sol for any holders, committee, threshold, amounts and nonces.  *)
(*                                                                         *)
(* The inductive invariant adds to the properties where each lock nonce    *)
(* came from, a value of userNonce the depositor has passed, and what the  *)
(* contract's one running sum says of the blocks in the log.               *)
(***************************************************************************)

\* Every Locked event carries the hash of a userNonce already used up.
NoncesFromUsedCounters ==
    \A i \in DOMAIN lockEvents :
        \E n \in 0..MaxUserNonce :
            /\ n < userNonce[lockEvents[i].user]
            /\ lockEvents[i].block \in 1..MaxBlock
            /\ lockEvents[i].nonce
                  = NonceHash(lockEvents[i].user, n, lockEvents[i].block, lockEvents[i].amount)

\* The bitmap holds every nonce that was paid out.
PaidNoncesRecorded ==
    \A i \in DOMAIN unlockEvents : IsNonceProcessed(nonceBitmap, unlockEvents[i].nonce)

EscrowInv == LockBoxTypeOK /\ Solvent
LocksInv  == NoncesFromUsedCounters /\ LockNoncesUnique
UnlockInv == PaidNoncesRecorded /\ UnlockedOnce

------------------------------------------------------------------------------
LEMMA LockBoxInitHolds == LockBoxInit => EscrowInv /\ LocksInv /\ UnlockInv
<1> SUFFICES ASSUME LockBoxInit PROVE EscrowInv /\ LocksInv /\ UnlockInv
  OBVIOUS
<1>1. LockBoxTypeOK
  <2>1. tokens \in [TokenHolders \cup {Escrow} -> Nat] /\ userNonce \in [TokenHolders -> 0..MaxUserNonce]
    BY LockBoxParams DEF LockBoxInit
  <2>2. IsBitmap(nonceBitmap)
    BY EmptyBitmapFacts DEF LockBoxInit
  <2>3. blockNumber \in 1..MaxBlock /\ lastUnlockBlock \in 0..blockNumber
        /\ currentBlockUnlockAmount \in 0..MaxUnlockPerBlock
    BY LockBoxParams DEF LockBoxInit
  <2>4. lockEvents \in Seq(LockEvent) /\ unlockEvents \in Seq(UnlockEvent)
    BY DEF LockBoxInit
  <2> QED BY <2>1, <2>2, <2>3, <2>4 DEF LockBoxInit, LockBoxTypeOK
<1>2. Solvent
  BY LockBoxParams DEF LockBoxInit, Solvent
<1> QED
  BY <1>1, <1>2 DEF LockBoxInit, EscrowInv, LocksInv, UnlockInv, NoncesFromUsedCounters,
     LockNoncesUnique, PaidNoncesRecorded, UnlockedOnce

\* A payment moves the amount and nothing else.
LEMMA Payment ==
    ASSUME LockBoxTypeOK, NEW from \in TokenHolders \cup {Escrow}, NEW to \in TokenHolders \cup {Escrow},
           from # to, NEW amount \in Amounts, PayToken(from, to, amount)
    PROVE  /\ tokens' \in [TokenHolders \cup {Escrow} -> Nat]
           /\ amount \in Nat
           /\ tokens'[from] = tokens[from] - amount
           /\ tokens'[to] = tokens[to] + amount
           /\ \A a \in TokenHolders \cup {Escrow} : a \notin {from, to} => tokens'[a] = tokens[a]
<1> DEFINE A == TokenHolders \cup {Escrow}
<1>1. tokens \in [A -> Nat] /\ amount \in Nat /\ tokens[from] >= amount
      /\ tokens' = [tokens EXCEPT ![from] = @ - amount, ![to] = @ + amount]
  BY LockBoxParams DEF LockBoxTypeOK, PayToken
<1>2. from \in A /\ to \in A
  OBVIOUS
<1> HIDE DEF A
<1>3. tokens' \in [A -> Nat]
  BY <1>1, <1>2
<1>4. /\ tokens'[from] = tokens[from] - amount
      /\ tokens'[to] = tokens[to] + amount
      /\ \A a \in A : a \notin {from, to} => tokens'[a] = tokens[a]
  BY <1>1, <1>2
<1> QED BY <1>1, <1>3, <1>4 DEF A

\* No call of any caller breaks the types or leaves the escrow short.
LEMMA EscrowStep == EscrowInv /\ [LockBoxNext]_lockBoxVars => EscrowInv'
<1> SUFFICES ASSUME LockBoxTypeOK, Solvent, [LockBoxNext]_lockBoxVars PROVE EscrowInv'
  BY DEF EscrowInv
<1> USE DEF EscrowInv
<1>1. ASSUME NEW u \in TokenHolders, NEW a \in Amounts, NEW r \in CosmosRecipients, Lock(u, a, r)
      PROVE  EscrowInv'
  <2> DEFINE e == [user |-> u, amount |-> a, recipient |-> r,
                   nonce |-> NonceHash(u, userNonce[u], blockNumber, a), block |-> blockNumber]
  <2>1. /\ tokens' \in [TokenHolders \cup {Escrow} -> Nat] /\ a \in Nat
        /\ tokens'[Escrow] = tokens[Escrow] + a
    <3>1. u # Escrow /\ PayToken(u, Escrow, a)
      BY <1>1, LockBoxParams DEF Lock, LockNonce
    <3> QED BY <3>1, Payment
  <2>2. e \in LockEvent
    <3>1. <<u, userNonce[u], blockNumber, a>> \in LockPreimages
      BY DEF LockPreimages, LockBoxTypeOK
    <3>2. NonceHash(u, userNonce[u], blockNumber, a) \in Nat
      BY <3>1, NonceHashParams
    <3>3. blockNumber \in Nat
      BY LockBoxParams DEF LockBoxTypeOK
    <3> QED BY <3>2, <3>3 DEF LockEvent
  <2>3. lockEvents' \in Seq(LockEvent)
    BY <1>1, <2>2, LogAppend DEF Lock, LockNonce, LockBoxTypeOK
  <2>4. userNonce' \in [TokenHolders -> 0..MaxUserNonce] /\ totalLocked' \in Nat
    BY <1>1, <2>1, LockBoxParams DEF Lock, LockNonce, LockBoxTypeOK
  <2>5. LockBoxTypeOK'
    BY <1>1, <2>1, <2>3, <2>4 DEF Lock, LockNonce, LockBoxTypeOK, unlockVars, pauseVars
  <2>6. Solvent'
    BY <1>1, <2>1 DEF Lock, LockNonce, Solvent, unlockVars, LockBoxTypeOK
  <2> QED BY <2>5, <2>6
<1>2. ASSUME NEW u \in TokenHolders, NEW a \in Amounts, NEW n \in UnlockNonces,
             NEW s \in UnlockSignatures, Unlock(u, a, n, s)
      PROVE  EscrowInv'
  <2>1. /\ tokens' \in [TokenHolders \cup {Escrow} -> Nat] /\ a \in Nat
        /\ tokens'[Escrow] = tokens[Escrow] - a
    <3>1. u # Escrow /\ PayToken(Escrow, u, a)
      BY <1>2, LockBoxParams DEF Unlock
    <3> QED BY <3>1, Payment
  <2>2. unlockEvents' \in Seq(UnlockEvent)
    <3>1. [user |-> u, amount |-> a, nonce |-> n, block |-> blockNumber] \in UnlockEvent
      BY LockBoxParams DEF UnlockEvent, LockBoxTypeOK
    <3> QED BY <1>2, <3>1, LogAppend DEF Unlock, LockBoxTypeOK
  <2>3. IsBitmap(nonceBitmap')
    BY <1>2, SetNonceType, LockBoxParams DEF Unlock, LockBoxTypeOK
  <2>4. currentBlockUnlockAmount' \in 0..MaxUnlockPerBlock /\ totalReleasedToUsers' \in Nat
    BY <1>2, <2>1, LockBoxParams DEF Unlock, BlockUnlockAmount, LockBoxTypeOK
  <2>5. lastUnlockBlock' \in 0..blockNumber'
    BY <1>2, LockBoxParams DEF Unlock, LockBoxTypeOK
  <2>6. LockBoxTypeOK'
    BY <1>2, <2>1, <2>2, <2>3, <2>4, <2>5 DEF Unlock, LockBoxTypeOK, lockVars, pauseVars
  <2>7. Solvent'
    BY <1>2, <2>1 DEF Unlock, Solvent, lockVars, LockBoxTypeOK
  <2> QED BY <2>6, <2>7
<1>3. CASE Administer
  <2>1. UNCHANGED <<tokens, blockNumber, lockVars, unlockVars>>
        /\ paused' \in BOOLEAN /\ circuitBreaker' \in Guardians
    BY <1>3 DEF Administer, Pause, Unpause, RotateCircuitBreaker, LockBoxTypeOK
  <2> QED BY <2>1 DEF LockBoxTypeOK, Solvent, lockVars, unlockVars
<1>4. ASSUME NEW u \in TokenHolders, NEW a \in Amounts, NEW to \in TokenHolders \cup {Escrow},
             TransferToken(u, to, a)
      PROVE  EscrowInv'
  <2>1. /\ tokens' \in [TokenHolders \cup {Escrow} -> Nat]
        /\ tokens'[Escrow] >= tokens[Escrow]
    <3>1. u # Escrow /\ tokens[Escrow] \in Nat
      BY LockBoxParams DEF LockBoxTypeOK
    <3>2. PayToken(u, to, a) /\ u # to
      BY <1>4 DEF TransferToken
    <3>3. /\ tokens' \in [TokenHolders \cup {Escrow} -> Nat] /\ a \in Nat
          /\ tokens'[to] = tokens[to] + a
          /\ \A x \in TokenHolders \cup {Escrow} : x \notin {u, to} => tokens'[x] = tokens[x]
      BY <3>2, Payment
    <3>4. CASE to = Escrow
      BY <3>1, <3>3, <3>4
    <3>5. CASE to # Escrow
      <4>1. tokens'[Escrow] = tokens[Escrow]
        BY <3>1, <3>3, <3>5
      <4> QED BY <4>1, <3>1, <3>3
    <3> QED BY <3>4, <3>5
  <2> QED
    BY <1>4, <2>1 DEF TransferToken, LockBoxTypeOK, Solvent, lockVars, unlockVars, pauseVars
<1>5. CASE NextBlock
  <2>1. blockNumber' \in 1..MaxBlock /\ lastUnlockBlock' \in 0..blockNumber'
    BY <1>5, LockBoxParams DEF NextBlock, LockBoxTypeOK, unlockVars
  <2> QED BY <1>5, <2>1 DEF NextBlock, LockBoxTypeOK, Solvent, lockVars, unlockVars, pauseVars
<1>6. CASE UNCHANGED lockBoxVars
  BY <1>6 DEF lockBoxVars, LockBoxTypeOK, Solvent, lockVars, unlockVars, pauseVars
<1> QED BY <1>1, <1>2, <1>3, <1>4, <1>5, <1>6 DEF LockBoxNext

------------------------------------------------------------------------------
\* Only Lock touches the counters and the log of deposits; its nonce hashes a
\* counter value no earlier event of the depositor used.
LEMMA LocksStep == EscrowInv /\ LocksInv /\ [LockBoxNext]_lockBoxVars => LocksInv'
<1> SUFFICES ASSUME LockBoxTypeOK, LocksInv, [LockBoxNext]_lockBoxVars PROVE LocksInv'
  BY DEF EscrowInv
<1> USE DEF LocksInv
<1>1. ASSUME NEW u \in TokenHolders, NEW a \in Amounts, NEW r \in CosmosRecipients, Lock(u, a, r)
      PROVE  LocksInv'
  <2> DEFINE n0 == userNonce[u]
             e  == [user |-> u, amount |-> a, recipient |-> r,
                    nonce |-> NonceHash(u, n0, blockNumber, a), block |-> blockNumber]
             L  == Len(lockEvents)
  <2>1. /\ n0 \in 0..MaxUserNonce /\ n0 < MaxUserNonce
        /\ <<u, n0, blockNumber, a>> \in LockPreimages
        /\ blockNumber \in 1..MaxBlock /\ blockNumber \in Nat
    BY <1>1, LockBoxParams DEF Lock, LockNonce, LockBoxTypeOK, LockPreimages
  <2>2. e \in LockEvent
    BY <2>1, NonceHashParams DEF LockEvent
  <2>3. /\ L \in Nat /\ DOMAIN lockEvents = 1..L /\ DOMAIN lockEvents' = 1..(L + 1)
        /\ lockEvents'[L + 1] = e
        /\ \A i \in 1..L : lockEvents'[i] = lockEvents[i] /\ lockEvents[i] \in LockEvent
    <3>1. lockEvents' = Append(lockEvents, e) /\ lockEvents \in Seq(LockEvent)
      BY <1>1 DEF Lock, LockNonce, LockBoxTypeOK
    <3> HIDE DEF e
    <3> QED BY <2>2, <3>1, LogAppend
  <2>4. \A v \in TokenHolders : userNonce'[v] = IF v = u THEN n0 + 1 ELSE userNonce[v]
    BY <1>1 DEF Lock, LockNonce, LockBoxTypeOK
  <2>5. \A i \in 1..L :
           \E n \in 0..MaxUserNonce :
              /\ n < userNonce[lockEvents[i].user]
              /\ lockEvents[i].block \in 1..MaxBlock
              /\ lockEvents[i].nonce
                    = NonceHash(lockEvents[i].user, n, lockEvents[i].block, lockEvents[i].amount)
    BY <2>3 DEF NoncesFromUsedCounters
  <2>6. \A i \in 1..L : lockEvents[i].user \in TokenHolders /\ lockEvents[i].amount \in Amounts
    BY <2>3 DEF LockEvent
  <2>7. \A i \in 1..L : lockEvents[i].nonce # NonceHash(u, n0, blockNumber, a)
    <3> SUFFICES ASSUME NEW i \in 1..L, lockEvents[i].nonce = NonceHash(u, n0, blockNumber, a)
                 PROVE  FALSE
      OBVIOUS
    <3> DEFINE v == lockEvents[i].user
               b == lockEvents[i].block
               c == lockEvents[i].amount
    <3>1. PICK n \in 0..MaxUserNonce :
             n < userNonce[v] /\ b \in 1..MaxBlock /\ lockEvents[i].nonce = NonceHash(v, n, b, c)
      BY <2>5
    <3>2. <<v, n, b, c>> \in LockPreimages
      BY <2>6, <3>1 DEF LockPreimages
    <3>3. <<v, n, b, c>> = <<u, n0, blockNumber, a>>
      <4> DEFINE p == <<v, n, b, c>>
                 q == <<u, n0, blockNumber, a>>
      <4>1. NonceHash(p[1], p[2], p[3], p[4]) = NonceHash(q[1], q[2], q[3], q[4])
        BY <3>1
      <4>2. p \in LockPreimages /\ q \in LockPreimages
        BY <2>1, <3>2
      <4> HIDE DEF p, q
      <4>3. p = q
        BY <4>1, <4>2, NonceHashParams
      <4> QED BY <4>3 DEF p, q
    <3>4. v = u /\ n = n0
      BY <3>3
    <3> QED BY <3>1, <3>4, <2>1
  <2>8. NoncesFromUsedCounters'
    <3> SUFFICES ASSUME NEW i \in 1..(L + 1)
                 PROVE  \E n \in 0..MaxUserNonce :
                           /\ n < userNonce'[lockEvents'[i].user]
                           /\ lockEvents'[i].block \in 1..MaxBlock
                           /\ lockEvents'[i].nonce
                                 = NonceHash(lockEvents'[i].user, n, lockEvents'[i].block, lockEvents'[i].amount)
      BY <2>3 DEF NoncesFromUsedCounters
    <3>1. CASE i = L + 1
      <4>1. lockEvents'[i] = e /\ userNonce'[u] = n0 + 1 /\ n0 < n0 + 1
        BY <3>1, <2>1, <2>3, <2>4
      <4> QED BY <4>1, <2>1
    <3>2. CASE i \in 1..L
      <4>1. lockEvents'[i] = lockEvents[i] /\ lockEvents[i].user \in TokenHolders
        BY <3>2, <2>3, <2>6
      <4>2. userNonce[lockEvents[i].user] \in Nat /\ userNonce'[lockEvents[i].user] \in Nat
            /\ userNonce[lockEvents[i].user] <= userNonce'[lockEvents[i].user]
        <5>1. \A v \in TokenHolders : userNonce[v] \in Nat
          BY LockBoxParams DEF LockBoxTypeOK
        <5>2. \A v \in TokenHolders : userNonce'[v] \in Nat /\ userNonce[v] <= userNonce'[v]
          BY <2>1, <2>4, <5>1
        <5> QED BY <4>1, <5>1, <5>2
      <4>3. PICK n \in 0..MaxUserNonce :
              /\ n < userNonce[lockEvents[i].user]
              /\ lockEvents[i].block \in 1..MaxBlock
              /\ lockEvents[i].nonce
                    = NonceHash(lockEvents[i].user, n, lockEvents[i].block, lockEvents[i].amount)
        BY <3>2, <2>5
      <4>4. n < userNonce'[lockEvents[i].user]
        BY <4>2, <4>3
      <4> QED BY <4>1, <4>3, <4>4
    <3> QED BY <2>3, <3>1, <3>2
  <2>9. LockNoncesUnique'
    BY <2>3, <2>7 DEF LockNoncesUnique
  <2> QED BY <2>8, <2>9
<1>2. ASSUME UNCHANGED lockVars
      PROVE  LocksInv'
  BY <1>2 DEF lockVars, NoncesFromUsedCounters, LockNoncesUnique
<1> QED
  BY <1>1, <1>2 DEF LockBoxNext, lockBoxVars, Unlock, Administer, Pause, Unpause,
     RotateCircuitBreaker, TransferToken, NextBlock

\* Only Unlock touches the bitmap and the log of payments.
LEMMA UnlockStep == EscrowInv /\ UnlockInv /\ [LockBoxNext]_lockBoxVars => UnlockInv'
<1> SUFFICES ASSUME LockBoxTypeOK, UnlockInv, [LockBoxNext]_lockBoxVars PROVE UnlockInv'
  BY DEF EscrowInv
<1> USE DEF UnlockInv
<1>1. ASSUME NEW u \in TokenHolders, NEW a \in Amounts, NEW n \in UnlockNonces,
             NEW s \in UnlockSignatures, Unlock(u, a, n, s)
      PROVE  UnlockInv'
  <2> DEFINE e == [user |-> u, amount |-> a, nonce |-> n, block |-> blockNumber]
             L == Len(unlockEvents)
  <2>1. /\ ~IsNonceProcessed(nonceBitmap, n)
        /\ nonceBitmap' = SetNonceProcessed(nonceBitmap, n)
        /\ unlockEvents' = Append(unlockEvents, e)
    BY <1>1 DEF Unlock
  <2>2. e \in UnlockEvent /\ e.nonce = n
    BY LockBoxParams DEF UnlockEvent, LockBoxTypeOK
  <2>3. /\ L \in Nat /\ DOMAIN unlockEvents = 1..L /\ DOMAIN unlockEvents' = 1..(L + 1)
        /\ unlockEvents'[L + 1].nonce = n
        /\ \A i \in 1..L : unlockEvents'[i] = unlockEvents[i] /\ unlockEvents[i].nonce \in Nat
    <3>1. \A x \in UnlockEvent : x.nonce \in Nat
      BY LockBoxParams DEF UnlockEvent
    <3>2. unlockEvents \in Seq(UnlockEvent)
      BY DEF LockBoxTypeOK
    <3> HIDE DEF e
    <3> QED BY <2>1, <2>2, <3>1, <3>2, LogAppend
  <2>4. n \in Nat
    BY LockBoxParams
  <2>5. \A i \in 1..L : unlockEvents[i].nonce # n
    BY <2>1, <2>3 DEF PaidNoncesRecorded
  <2>6. PaidNoncesRecorded'
    <3>1. \A i \in 1..L : IsNonceProcessed(nonceBitmap', unlockEvents'[i].nonce)
      BY <2>1, <2>3, <2>4, SetNonceExact DEF PaidNoncesRecorded
    <3>2. IsNonceProcessed(nonceBitmap', unlockEvents'[L + 1].nonce)
      BY <2>1, <2>3, <2>4, SetNonceExact
    <3> QED BY <2>3, <3>1, <3>2 DEF PaidNoncesRecorded
  <2>7. UnlockedOnce'
    BY <2>3, <2>5 DEF UnlockedOnce
  <2> QED BY <2>6, <2>7
<1>2. ASSUME UNCHANGED unlockVars
      PROVE  UnlockInv'
  BY <1>2 DEF unlockVars, PaidNoncesRecorded, UnlockedOnce
<1> QED
  BY <1>1, <1>2 DEF LockBoxNext, lockBoxVars, Lock, Administer, Pause, Unpause,
     RotateCircuitBreaker, TransferToken, NextBlock

------------------------------------------------------------------------------
(***************************************************************************)
(* The rate limit.  What a block has released is a sum over the log; the   *)
(* contract keeps the sum of the last block that paid, and nothing else.   *)
(***************************************************************************)

LEMMA NothingReleasedYet == ASSUME NEW block PROVE ReleasedIn(<<>>, block) = 0
BY TotalZero DEF ReleasedIn

\* The amounts of a log of Unlocked events add up to a number.
LEMMA ReleasedNat ==
    ASSUME NEW log \in Seq(UnlockEvent), NEW block
    PROVE  ReleasedIn(log, block) \in Nat
<1> DEFINE n == Len(log)
           values == [i \in DOMAIN log |-> IF log[i].block = block THEN log[i].amount ELSE 0]
<1>1. n \in Nat /\ DOMAIN log = 1..n /\ \A i \in 1..n : log[i].amount \in Nat
  <2>1. \A i \in 1..n : log[i] \in UnlockEvent
    OBVIOUS
  <2>2. \A x \in UnlockEvent : x.amount \in Nat
    BY LockBoxParams DEF UnlockEvent
  <2> QED BY <2>1, <2>2
<1> HIDE DEF n
<1>2. \A i \in 1..n : values[i] \in Nat
  BY <1>1
<1> HIDE DEF values
<1>3. Total(values, n) \in Nat
  BY <1>1, <1>2, TotalNat
<1> QED BY <1>3 DEF ReleasedIn, values, n

\* An event adds its amount to its own block and nothing to any other.
LEMMA ReleasedAppend ==
    ASSUME NEW S, NEW log \in Seq(S), NEW e \in S, NEW block
    PROVE  ReleasedIn(Append(log, e), block)
              = ReleasedIn(log, block) + (IF e.block = block THEN e.amount ELSE 0)
<1> DEFINE longer == Append(log, e)
           n == Len(log)
           Part(l) == [i \in DOMAIN l |-> IF l[i].block = block THEN l[i].amount ELSE 0]
<1>1. /\ n \in Nat /\ Len(longer) = n + 1 /\ longer[n + 1] = e
      /\ DOMAIN log = 1..n /\ DOMAIN longer = 1..(n + 1)
      /\ \A i \in 1..n : longer[i] = log[i]
  <2>1. Len(longer) = n + 1
    OBVIOUS
  <2> QED BY <2>1, LogAppend
<1> HIDE DEF longer, n
<1>2. /\ \A i \in 1..n : Part(longer)[i] = Part(log)[i]
      /\ Part(longer)[n + 1] = IF e.block = block THEN e.amount ELSE 0
  BY <1>1
<1>3. ReleasedIn(log, block) = Total(Part(log), n) /\ ReleasedIn(longer, block) = Total(Part(longer), n + 1)
  BY <1>1 DEF ReleasedIn, n
<1> HIDE DEF Part
<1>4. Total(Part(longer), n + 1) = Total(Part(longer), n) + Part(longer)[n + 1]
  BY <1>1, TotalNext
<1>5. Total(Part(longer), n) = Total(Part(log), n)
  BY <1>1, <1>2, TotalSame
<1> QED BY <1>2, <1>3, <1>4, <1>5 DEF longer

\* currentBlockUnlockAmount is the sum of the block that paid last, no later
\* block has paid, and no block has exceeded the limit.
LastBlockCounted == ReleasedIn(unlockEvents, lastUnlockBlock) = currentBlockUnlockAmount
LaterBlocksEmpty ==
    \A b \in 1..MaxBlock : b > lastUnlockBlock => ReleasedIn(unlockEvents, b) = 0
RateInv == LastBlockCounted /\ LaterBlocksEmpty /\ BlockLimit

LEMMA RateInit == LockBoxInit => RateInv
<1>1. 0 <= MaxUnlockPerBlock
  BY LockBoxParams
<1> QED
  BY <1>1, NothingReleasedYet DEF LockBoxInit, RateInv, LastBlockCounted, LaterBlocksEmpty, BlockLimit

\* Only Unlock releases; what it adds, it adds to the running block.
LEMMA RateStep == LockBoxTypeOK /\ RateInv /\ [LockBoxNext]_lockBoxVars => RateInv'
<1> SUFFICES ASSUME LockBoxTypeOK, RateInv, [LockBoxNext]_lockBoxVars PROVE RateInv'
  OBVIOUS
<1> USE DEF RateInv
<1>1. ASSUME NEW u \in TokenHolders, NEW a \in Amounts, NEW n \in UnlockNonces,
             NEW s \in UnlockSignatures, Unlock(u, a, n, s)
      PROVE  RateInv'
  <2> DEFINE e == [user |-> u, amount |-> a, nonce |-> n, block |-> blockNumber]
             R(b) == ReleasedIn(unlockEvents, b)
             Q(b) == ReleasedIn(unlockEvents', b)
  <2>1. /\ unlockEvents' = Append(unlockEvents, e)
        /\ lastUnlockBlock' = blockNumber
        /\ currentBlockUnlockAmount' = BlockUnlockAmount(a)
        /\ BlockUnlockAmount(a) <= MaxUnlockPerBlock
    BY <1>1 DEF Unlock
  <2>2. /\ blockNumber \in 1..MaxBlock /\ lastUnlockBlock \in 0..blockNumber
        /\ a \in Nat /\ currentBlockUnlockAmount \in Nat /\ MaxUnlockPerBlock \in Nat /\ MaxBlock \in Nat
    BY LockBoxParams DEF LockBoxTypeOK
  <2>3. \A b : Q(b) = R(b) + (IF blockNumber = b THEN a ELSE 0)
    <3>1. e \in UnlockEvent /\ unlockEvents \in Seq(UnlockEvent)
      BY LockBoxParams DEF UnlockEvent, LockBoxTypeOK
    <3>2. e.block = blockNumber /\ e.amount = a
      OBVIOUS
    <3> HIDE DEF e
    <3> QED BY <2>1, <3>1, <3>2, ReleasedAppend
  <2>4. R(lastUnlockBlock) = currentBlockUnlockAmount
    BY DEF LastBlockCounted
  <2>5. \A b \in 1..MaxBlock : b > lastUnlockBlock => R(b) = 0
    BY DEF LaterBlocksEmpty
  <2>6. \A b \in 1..MaxBlock : R(b) <= MaxUnlockPerBlock
    BY DEF BlockLimit
  <2> HIDE DEF R, Q
  <2>7. Q(blockNumber) = BlockUnlockAmount(a)
    <3>1. CASE blockNumber > lastUnlockBlock
      <4>1. R(blockNumber) = 0
        BY <2>2, <2>5, <3>1
      <4> QED BY <2>2, <2>3, <3>1, <4>1 DEF BlockUnlockAmount
    <3>2. CASE ~(blockNumber > lastUnlockBlock)
      <4>1. lastUnlockBlock = blockNumber
        BY <2>2, <3>2
      <4> QED BY <2>2, <2>3, <2>4, <4>1 DEF BlockUnlockAmount
    <3> QED BY <3>1, <3>2
  <2>8. LastBlockCounted'
    BY <2>1, <2>7 DEF LastBlockCounted, Q
  <2>9. ASSUME NEW b \in 1..MaxBlock, b > blockNumber PROVE Q(b) = 0
    <3>1. b # blockNumber /\ b > lastUnlockBlock
      BY <2>2, <2>9
    <3> QED BY <2>3, <2>5, <3>1
  <2>10. ASSUME NEW b \in 1..MaxBlock PROVE Q(b) <= MaxUnlockPerBlock
    <3>1. CASE b = blockNumber
      BY <2>1, <2>7, <3>1
    <3>2. CASE b # blockNumber
      <4>1. CASE b > lastUnlockBlock
        BY <2>2, <2>3, <2>5, <3>2, <4>1
      <4>2. CASE b = lastUnlockBlock
        <5>1. currentBlockUnlockAmount <= MaxUnlockPerBlock
          BY DEF LockBoxTypeOK
        <5> QED BY <2>2, <2>3, <2>4, <3>2, <4>2, <5>1
      <4>3. CASE b < lastUnlockBlock
        <5>1. R(b) \in Nat
          BY ReleasedNat DEF LockBoxTypeOK, R
        <5> QED BY <2>3, <2>6, <3>2, <5>1
      <4> QED BY <2>2, <4>1, <4>2, <4>3
    <3> QED BY <3>1, <3>2
  <2>11. LaterBlocksEmpty' /\ BlockLimit'
    BY <2>1, <2>9, <2>10 DEF LaterBlocksEmpty, BlockLimit, Q
  <2> QED BY <2>8, <2>11
<1>2. ASSUME UNCHANGED unlockVars
      PROVE  RateInv'
  BY <1>2 DEF unlockVars, LastBlockCounted, LaterBlocksEmpty, BlockLimit
<1> QED
  BY <1>1, <1>2 DEF LockBoxNext, lockBoxVars, Lock, Administer, Pause, Unpause,
     RotateCircuitBreaker, TransferToken, NextBlock

------------------------------------------------------------------------------
LEMMA LockBoxAlways == LockBoxSpec => [](EscrowInv /\ LocksInv /\ UnlockInv /\ RateInv)
<1>1. EscrowInv => LockBoxTypeOK
  BY DEF EscrowInv
<1> QED
  BY <1>1, LockBoxInitHolds, RateInit, EscrowStep, LocksStep, UnlockStep, RateStep, PTL DEF LockBoxSpec

\* The contract can always pay what it owes: its token balance covers locked
\* less released, under any calls, transfers and pauses.
THEOREM EscrowCoversPending == LockBoxSpec => []Solvent
<1>1. EscrowInv => Solvent
  BY DEF EscrowInv
<1> QED BY <1>1, LockBoxAlways, PTL

\* unlock() pays each nonce once, whatever quorums sign and in any order.
THEOREM NoNonceUnlocksTwice == LockBoxSpec => []UnlockedOnce
<1>1. UnlockInv => UnlockedOnce
  BY DEF UnlockInv
<1> QED BY <1>1, LockBoxAlways, PTL

\* lock() never issues a nonce twice: the counter alone, not the block or the
\* amount, tells two deposits of one account apart.
THEOREM DepositsHaveOwnNonces == LockBoxSpec => []LockNoncesUnique
<1>1. LocksInv => LockNoncesUnique
  BY DEF LocksInv
<1> QED BY <1>1, LockBoxAlways, PTL

\* unlock() releases at most maxUnlockPerBlock in a block: the one running sum
\* the contract keeps is enough, however calls and blocks alternate.
THEOREM NoBlockOverLimit == LockBoxSpec => []BlockLimit
<1>1. RateInv => BlockLimit
  BY DEF RateInv
<1> QED BY <1>1, LockBoxAlways, PTL

------------------------------------------------------------------------------
(***************************************************************************)
(* x/bridge for any number of accounts, relayers, keys and nonces.         *)
(*                                                                         *)
(* Two inductive invariants.  Accounting relates the module's own count to *)
(* the cap and to x/bank; it survives a restart from an exported genesis.  *)
(* Replay relates the nonce registry to the mints; it is what a restart    *)
(* breaks, so it is proved of KeeperSpec only.                             *)
(***************************************************************************)

Accounting == KeeperTypeOK /\ SupplyInvariant /\ CirculationIsSupply
Replay     == RegistryMatchesMints /\ MintedOnce

------------------------------------------------------------------------------
LEMMA CoinsArithmetic ==
    ASSUME NEW c1 \in Coins, NEW c2 \in Coins
    PROVE  /\ Plus(c1, c2) \in Coins
           /\ Covers(c1, c2) => Minus(c1, c2) \in Coins
BY DEF Coins, Denoms, Plus, Minus, Covers

LEMMA MessageCoins ==
    ASSUME NEW c \in Deposits \cup Withdrawals
    PROVE  c \in Coins /\ c["uwsov"] \in Nat
BY BridgeParams DEF Coins, Denoms

LEMMA AccountingInit == KeeperInit => Accounting
<1> SUFFICES ASSUME KeeperInit PROVE Accounting
  OBVIOUS
<1>1. balances \in [Accounts -> Coins]
  BY BridgeParams DEF KeeperInit, Coins, Denoms
<1>2. KeeperTypeOK
  BY <1>1, BridgeParams, EmptyBitmapFacts DEF KeeperInit, KeeperTypeOK
<1> QED
  BY <1>2, BridgeParams DEF KeeperInit, Accounting, SupplyInvariant, CirculationIsSupply

\* Registries stay registries when governance adds or removes a relayer.
LEMMA RegistryUpdates ==
    ASSUME NEW R \in Registries, NEW a \in RelayerAddrs
    PROVE  /\ \A k \in PubKeys :
              [x \in DOMAIN R \cup {a} |-> IF x = a THEN k ELSE R[x]] \in Registries
           /\ [x \in DOMAIN R \ {a} |-> R[x]] \in Registries
<1>1. PICK A \in SUBSET RelayerAddrs : R \in [A -> PubKeys]
  BY DEF Registries
<1>2. A \cup {a} \in SUBSET RelayerAddrs /\ A \ {a} \in SUBSET RelayerAddrs
  OBVIOUS
<1>3. \A k \in PubKeys :
        [x \in DOMAIN R \cup {a} |-> IF x = a THEN k ELSE R[x]] \in [A \cup {a} -> PubKeys]
  BY <1>1
<1>4. [x \in DOMAIN R \ {a} |-> R[x]] \in [A \ {a} -> PubKeys]
  BY <1>1
<1> QED BY <1>2, <1>3, <1>4 DEF Registries

\* Every message, governance update, payment and restart keeps the accounts.
LEMMA AccountingStep ==
    Accounting /\ [KeeperNext \/ ExportImportGenesis]_keeperVars => Accounting'
<1> SUFFICES ASSUME Accounting, [KeeperNext \/ ExportImportGenesis]_keeperVars
             PROVE  Accounting'
  OBVIOUS
<1> USE DEF Accounting, KeeperTypeOK, SupplyInvariant, CirculationIsSupply
<1>1. ASSUME NEW r \in Accounts, NEW c \in Deposits, NEW n \in Nonces, NEW s \in SignatureSets,
             BridgeIn(r, c, n, s)
      PROVE  Accounting'
  <2>1. n \in Nat /\ c \in Coins /\ c["uwsov"] \in Nat
    BY BridgeParams, MessageCoins
  <2>2. IsBitmap(bitmap')
    BY <1>1, <2>1, SetNonceType DEF BridgeIn, WithinCap
  <2>3. balances' \in [Accounts -> Coins]
    BY <1>1, <2>1, CoinsArithmetic DEF BridgeIn, WithinCap
  <2>4. /\ cosmosMinted' \in Nat /\ wrappedSupply' = cosmosMinted'
        /\ cosmosMinted' <= SupplyCap
    BY <1>1, <2>1 DEF BridgeIn, WithinCap
  <2>5. inEvents' \in Seq(InEvent)
    BY <1>1 DEF BridgeIn, WithinCap, InEvent
  <2> QED BY <1>1, <2>2, <2>3, <2>4, <2>5 DEF BridgeIn, WithinCap
<1>2. ASSUME NEW a \in Accounts, NEW u \in BscUsers, NEW c \in Withdrawals,
             BridgeOut(a, u, c)
      PROVE  Accounting'
  <2>1. c \in Coins /\ c["uwsov"] \in Nat
    BY MessageCoins
  <2>2. balances' \in [Accounts -> Coins]
    BY <1>2, <2>1, CoinsArithmetic DEF BridgeOut
  <2>3. /\ cosmosMinted' \in Nat /\ wrappedSupply' = cosmosMinted'
        /\ cosmosMinted' <= SupplyCap
    BY <1>2, <2>1, BridgeParams DEF BridgeOut
  <2>4. outEvents' \in Seq(OutEvent)
    BY <1>2 DEF BridgeOut, OutEvent
  <2> QED BY <1>2, <2>2, <2>3, <2>4 DEF BridgeOut
<1>3. ASSUME NEW a \in RelayerAddrs, NEW k \in PubKeys, SetRelayer(a, k)
      PROVE  Accounting'
  BY <1>3, RegistryUpdates DEF SetRelayer
<1>4. ASSUME NEW a \in RelayerAddrs, DeleteRelayer(a)
      PROVE  Accounting'
  BY <1>4, RegistryUpdates DEF DeleteRelayer
<1>5. ASSUME NEW a \in Accounts, NEW b \in Accounts, NEW c \in Withdrawals, Transfer(a, b, c)
      PROVE  Accounting'
  <2>1. c \in Coins
    BY MessageCoins
  <2>2. balances' \in [Accounts -> Coins]
    BY <1>5, <2>1, CoinsArithmetic DEF Transfer
  <2> QED BY <1>5, <2>2 DEF Transfer
<1>6. CASE ExportImportGenesis
  BY <1>6, EmptyBitmapFacts DEF ExportImportGenesis
<1>7. CASE UNCHANGED keeperVars
  BY <1>7 DEF keeperVars
<1> QED BY <1>1, <1>2, <1>3, <1>4, <1>5, <1>6, <1>7 DEF KeeperNext

------------------------------------------------------------------------------
\* Nothing was processed and nothing minted before the first block.
LEMMA ReplayInit == KeeperInit => Replay
BY EmptyBitmapFacts
   DEF KeeperInit, Replay, RegistryMatchesMints, MintedOnce, EmptyBitmap

\* Only BridgeIn touches the registry and the log of mints, and it touches
\* both for the same nonce.
LEMMA ReplayStep ==
    Accounting /\ Replay /\ [KeeperNext]_keeperVars => Replay'
<1> SUFFICES ASSUME KeeperTypeOK, Replay, [KeeperNext]_keeperVars
             PROVE  Replay'
  BY DEF Accounting
<1> USE DEF Replay
<1>1. ASSUME NEW r \in Accounts, NEW c \in Deposits, NEW n \in Nonces, NEW s \in SignatureSets,
             BridgeIn(r, c, n, s)
      PROVE  Replay'
  <2> DEFINE e == [receiver |-> r, coins |-> c, nonce |-> n]
             L == Len(inEvents)
  <2>1. /\ ~IsNonceProcessed(bitmap, n)
        /\ bitmap' = SetNonceProcessed(bitmap, n)
        /\ inEvents' = Append(inEvents, e)
    BY <1>1 DEF BridgeIn, WithinCap
  <2>2. /\ L \in Nat /\ DOMAIN inEvents = 1..L /\ DOMAIN inEvents' = 1..(L + 1)
        /\ inEvents'[L + 1] = e
        /\ \A i \in 1..L : inEvents'[i] = inEvents[i] /\ inEvents[i].nonce \in Nonces
    <3>1. inEvents \in Seq(InEvent) /\ e \in InEvent /\ e.nonce = n
      BY DEF KeeperTypeOK, InEvent
    <3>2. \A x \in InEvent : x.nonce \in Nonces
      BY DEF InEvent
    <3> HIDE DEF e
    <3> QED BY <2>1, <3>1, <3>2, LogAppend
  <2>3. \A i \in 1..L : inEvents[i].nonce # n
    BY <2>1, <2>2 DEF RegistryMatchesMints
  <2>4. MintedOnce'
    BY <2>2, <2>3 DEF MintedOnce
  <2>5. \A m \in Nonces : IsNonceProcessed(bitmap', m) <=> (m = n \/ IsNonceProcessed(bitmap, m))
    BY <2>1, SetNonceExact, BridgeParams
  <2>6. \A m \in Nonces :
           (\E i \in 1..(L + 1) : inEvents'[i].nonce = m)
              <=> (m = n \/ \E i \in 1..L : inEvents[i].nonce = m)
    <3> TAKE m \in Nonces
    <3>1. e.nonce = n
      OBVIOUS
    <3>2. \A i \in 1..(L + 1) : i \in 1..L \/ i = L + 1
      BY <2>2
    <3>3. \A i \in 1..L : i \in 1..(L + 1)
      BY <2>2
    <3>4. L + 1 \in 1..(L + 1)
      BY <2>2
    <3> HIDE DEF e
    <3> QED BY <2>2, <3>1, <3>2, <3>3, <3>4
  <2>7. \A w \in DOMAIN bitmap' : bitmap'[w] # {}
    BY <2>1, SetNonceNoZeroWord, BridgeParams DEF RegistryMatchesMints
  <2> QED BY <2>2, <2>4, <2>5, <2>6, <2>7 DEF RegistryMatchesMints
<1>2. ASSUME UNCHANGED <<bitmap, inEvents>>
      PROVE  Replay'
  BY <1>2 DEF RegistryMatchesMints, MintedOnce
<1> QED
  BY <1>1, <1>2 DEF KeeperNext, keeperVars, BridgeOut, SetRelayer, DeleteRelayer, Transfer

------------------------------------------------------------------------------
\* Type correctness and the accounts, of the chain with and without restarts
\* from an exported genesis (module.go, ExportGenesis and InitGenesis).
THEOREM AccountingAlways == RestartSpec => []Accounting
BY AccountingInit, AccountingStep, PTL DEF RestartSpec

\* The registered supply invariant (RegisterInvariants, keeper.go): the cap
\* holds after every sequence of messages, updates and restarts.
THEOREM SupplyCapHolds == RestartSpec => []SupplyInvariant
<1>1. Accounting => SupplyInvariant
  BY DEF Accounting
<1> QED BY <1>1, AccountingAlways, PTL

\* cosmos_minted is x/bank's supply of uwsov in every reachable state.
THEOREM CirculationIsBankSupply == RestartSpec => []CirculationIsSupply
<1>1. Accounting => CirculationIsSupply
  BY DEF Accounting
<1> QED BY <1>1, AccountingAlways, PTL

\* Replay protection: between genesis restarts no nonce mints twice, whoever
\* submits it and whatever governance does to the relayer set meanwhile.
THEOREM NoNonceMintsTwice == KeeperSpec => []MintedOnce
<1>1. KeeperInit => Accounting /\ Replay
  BY AccountingInit, ReplayInit
<1>2. Accounting /\ Replay /\ [KeeperNext]_keeperVars => (Accounting /\ Replay)'
  BY AccountingStep, ReplayStep
<1>3. Replay => MintedOnce
  BY DEF Replay
<1> QED BY <1>1, <1>2, <1>3, PTL DEF KeeperSpec

\* The registry is exact: the processed nonces are those that minted.
THEOREM RegistryIsExact == KeeperSpec => []RegistryMatchesMints
<1>1. KeeperInit => Accounting /\ Replay
  BY AccountingInit, ReplayInit
<1>2. Accounting /\ Replay /\ [KeeperNext]_keeperVars => (Accounting /\ Replay)'
  BY AccountingStep, ReplayStep
<1>3. Replay => RegistryMatchesMints
  BY DEF Replay
<1> QED BY <1>1, <1>2, <1>3, PTL DEF KeeperSpec

------------------------------------------------------------------------------
(***************************************************************************)
(* No holder is shut in.  That each balance is within the circulation is   *)
(* not inductive: a burn lowers the circulation for all.  That the sum     *)
(* over any distinct accounts is, is: a burner outside the sum could have  *)
(* been added to it.  There may be infinitely many accounts.               *)
(***************************************************************************)

\* Lists of n distinct accounts, and what they hold.
Listings(n) == {s \in [1..n -> Accounts] : \A i, j \in 1..n : s[i] = s[j] => i = j}
Held(bank, s, n) == Total([i \in 1..n |-> bank[s[i]]["uwsov"]], n)

CirculationCovers == \A n \in Nat : \A s \in Listings(n) : Held(balances, s, n) <= cosmosMinted

LEMMA TotalOfZeros ==
    ASSUME NEW values, NEW n \in Nat, \A i \in 1..n : values[i] = 0
    PROVE  Total(values, n) = 0
<1> DEFINE T == {i \in 0..n : Total(values, i) = 0}
<1>1. 0 \in T
  BY TotalZero
<1>2. ASSUME NEW i \in 1..n, i - 1 \in T PROVE i \in T
  BY <1>2, TotalTurn
<1> HIDE DEF T
<1>3. n \in T
  BY <1>1, <1>2, EveryPosition
<1> QED BY <1>3 DEF T

LEMMA WrappedNat ==
    ASSUME NEW bank \in [Accounts -> Coins], NEW a \in Accounts
    PROVE  bank[a]["uwsov"] \in Nat
BY DEF Coins, Denoms

LEMMA HeldNat ==
    ASSUME NEW bank \in [Accounts -> Coins], NEW n \in Nat, NEW s \in Listings(n)
    PROVE  Held(bank, s, n) \in Nat
<1> DEFINE values == [i \in 1..n |-> bank[s[i]]["uwsov"]]
<1>1. \A i \in 1..n : values[i] \in Nat
  BY WrappedNat DEF Listings
<1> HIDE DEF values
<1>2. Total(values, n) \in Nat
  BY <1>1, TotalNat
<1> QED BY <1>2 DEF Held, values

\* When one balance changes, what a list holds changes if it lists the account.
LEMMA HeldChanges ==
    ASSUME NEW bank \in [Accounts -> Coins], NEW after, NEW a \in Accounts, NEW d \in Int,
           \A x \in Accounts \ {a} : after[x]["uwsov"] = bank[x]["uwsov"],
           after[a]["uwsov"] = bank[a]["uwsov"] + d,
           NEW n \in Nat, NEW s \in Listings(n), NEW k \in 1..n, s[k] = a
    PROVE  Held(after, s, n) = Held(bank, s, n) + d
<1> DEFINE values == [i \in 1..n |-> bank[s[i]]["uwsov"]]
           others == [i \in 1..n |-> after[s[i]]["uwsov"]]
<1>1. \A i \in 1..n : values[i] \in Int
  <2>1. \A i \in 1..n : s[i] \in Accounts
    BY DEF Listings
  <2>2. \A x \in Accounts : bank[x]["uwsov"] \in Nat
    BY WrappedNat
  <2> QED BY <2>1, <2>2
<1>2. others[k] = values[k] + d
  OBVIOUS
<1>3. ASSUME NEW i \in 1..n, i # k PROVE others[i] = values[i]
  <2>1. s[i] \in Accounts \ {a}
    BY <1>3 DEF Listings
  <2> QED BY <2>1
<1> HIDE DEF values, others
<1>4. Total(others, n) = Total(values, n) + d
  BY <1>1, <1>2, <1>3, TotalChange
<1> QED BY <1>4 DEF Held, values, others

LEMMA HeldStays ==
    ASSUME NEW bank \in [Accounts -> Coins], NEW after, NEW a \in Accounts,
           \A x \in Accounts \ {a} : after[x]["uwsov"] = bank[x]["uwsov"],
           NEW n \in Nat, NEW s \in Listings(n), \A k \in 1..n : s[k] # a
    PROVE  Held(after, s, n) = Held(bank, s, n)
<1> DEFINE values == [i \in 1..n |-> bank[s[i]]["uwsov"]]
           others == [i \in 1..n |-> after[s[i]]["uwsov"]]
<1>1. \A i \in 1..n : others[i] = values[i]
  BY DEF Listings
<1> HIDE DEF values, others
<1>2. Total(others, n) = Total(values, n)
  BY <1>1, TotalSame
<1> QED BY <1>2 DEF Held, values, others

\* A list can be extended by an account that is not in it.
LEMMA OneMoreHolder ==
    ASSUME NEW bank, NEW n \in Nat, NEW s \in Listings(n),
           NEW a \in Accounts, \A k \in 1..n : s[k] # a
    PROVE  \E t \in Listings(n + 1) : Held(bank, t, n + 1) = Held(bank, s, n) + bank[a]["uwsov"]
<1> DEFINE t == [i \in 1..(n + 1) |-> IF i = n + 1 THEN a ELSE s[i]]
           values == [i \in 1..n |-> bank[s[i]]["uwsov"]]
           others == [i \in 1..(n + 1) |-> bank[t[i]]["uwsov"]]
<1>1. s \in [1..n -> Accounts] /\ \A i, j \in 1..n : s[i] = s[j] => i = j
  BY DEF Listings
<1>2. \A i \in 1..(n + 1) : i = n + 1 \/ i \in 1..n
  OBVIOUS
<1>3. t \in Listings(n + 1)
  <2>1. t \in [1..(n + 1) -> Accounts]
    BY <1>1, <1>2
  <2>2. ASSUME NEW i \in 1..(n + 1), NEW j \in 1..(n + 1), t[i] = t[j] PROVE i = j
    BY <1>1, <1>2, <2>2
  <2> QED BY <2>1, <2>2 DEF Listings
<1>4. /\ \A i \in 1..n : others[i] = values[i]
      /\ others[n + 1] = bank[a]["uwsov"]
  OBVIOUS
<1>5. Held(bank, t, n + 1) = Total(others, n + 1) /\ Held(bank, s, n) = Total(values, n)
  BY DEF Held
<1> HIDE DEF t, values, others
<1>6. Total(others, n + 1) = Total(others, n) + others[n + 1]
  BY TotalNext
<1>7. Total(others, n) = Total(values, n)
  BY <1>4, TotalSame
<1> QED BY <1>3, <1>4, <1>5, <1>6, <1>7

\* What a list and one further account hold is in circulation.
LEMMA RoomForAnother ==
    ASSUME CirculationCovers, NEW n \in Nat, NEW s \in Listings(n),
           NEW a \in Accounts, \A k \in 1..n : s[k] # a
    PROVE  Held(balances, s, n) + balances[a]["uwsov"] <= cosmosMinted
<1>1. PICK t \in Listings(n + 1) :
        Held(balances, t, n + 1) = Held(balances, s, n) + balances[a]["uwsov"]
  BY OneMoreHolder
<1>2. n + 1 \in Nat
  OBVIOUS
<1> QED BY <1>1, <1>2 DEF CirculationCovers

LEMMA CoveredInit == KeeperInit => CirculationCovers
<1> SUFFICES ASSUME KeeperInit, NEW n \in Nat, NEW s \in Listings(n)
             PROVE  Held(balances, s, n) <= cosmosMinted
  BY DEF CirculationCovers
<1> DEFINE values == [i \in 1..n |-> balances[s[i]]["uwsov"]]
<1>1. \A i \in 1..n : values[i] = 0
  BY DEF KeeperInit, Listings, Denoms
<1> HIDE DEF values
<1>2. Total(values, n) = 0
  BY <1>1, TotalOfZeros
<1> QED BY <1>2 DEF KeeperInit, Held, values

\* A mint credits one account, a burn debits one, a payment does both.
LEMMA CoveredStep ==
    Accounting /\ CirculationCovers /\ [KeeperNext \/ ExportImportGenesis]_keeperVars => CirculationCovers'
<1> SUFFICES ASSUME Accounting, CirculationCovers, [KeeperNext \/ ExportImportGenesis]_keeperVars,
                    NEW n \in Nat, NEW s \in Listings(n)
             PROVE  Held(balances', s, n) <= cosmosMinted'
  BY DEF CirculationCovers
<1> DEFINE held == Held(balances, s, n)
           In(a) == \E k \in 1..n : s[k] = a
<1>1. /\ balances \in [Accounts -> Coins] /\ cosmosMinted \in Nat
      /\ held \in Nat /\ held <= cosmosMinted
  <2>1. balances \in [Accounts -> Coins] /\ cosmosMinted \in Nat
    BY DEF Accounting, KeeperTypeOK
  <2>2. held \in Nat
    BY <2>1, HeldNat
  <2> QED BY <2>1, <2>2 DEF CirculationCovers
<1>2. ASSUME NEW r \in Accounts, NEW c \in Deposits, NEW m \in Nonces, NEW g \in SignatureSets,
             BridgeIn(r, c, m, g)
      PROVE  Held(balances', s, n) <= cosmosMinted'
  <2>1. c["uwsov"] \in Nat
    BY MessageCoins
  <2>2. /\ cosmosMinted' = cosmosMinted + c["uwsov"]
        /\ \A x \in Accounts \ {r} : balances'[x]["uwsov"] = balances[x]["uwsov"]
        /\ balances'[r]["uwsov"] = balances[r]["uwsov"] + c["uwsov"]
    BY <1>1, <1>2 DEF BridgeIn, Plus, Denoms
  <2>3. CASE In(r)
    <3>1. Held(balances', s, n) = held + c["uwsov"]
      BY <1>1, <2>1, <2>2, <2>3, HeldChanges
    <3> QED BY <1>1, <2>1, <2>2, <3>1
  <2>4. CASE ~In(r)
    <3>1. Held(balances', s, n) = held
      BY <1>1, <2>2, <2>4, HeldStays
    <3> QED BY <1>1, <2>1, <2>2, <3>1
  <2> QED BY <2>3, <2>4
<1>3. ASSUME NEW a \in Accounts, NEW u \in BscUsers, NEW c \in Withdrawals, BridgeOut(a, u, c)
      PROVE  Held(balances', s, n) <= cosmosMinted'
  <2>1. c["uwsov"] \in Nat /\ 0 - c["uwsov"] \in Int
    BY MessageCoins
  <2>2. /\ cosmosMinted' = cosmosMinted - c["uwsov"]
        /\ \A x \in Accounts \ {a} : balances'[x]["uwsov"] = balances[x]["uwsov"]
        /\ balances'[a]["uwsov"] = balances[a]["uwsov"] - c["uwsov"]
        /\ balances[a]["uwsov"] >= c["uwsov"]
    BY <1>1, <1>3 DEF BridgeOut, Minus, Covers, Denoms
  <2>3. balances[a]["uwsov"] \in Nat
    BY <1>1, WrappedNat
  <2>4. CASE In(a)
    <3>1. balances'[a]["uwsov"] = balances[a]["uwsov"] + (0 - c["uwsov"])
      BY <2>1, <2>2, <2>3
    <3>2. Held(balances', s, n) = held + (0 - c["uwsov"])
      BY <1>1, <2>1, <2>2, <2>4, <3>1, HeldChanges
    <3> QED BY <1>1, <2>1, <2>2, <3>2
  <2>5. CASE ~In(a)
    <3>1. Held(balances', s, n) = held
      BY <1>1, <2>2, <2>5, HeldStays
    <3>2. held + balances[a]["uwsov"] <= cosmosMinted
      BY <2>5, RoomForAnother
    <3> QED BY <1>1, <2>1, <2>2, <2>3, <3>1, <3>2
  <2> QED BY <2>4, <2>5
<1>4. ASSUME NEW a \in Accounts, NEW b \in Accounts, NEW c \in Withdrawals, Transfer(a, b, c)
      PROVE  Held(balances', s, n) <= cosmosMinted'
  <2> DEFINE w == c["uwsov"]
             paid == [balances EXCEPT ![a] = Minus(@, c)]
  <2>1. w \in Nat /\ 0 - w \in Int /\ c \in Coins
    BY MessageCoins
  <2>2. /\ cosmosMinted' = cosmosMinted /\ a # b
        /\ Covers(balances[a], c)
        /\ balances' = [balances EXCEPT ![a] = Minus(@, c), ![b] = Plus(@, c)]
    BY <1>4 DEF Transfer
  <2>3. paid \in [Accounts -> Coins]
    BY <1>1, <2>1, <2>2, CoinsArithmetic
  <2>4. /\ balances[a]["uwsov"] >= w /\ balances[a]["uwsov"] \in Nat
        /\ \A x \in Accounts \ {a} : paid[x]["uwsov"] = balances[x]["uwsov"]
        /\ paid[a]["uwsov"] = balances[a]["uwsov"] + (0 - w)
    <3>1. balances[a]["uwsov"] \in Nat
      BY <1>1, WrappedNat
    <3>2. paid[a]["uwsov"] = balances[a]["uwsov"] - w
      BY <1>1 DEF Minus, Denoms
    <3>3. \A x \in Accounts \ {a} : paid[x]["uwsov"] = balances[x]["uwsov"]
      BY <1>1
    <3>4. balances[a]["uwsov"] >= w
      BY <2>2 DEF Covers, Denoms
    <3> QED BY <2>1, <3>1, <3>2, <3>3, <3>4
  <2>5. /\ \A x \in Accounts \ {b} : balances'[x]["uwsov"] = paid[x]["uwsov"]
        /\ balances'[b]["uwsov"] = paid[b]["uwsov"] + w
    BY <1>1, <2>2 DEF Plus, Denoms
  <2> HIDE DEF paid, w
  <2>6. /\ In(a) => Held(paid, s, n) = held + (0 - w)
        /\ ~In(a) => Held(paid, s, n) = held
    <3>1. In(a) => Held(paid, s, n) = held + (0 - w)
      BY <1>1, <2>1, <2>4, HeldChanges
    <3>2. ~In(a) => Held(paid, s, n) = held
      BY <1>1, <2>4, HeldStays
    <3> QED BY <3>1, <3>2
  <2>7. /\ In(b) => Held(balances', s, n) = Held(paid, s, n) + w
        /\ ~In(b) => Held(balances', s, n) = Held(paid, s, n)
    <3>1. In(b) => Held(balances', s, n) = Held(paid, s, n) + w
      BY <2>1, <2>3, <2>5, HeldChanges
    <3>2. ~In(b) => Held(balances', s, n) = Held(paid, s, n)
      BY <2>3, <2>5, HeldStays
    <3> QED BY <3>1, <3>2
  <2>8. ~In(a) => held + balances[a]["uwsov"] <= cosmosMinted
    BY RoomForAnother
  <2> HIDE DEF In
  <2>9. CASE In(a)
    BY <1>1, <2>1, <2>2, <2>6, <2>7, <2>9
  <2>10. CASE ~In(a)
    BY <1>1, <2>1, <2>2, <2>4, <2>6, <2>7, <2>8, <2>10
  <2> QED BY <2>9, <2>10
<1>5. ASSUME UNCHANGED <<balances, cosmosMinted>>
      PROVE  Held(balances', s, n) <= cosmosMinted'
  BY <1>1, <1>5
<1> QED
  BY <1>2, <1>3, <1>4, <1>5 DEF KeeperNext, keeperVars, SetRelayer, DeleteRelayer, ExportImportGenesis

\* BridgeOut's circulation check refuses nobody: what an account holds of the
\* wrapped token is never more than the module has in circulation, also after
\* restarts from an exported genesis.
THEOREM NoHolderShutIn == RestartSpec => []HoldersCanExit
<1>1. ASSUME Accounting, CirculationCovers, NEW a \in Accounts
      PROVE  balances[a]["uwsov"] <= cosmosMinted
  <2> DEFINE s == [i \in 1..0 |-> a]
  <2>1. s \in Listings(0) /\ \A k \in 1..0 : s[k] # a
    BY DEF Listings
  <2>2. Held(balances, s, 0) = 0
    BY TotalZero DEF Held
  <2> HIDE DEF s
  <2>3. Held(balances, s, 0) + balances[a]["uwsov"] <= cosmosMinted
    BY <1>1, <2>1, RoomForAnother
  <2>4. balances[a]["uwsov"] \in Nat
    BY <1>1, WrappedNat DEF Accounting, KeeperTypeOK
  <2> QED BY <2>2, <2>3, <2>4
<1>2. Accounting /\ CirculationCovers => HoldersCanExit
  BY <1>1 DEF HoldersCanExit
<1> QED BY <1>2, CoveredInit, CoveredStep, AccountingAlways, PTL DEF RestartSpec

------------------------------------------------------------------------------
(***************************************************************************)
(* The bridge end to end, for a committee of any size, any number of       *)
(* faulty relayers below both quorums, and any amounts, depths and nonces. *)
(*                                                                         *)
(* Both chains keep the theorems they have alone, because every step of    *)
(* the system is a step of each chain or leaves that chain as it is.  What *)
(* only the system has is that mints answer deposits and releases answer   *)
(* burns: a quorum contains a correct relayer, and a correct relayer signs *)
(* nothing that is not in the log of the other chain.                      *)
(***************************************************************************)

------------------------------------------------------------------------------
\* The signatures of a call are a function, zero for whoever has not signed.
LEMMA SignaturesShape ==
    ASSUME NEW all, NEW signed, NEW sigs \in Signatures(all, signed)
    PROVE  /\ sigs \in [all -> 0..2]
           /\ \A x \in all \ signed : sigs[x] = 0
<1>1. PICK f \in [signed -> 0..2] : sigs = [x \in all |-> IF x \in signed THEN f[x] ELSE 0]
  BY DEF Signatures
<1>2. \A x \in all : (IF x \in signed THEN f[x] ELSE 0) \in 0..2
  BY <1>1
<1> QED BY <1>1, <1>2

\* What a step of the system does to the BSC chain, LockBox.sol can do alone.
LEMMA SystemStepOfLockBox == [SystemNext]_systemVars => [LockBoxNext]_lockBoxVars
<1> SUFFICES ASSUME [SystemNext]_systemVars, lockBoxVars' # lockBoxVars
             PROVE  LockBoxNext
  OBVIOUS
<1>1. CASE BscStep
  BY <1>1 DEF BscStep, LockBoxNext
<1>2. ASSUME NEW u \in BscUsers, NEW a \in Amounts, NEW n \in UnlockNonces, SubmitUnlock(u, a, n)
      PROVE  LockBoxNext
  <2>1. PICK sigs \in Signatures(Signers, WithdrawalSigners(u, a, n)) : Unlock(u, a, n, sigs)
    BY <1>2 DEF SubmitUnlock
  <2>2. sigs \in UnlockSignatures
    BY <2>1, SignaturesShape DEF UnlockSignatures
  <2>3. u \in TokenHolders
    BY SystemParams
  <2> QED BY <2>1, <2>2, <2>3 DEF LockBoxNext
<1> QED
  BY <1>1, <1>2 DEF SystemNext, systemVars, CosmosStep, AttestLock, AttestBurn, SubmitBridgeIn, Withdraw

\* What a step of the system does to the Sovereign chain, x/bridge can do alone.
LEMMA SystemStepOfKeeper == [SystemNext]_systemVars => [KeeperNext]_keeperVars
<1> SUFFICES ASSUME [SystemNext]_systemVars, keeperVars' # keeperVars
             PROVE  KeeperNext
  OBVIOUS
<1>1. CASE CosmosStep
  <2>1. \A p \in Registrations : p[1] \in RelayerAddrs /\ p[2] \in PubKeys
    BY SystemParams
  <2> QED BY <1>1, <2>1 DEF CosmosStep, KeeperNext
<1>2. ASSUME NEW r \in Accounts, NEW c \in Deposits, NEW n \in Nonces, SubmitBridgeIn(r, c, n)
      PROVE  KeeperNext
  <2> DEFINE signed == {KeyOf[s] : s \in DepositSigners(r, c, n)}
  <2>1. PICK sigs \in Signatures(PubKeys, signed) : BridgeIn(r, c, n, sigs)
    BY <1>2 DEF SubmitBridgeIn
  <2>2. sigs \in SignatureSets
    BY <2>1, SignaturesShape DEF SignatureSets
  <2> QED BY <2>1, <2>2 DEF KeeperNext
<1>3. ASSUME NEW a \in Accounts, NEW u \in BscUsers, NEW c \in Withdrawals, Withdraw(a, u, c)
      PROVE  KeeperNext
  BY <1>3 DEF Withdraw, KeeperNext
<1> QED
  BY <1>1, <1>2, <1>3 DEF SystemNext, systemVars, BscStep, AttestLock, AttestBurn, SubmitUnlock

\* Each chain of the system behaves as it does alone, so that every theorem
\* about it holds of the system.
THEOREM SystemHasLockBox == SystemSpec => LockBoxSpec
<1>1. SystemInit => LockBoxInit
  BY DEF SystemInit
<1> QED BY <1>1, SystemStepOfLockBox, PTL DEF SystemSpec, LockBoxSpec

THEOREM SystemHasKeeper == SystemSpec => KeeperSpec
<1>1. SystemInit => KeeperInit
  BY DEF SystemInit
<1> QED BY <1>1, SystemStepOfKeeper, PTL DEF SystemSpec, KeeperSpec

------------------------------------------------------------------------------
\* A quorum larger than the faulty relayers has a member that is not one.
LEMMA QuorumHasCorrect ==
    ASSUME NEW S, IsFiniteSet(S), NEW F, IsFiniteSet(F), NEW q \in Nat,
           Cardinality(F) < q, Cardinality(S) >= q
    PROVE  \E a \in S : a \notin F
<1>1. ASSUME S \in SUBSET F PROVE FALSE
  <2>1. Cardinality(S) <= Cardinality(F)
    BY <1>1, FS_Subset
  <2>2. Cardinality(S) \in Nat /\ Cardinality(F) \in Nat
    BY FS_CardinalityType
  <2> QED BY <2>1, <2>2
<1> QED BY <1>1

\* Whoever the signature loop of ProcessBridgeIn credits holds a key under
\* which a signature of the message verifies.
LEMMA CreditedHasSigned ==
    ASSUME relayers \in Registries, NEW sigs \in SignatureSets,
           NEW signedMap \in SUBSET DOMAIN relayers, IsSignedMap(signedMap, sigs),
           NEW a \in signedMap
    PROVE  relayers[a] \in PubKeys /\ sigs[relayers[a]] # 0
<1> DEFINE k == relayers[a]
           C == signedMap \cap Holders(k)
<1>1. k \in PubKeys /\ DOMAIN relayers \in SUBSET RelayerAddrs
  BY DEF Registries
<1>2. a \in C
  BY DEF Holders
<1>3. C \in SUBSET RelayerAddrs /\ Holders(k) \in SUBSET RelayerAddrs
  BY <1>1 DEF Holders
<1>4. IsFiniteSet(C) /\ IsFiniteSet(Holders(k))
  BY <1>3, FS_Subset, BridgeParams
<1>5. Cardinality(C) # 0 /\ Cardinality(Holders(k)) \in Nat
  <2>1. Cardinality(C) # 0
    BY <1>2, <1>4, FS_EmptySet
  <2>2. Cardinality(Holders(k)) \in Nat
    BY <1>4, FS_CardinalityType
  <2> QED BY <2>1, <2>2
<1>6. Cardinality(C) = IF sigs[k] < Cardinality(Holders(k)) THEN sigs[k] ELSE Cardinality(Holders(k))
  BY <1>1 DEF IsSignedMap
<1>7. sigs[k] \in 0..2
  BY <1>1 DEF SignatureSets
<1> QED BY <1>1, <1>5, <1>6, <1>7

------------------------------------------------------------------------------
\* The registry never holds a key that is not its relayer's own.
OwnKeys == \A a \in DOMAIN relayers : relayers[a] = KeyOf[a]

\* What a correct relayer has signed is in the log of its chain, a deposit
\* below the required number of blocks.
LocksSeen ==
    \A p \in attestedLocks :
        /\ p[2] \in DOMAIN lockEvents
        /\ blockNumber >= lockEvents[p[2]].block + ConfirmationDepth(lockEvents[p[2]].amount)

\* Every burn has its transaction.
TxLogged == burnTx \in Seq(1..MaxTxs) /\ Len(burnTx) = Len(outEvents)

Typed == LockBoxTypeOK /\ KeeperTypeOK

\* The log of LockBox.sol keeps its entries, and BSC does not go back.
LEMMA LocksGrow ==
    ASSUME LockBoxTypeOK, [LockBoxNext]_lockBoxVars
    PROVE  /\ blockNumber' >= blockNumber
           /\ \A i \in DOMAIN lockEvents : i \in DOMAIN lockEvents' /\ lockEvents'[i] = lockEvents[i]
<1>1. ASSUME NEW u \in TokenHolders, NEW a \in Amounts, NEW r \in CosmosRecipients, Lock(u, a, r)
      PROVE  /\ blockNumber' >= blockNumber
             /\ \A i \in DOMAIN lockEvents : i \in DOMAIN lockEvents' /\ lockEvents'[i] = lockEvents[i]
  <2>1. lockEvents \in Seq(LockEvent)
    BY DEF LockBoxTypeOK
  <2>2. PICK e : lockEvents' = Append(lockEvents, e)
    BY <1>1 DEF Lock
  <2>3. blockNumber' = blockNumber /\ blockNumber \in Nat
    BY <1>1 DEF Lock, LockBoxTypeOK
  <2> QED BY <2>1, <2>2, <2>3
<1>2. CASE NextBlock
  BY <1>2 DEF NextBlock, lockVars, LockBoxTypeOK
<1>3. CASE UNCHANGED <<blockNumber, lockEvents>>
  BY <1>3 DEF LockBoxTypeOK
<1> QED
  BY <1>1, <1>2, <1>3 DEF LockBoxNext, lockBoxVars, lockVars, Unlock, Administer, Pause, Unpause,
     RotateCircuitBreaker, TransferToken

\* The log of x/bridge keeps its entries.
LEMMA BurnsGrow ==
    ASSUME KeeperTypeOK, [KeeperNext]_keeperVars
    PROVE  \A i \in DOMAIN outEvents : i \in DOMAIN outEvents' /\ outEvents'[i] = outEvents[i]
<1>1. ASSUME NEW e, outEvents' = Append(outEvents, e)
      PROVE  \A i \in DOMAIN outEvents : i \in DOMAIN outEvents' /\ outEvents'[i] = outEvents[i]
  <2>1. outEvents \in Seq(OutEvent)
    BY DEF KeeperTypeOK
  <2> QED BY <1>1, <2>1
<1>2. CASE UNCHANGED outEvents
  BY <1>2
<1> QED
  BY <1>1, <1>2 DEF KeeperNext, keeperVars, BridgeIn, BridgeOut, SetRelayer, DeleteRelayer, Transfer

------------------------------------------------------------------------------
\* A deposit that is deep enough stays in the log and deep enough.
LEMMA DepositStays ==
    ASSUME Typed, [SystemNext]_systemVars, NEW i \in DOMAIN lockEvents,
           blockNumber >= lockEvents[i].block + ConfirmationDepth(lockEvents[i].amount)
    PROVE  /\ i \in DOMAIN lockEvents' /\ lockEvents'[i] = lockEvents[i]
           /\ blockNumber' >= lockEvents[i].block + ConfirmationDepth(lockEvents[i].amount)
<1>1. /\ blockNumber' >= blockNumber
      /\ i \in DOMAIN lockEvents' /\ lockEvents'[i] = lockEvents[i]
  BY SystemStepOfLockBox, LocksGrow DEF Typed
<1>2. blockNumber \in Nat /\ blockNumber' \in Nat
  <2>1. blockNumber \in Nat
    BY DEF Typed, LockBoxTypeOK
  <2>2. blockNumber' = blockNumber \/ blockNumber' = blockNumber + 1
    BY SystemStepOfLockBox
       DEF LockBoxNext, lockBoxVars, Lock, Unlock, Administer, Pause, Unpause,
           RotateCircuitBreaker, TransferToken, NextBlock
  <2> QED BY <2>1, <2>2
<1>3. lockEvents[i].block \in Nat
  <2>1. lockEvents \in Seq(LockEvent)
    BY DEF Typed, LockBoxTypeOK
  <2>2. lockEvents[i] \in LockEvent
    BY <2>1
  <2>3. \A e \in LockEvent : e.block \in Nat
    BY DEF LockEvent
  <2> QED BY <2>2, <2>3
<1>4. ConfirmationDepth(lockEvents[i].amount) \in Nat
  BY SystemParams DEF ConfirmationDepth
<1> QED BY <1>1, <1>2, <1>3, <1>4

LEMMA LocksSeenStep == Typed /\ LocksSeen /\ [SystemNext]_systemVars => LocksSeen'
<1> SUFFICES ASSUME Typed, LocksSeen, [SystemNext]_systemVars, NEW p \in attestedLocks'
             PROVE  /\ p[2] \in DOMAIN lockEvents'
                    /\ blockNumber' >= lockEvents'[p[2]].block + ConfirmationDepth(lockEvents'[p[2]].amount)
  BY DEF LocksSeen, ConfirmationDepth, RelayedAmount
<1>1. CASE p \in attestedLocks
  BY <1>1, DepositStays DEF LocksSeen
<1>2. CASE p \notin attestedLocks
  <2>1. PICK r \in Correct, i \in DOMAIN lockEvents : AttestLock(r, i)
    BY <1>2 DEF SystemNext, systemVars, BscStep, CosmosStep, Unattested, AttestBurn,
       SubmitBridgeIn, SubmitUnlock, Withdraw
  <2>2. p = <<r, i>> /\ p[2] = i
    BY <1>2, <2>1 DEF AttestLock
  <2>3. lockEvents' = lockEvents /\ blockNumber' = blockNumber
    BY <2>1 DEF AttestLock, lockBoxVars, lockVars
  <2> QED BY <2>1, <2>2, <2>3 DEF AttestLock
<1> QED BY <1>1, <1>2

\* The transaction of a burn is within the bound.
LEMMA BurnHasTx ==
    ASSUME TxLogged, NEW a, NEW u, NEW c, Withdraw(a, u, c)
    PROVE  \E tx \in 1..MaxTxs : burnTx' = Append(burnTx, tx)
<1>1. PICK tx \in IF burnTx = <<>> THEN {1} ELSE {burnTx[Len(burnTx)], burnTx[Len(burnTx)] + 1} :
         tx <= MaxTxs /\ burnTx' = Append(burnTx, tx)
  BY DEF Withdraw
<1>2. ASSUME burnTx # <<>> PROVE burnTx[Len(burnTx)] \in 1..MaxTxs
  <2>1. burnTx \in Seq(1..MaxTxs)
    BY DEF TxLogged
  <2>2. Len(burnTx) \in Nat \ {0}
    BY <1>2, <2>1, EmptySeq
  <2>3. Len(burnTx) \in 1..Len(burnTx)
    BY <2>2
  <2> QED BY <2>1, <2>3, ElementOfSeq
<1>3. tx \in 1..MaxTxs
  BY <1>1, <1>2, SystemParams
<1> QED BY <1>1, <1>3

\* Transactions are logged with the burns, and their entries stay.
LEMMA TxLoggedStep ==
    ASSUME Typed, TxLogged, [SystemNext]_systemVars
    PROVE  /\ TxLogged'
           /\ \A i \in DOMAIN outEvents : burnTx'[i] = burnTx[i]
<1>1. outEvents \in Seq(OutEvent)
  BY DEF Typed, KeeperTypeOK
<1>2. ASSUME NEW a \in Accounts, NEW u \in BscUsers, NEW c \in Withdrawals, Withdraw(a, u, c)
      PROVE  TxLogged' /\ \A i \in DOMAIN outEvents : burnTx'[i] = burnTx[i]
  <2>1. PICK e \in OutEvent : outEvents' = Append(outEvents, e)
    BY <1>2 DEF Withdraw, BridgeOut, OutEvent
  <2>2. PICK tx \in 1..MaxTxs : burnTx' = Append(burnTx, tx)
    BY <1>2, BurnHasTx
  <2> QED BY <1>1, <2>1, <2>2 DEF TxLogged
<1>3. CASE UNCHANGED <<burnTx, outEvents>>
  BY <1>3 DEF TxLogged
<1> QED
  BY <1>2, <1>3 DEF SystemNext, systemVars, keeperVars, BscStep, CosmosStep, Unattested, AttestLock, AttestBurn,
     SubmitBridgeIn, SubmitUnlock, BridgeIn, SetRelayer, DeleteRelayer, Transfer

LEMMA OwnKeysStep ==
    ASSUME DistinctKeys, Typed, OwnKeys, [SystemNext]_systemVars
    PROVE  OwnKeys'
<1>1. CASE UNCHANGED relayers
  BY <1>1 DEF OwnKeys
<1>2. ASSUME NEW p \in Registrations, SetRelayer(p[1], p[2])
      PROVE  OwnKeys'
  BY <1>2 DEF SetRelayer, OwnKeys, DistinctKeys
<1>3. ASSUME NEW a \in RelayerAddrs, DeleteRelayer(a)
      PROVE  OwnKeys'
  BY <1>3 DEF DeleteRelayer, OwnKeys
<1> QED
  BY <1>1, <1>2, <1>3 DEF SystemNext, systemVars, keeperVars, BscStep, CosmosStep, AttestLock, AttestBurn,
     SubmitBridgeIn, SubmitUnlock, Withdraw, BridgeIn, BridgeOut, Transfer

------------------------------------------------------------------------------
\* A mint adds one event, and its signatures are those of a quorum that has a
\* correct relayer, which attested a deposit with this payload.
LEMMA MintHasDeposit ==
    ASSUME Typed, OwnKeys, LocksSeen,
           NEW r \in Accounts, NEW c \in Deposits, NEW n \in Nonces, SubmitBridgeIn(r, c, n)
    PROVE  \E i \in DOMAIN lockEvents :
              /\ IsDeposit(i, r, c, n)
              /\ blockNumber >= lockEvents[i].block + ConfirmationDepth(lockEvents[i].amount)
<1> DEFINE signers == DepositSigners(r, c, n)
           signed  == {KeyOf[s] : s \in signers}
<1>1. PICK sigs \in Signatures(PubKeys, signed) : BridgeIn(r, c, n, sigs)
  BY DEF SubmitBridgeIn
<1>2. sigs \in SignatureSets /\ \A k \in PubKeys \ signed : sigs[k] = 0
  BY <1>1, SignaturesShape DEF SignatureSets
<1>3. PICK signedMap \in SUBSET DOMAIN relayers :
         IsSignedMap(signedMap, sigs) /\ Cardinality(signedMap) >= QuorumThreshold
  BY <1>1 DEF BridgeIn, HasQuorum
<1>4. relayers \in Registries /\ DOMAIN relayers \in SUBSET RelayerAddrs
  BY DEF Typed, KeeperTypeOK, Registries
<1>5. PICK a \in signedMap : a \notin Faulty
  <2>1. IsFiniteSet(signedMap)
    BY <1>3, <1>4, FS_Subset, BridgeParams
  <2> QED BY <2>1, <1>3, QuorumHasCorrect, SystemParams, BridgeParams
<1>6. relayers[a] \in PubKeys /\ sigs[relayers[a]] # 0
  BY <1>2, <1>3, <1>4, CreditedHasSigned
<1>7. PICK s \in signers : KeyOf[s] = KeyOf[a]
  BY <1>2, <1>3, <1>5, <1>6 DEF OwnKeys
<1>8. s = a
  <2>1. s \in RelayerAddrs /\ a \in RelayerAddrs
    BY <1>3, <1>4, <1>5, SystemParams DEF DepositSigners, Correct
  <2> QED BY <1>7, <2>1, SystemParams
<1>9. PICK i \in DOMAIN lockEvents : <<a, i>> \in attestedLocks /\ IsDeposit(i, r, c, n)
  BY <1>5, <1>7, <1>8 DEF DepositSigners
<1> QED BY <1>9 DEF LocksSeen

\* The same of a payment out of the escrow: the signers of unlock() are the
\* relayers themselves.
LEMMA PaymentHasBurn ==
    ASSUME NEW u \in BscUsers, NEW a \in Amounts, NEW n \in UnlockNonces, SubmitUnlock(u, a, n)
    PROVE  \E i \in DOMAIN outEvents : IsWithdrawal(i, u, a, n)
<1>1. PICK sigs \in Signatures(Signers, WithdrawalSigners(u, a, n)) : Unlock(u, a, n, sigs)
  BY DEF SubmitUnlock
<1>2. sigs \in [Signers -> 0..2] /\ \A x \in Signers \ WithdrawalSigners(u, a, n) : sigs[x] = 0
  BY <1>1, SignaturesShape
<1> DEFINE recovered == {x \in Signers : sigs[x] > 0}
<1>3. recovered \subseteq Committee /\ Cardinality(recovered) >= Threshold
  BY <1>1 DEF Unlock, RecoveredQuorum
<1>4. PICK x \in recovered : x \notin Faulty
  <2>1. IsFiniteSet(recovered)
    BY <1>3, FS_Subset, LockBoxParams
  <2> QED BY <2>1, <1>3, QuorumHasCorrect, SystemParams, LockBoxParams
<1>5. x \in WithdrawalSigners(u, a, n)
  BY <1>2
<1> QED BY <1>4, <1>5 DEF WithdrawalSigners

------------------------------------------------------------------------------
LEMMA MintsBackedStep ==
    ASSUME DistinctKeys, Typed, OwnKeys, LocksSeen, MintsBacked, [SystemNext]_systemVars
    PROVE  MintsBacked'
<1> DEFINE Answers(e, i) ==
      /\ i \in DOMAIN lockEvents
      /\ IsDeposit(i, e.receiver, e.coins, e.nonce)
      /\ blockNumber >= lockEvents[i].block + ConfirmationDepth(lockEvents[i].amount)
<1>1. SUFFICES \A m \in DOMAIN inEvents' : \E i : Answers(inEvents'[m], i)
  <2>1. ASSUME NEW m \in DOMAIN inEvents', NEW i, Answers(inEvents'[m], i)
        PROVE  /\ i \in DOMAIN lockEvents'
               /\ IsDeposit(i, inEvents[m].receiver, inEvents[m].coins, inEvents[m].nonce)'
               /\ blockNumber' >= (lockEvents[i].block + ConfirmationDepth(lockEvents[i].amount))'
    BY <2>1, DepositStays DEF IsDeposit, RelayedCoins, RelayedAmount, ConfirmationDepth
  <2> QED BY <2>1 DEF MintsBacked
<1> TAKE m \in DOMAIN inEvents'
<1>2. CASE m \in DOMAIN inEvents /\ inEvents'[m] = inEvents[m]
  BY <1>2 DEF MintsBacked
<1>3. CASE ~(m \in DOMAIN inEvents /\ inEvents'[m] = inEvents[m])
  <2>1. PICK r \in Accounts, c \in Deposits, n \in Nonces : SubmitBridgeIn(r, c, n)
    BY <1>3 DEF SystemNext, systemVars, keeperVars, BscStep, CosmosStep, AttestLock, AttestBurn,
       SubmitUnlock, Withdraw, BridgeOut, SetRelayer, DeleteRelayer, Transfer
  <2>2. inEvents' = Append(inEvents, [receiver |-> r, coins |-> c, nonce |-> n])
    BY <2>1 DEF SubmitBridgeIn, BridgeIn
  <2>3. inEvents'[m] = [receiver |-> r, coins |-> c, nonce |-> n]
    <3>1. inEvents \in Seq(InEvent)
      BY DEF Typed, KeeperTypeOK
    <3> QED BY <1>3, <2>2, <3>1
  <2> QED BY <2>1, <2>3, MintHasDeposit
<1> QED BY <1>2, <1>3

LEMMA ReleasesBackedStep ==
    ASSUME Typed, TxLogged, ReleasesBacked, [SystemNext]_systemVars
    PROVE  ReleasesBacked'
<1> DEFINE Answers(e, i) == i \in DOMAIN outEvents /\ IsWithdrawal(i, e.user, e.amount, e.nonce)
<1>1. SUFFICES \A p \in DOMAIN unlockEvents' : \E i : Answers(unlockEvents'[p], i)
  <2>1. ASSUME NEW p \in DOMAIN unlockEvents', NEW i, Answers(unlockEvents'[p], i)
        PROVE  /\ i \in DOMAIN outEvents'
               /\ IsWithdrawal(i, unlockEvents[p].user, unlockEvents[p].amount, unlockEvents[p].nonce)'
    <3>1. i \in DOMAIN outEvents' /\ outEvents'[i] = outEvents[i] /\ burnTx'[i] = burnTx[i]
      BY <2>1, SystemStepOfKeeper, BurnsGrow, TxLoggedStep DEF Typed
    <3> QED BY <2>1, <3>1 DEF IsWithdrawal, BurnAmount
  <2> QED BY <2>1 DEF ReleasesBacked
<1> TAKE p \in DOMAIN unlockEvents'
<1>2. CASE p \in DOMAIN unlockEvents /\ unlockEvents'[p] = unlockEvents[p]
  BY <1>2 DEF ReleasesBacked
<1>3. CASE ~(p \in DOMAIN unlockEvents /\ unlockEvents'[p] = unlockEvents[p])
  <2>1. PICK u \in BscUsers, a \in Amounts, n \in UnlockNonces : SubmitUnlock(u, a, n)
    BY <1>3 DEF SystemNext, systemVars, lockBoxVars, unlockVars, BscStep, CosmosStep, AttestLock,
       AttestBurn, SubmitBridgeIn, Withdraw, Lock, Administer, Pause, Unpause, RotateCircuitBreaker,
       TransferToken, NextBlock
  <2>2. unlockEvents' = Append(unlockEvents,
           [user |-> u, amount |-> a, nonce |-> n, block |-> blockNumber])
    BY <2>1 DEF SubmitUnlock, Unlock
  <2>3. unlockEvents'[p] = [user |-> u, amount |-> a, nonce |-> n, block |-> blockNumber]
    <3>1. unlockEvents \in Seq(UnlockEvent)
      BY DEF Typed, LockBoxTypeOK
    <3> QED BY <1>3, <2>2, <3>1
  <2> QED BY <2>1, <2>3, PaymentHasBurn
<1> QED BY <1>2, <1>3

------------------------------------------------------------------------------
LEMMA TypedAlways == SystemSpec => []Typed
<1>1. KeeperSpec => []KeeperTypeOK
  <2>1. Accounting /\ [KeeperNext]_keeperVars => Accounting'
    BY AccountingStep
  <2>2. Accounting => KeeperTypeOK
    BY DEF Accounting
  <2> QED BY AccountingInit, <2>1, <2>2, PTL DEF KeeperSpec
<1>2. EscrowInv => LockBoxTypeOK
  BY DEF EscrowInv
<1>3. LockBoxTypeOK /\ KeeperTypeOK => Typed
  BY DEF Typed
<1> QED BY <1>1, <1>2, <1>3, LockBoxAlways, SystemHasLockBox, SystemHasKeeper, PTL

\* No mint without a deposit: as long as governance registers every relayer
\* under its own key (MsgUpdateBridgeRelayerSet does not look), fewer than a
\* quorum of faulty relayers cannot make MsgBridgeIn mint anything that
\* LockBox.sol has not locked for this receiver, amount and nonce, and that
\* the daemon's confirmation depth has not passed.
THEOREM MintsAreBacked ==
    ASSUME DistinctKeys
    PROVE  SystemSpec => []MintsBacked
<1>1. SystemInit => OwnKeys /\ LocksSeen /\ MintsBacked
  BY SystemParams DEF SystemInit, KeeperInit, OwnKeys, LocksSeen, MintsBacked
<1>2. Typed /\ OwnKeys /\ LocksSeen /\ MintsBacked /\ [SystemNext]_systemVars
        => (OwnKeys /\ LocksSeen /\ MintsBacked)'
  BY OwnKeysStep, LocksSeenStep, MintsBackedStep
<1> QED BY <1>1, <1>2, TypedAlways, PTL DEF SystemSpec

\* No release without a burn: fewer than a threshold of faulty relayers cannot
\* make unlock() pay anything that no MsgBridgeOut has burned for this user,
\* amount and transaction.
THEOREM ReleasesAreBacked == SystemSpec => []ReleasesBacked
<1>1. SystemInit => TxLogged /\ ReleasesBacked
  BY DEF SystemInit, LockBoxInit, KeeperInit, TxLogged, ReleasesBacked
<1>2. Typed /\ TxLogged /\ ReleasesBacked /\ [SystemNext]_systemVars => (TxLogged /\ ReleasesBacked)'
  BY TxLoggedStep, ReleasesBackedStep
<1> QED BY <1>1, <1>2, TypedAlways, PTL DEF SystemSpec
------------------------------------------------------------------------------
(***************************************************************************)
(* The refinement.  A mint is MintDeposit because a quorum has a correct   *)
(* relayer and the registry knows the nonces that minted; a release is     *)
(* PayWithdrawal because the committee has one too and the bitmap knows    *)
(* the nonces that were paid; a burn is BurnWithdrawal because the count   *)
(* of the module is the supply.                                            *)
(***************************************************************************)
LEMMA LoggedAppend ==
    ASSUME NEW S, NEW log \in Seq(S), NEW e \in S
    PROVE  Logged(Append(log, e)) = Logged(log) \cup {e}
<1>1. \A x \in Logged(Append(log, e)) : x \in Logged(log) \cup {e}
  BY LogAppend DEF Logged
<1>2. \A x \in Logged(log) : x \in Logged(Append(log, e))
  BY LogAppend DEF Logged
<1>3. e \in Logged(Append(log, e))
  BY LogAppend DEF Logged
<1> QED BY <1>1, <1>2, <1>3

\* An event more in a log is a record more of the abstract state.
LEMMA EventsRecorded ==
    ASSUME NEW S, NEW log \in Seq(S), NEW e \in S
    PROVE  /\ DepositsOfLocks(Append(log, e)) = DepositsOfLocks(log)
                 \cup {DepositRecord(e.recipient, RelayedAmount(e.amount), e.nonce)}
           /\ DepositsOfMints(Append(log, e)) = DepositsOfMints(log)
                 \cup {DepositRecord(e.receiver, e.coins["uwsov"], e.nonce)}
           /\ WithdrawalsOfUnlocks(Append(log, e)) = WithdrawalsOfUnlocks(log)
                 \cup {WithdrawalRecord(e.user, e.amount, e.nonce)}
BY LoggedAppend DEF DepositsOfLocks, DepositsOfMints, WithdrawalsOfUnlocks

LEMMA BurnRecorded ==
    ASSUME NEW S, NEW log \in Seq(S), NEW e \in S,
           NEW txs \in Seq(1..MaxTxs), NEW tx \in 1..MaxTxs, Len(txs) = Len(log)
    PROVE  WithdrawalsOfBurns(Append(log, e), Append(txs, tx)) = WithdrawalsOfBurns(log, txs)
              \cup {WithdrawalRecord(e.recipient, BurnAmount(e.coins), TxHash(tx))}
<1> DEFINE log2 == Append(log, e)
           txs2 == Append(txs, tx)
           rec(l, t, i) == WithdrawalRecord(l[i].recipient, BurnAmount(l[i].coins), TxHash(t[i]))
           n == Len(log) + 1
<1>1. DOMAIN log2 = DOMAIN log \cup {n} /\ log2[n] = e /\ txs2[n] = tx
  BY LogAppend
<1>2. \A i \in DOMAIN log : log2[i] = log[i] /\ txs2[i] = txs[i]
  BY LogAppend
<1> HIDE DEF log2, txs2, n
<1>3. \A i \in DOMAIN log : rec(log2, txs2, i) = rec(log, txs, i)
  BY <1>2
<1>4. rec(log2, txs2, n) = WithdrawalRecord(e.recipient, BurnAmount(e.coins), TxHash(tx))
  BY <1>1
<1> HIDE DEF rec
<1>5. {rec(log2, txs2, i) : i \in DOMAIN log2}
         = {rec(log, txs, i) : i \in DOMAIN log} \cup {rec(log2, txs2, n)}
  BY <1>1, <1>3
<1> QED BY <1>4, <1>5 DEF WithdrawalsOfBurns, rec, log2, txs2

------------------------------------------------------------------------------
\* What holds of every state the refinement maps.
PegInv ==
    /\ Typed /\ CirculationIsSupply /\ RegistryMatchesMints
    /\ NoncesFromUsedCounters /\ PaidNoncesRecorded
    /\ OwnKeys /\ LocksSeen /\ TxLogged

\* Every locked deposit has a record that PeggedToken may lock.
LEMMA LockedAreRecords == PegInv => LockedDeposits \subseteq DepositRecords
<1> SUFFICES ASSUME PegInv, NEW i \in DOMAIN lockEvents
             PROVE  DepositRecord(lockEvents[i].recipient, RelayedAmount(lockEvents[i].amount),
                                  lockEvents[i].nonce) \in DepositRecords
  BY DEF LockedDeposits, DepositsOfLocks, Logged
<1>1. lockEvents[i] \in LockEvent
  BY DEF PegInv, Typed, LockBoxTypeOK
<1>2. /\ lockEvents[i].recipient \in Accounts
      /\ lockEvents[i].user \in TokenHolders /\ lockEvents[i].amount \in Amounts
  BY <1>1, SystemParams DEF LockEvent
<1>3. PICK n \in 0..MaxUserNonce :
         /\ lockEvents[i].block \in 1..MaxBlock
         /\ lockEvents[i].nonce
               = NonceHash(lockEvents[i].user, n, lockEvents[i].block, lockEvents[i].amount)
  BY DEF PegInv, NoncesFromUsedCounters
<1>4. <<lockEvents[i].user, n, lockEvents[i].block, lockEvents[i].amount>> \in LockPreimages
  BY <1>2, <1>3 DEF LockPreimages
<1>5. lockEvents[i].nonce \in LockNonces
  BY <1>3, <1>4 DEF LockNonces
<1> QED BY <1>2, <1>5 DEF DepositRecord, DepositRecords

\* Every withdrawal burned for has a record that PeggedToken may burn.
LEMMA BurnedAreRecords == PegInv => BurnedWithdrawals \subseteq WithdrawalRecords
<1> SUFFICES ASSUME PegInv, NEW i \in DOMAIN outEvents
             PROVE  WithdrawalRecord(outEvents[i].recipient, BurnAmount(outEvents[i].coins),
                                     TxHash(burnTx[i])) \in WithdrawalRecords
  BY DEF BurnedWithdrawals, WithdrawalsOfBurns
<1>1. outEvents \in Seq(OutEvent) /\ burnTx \in Seq(1..MaxTxs) /\ Len(burnTx) = Len(outEvents)
  BY DEF PegInv, Typed, KeeperTypeOK, TxLogged
<1>2. outEvents[i] \in OutEvent /\ burnTx[i] \in 1..MaxTxs
  <2>1. i \in 1..Len(outEvents) /\ i \in 1..Len(burnTx)
    BY <1>1
  <2> QED BY <1>1, <2>1, ElementOfSeq
<1>3. outEvents[i].recipient \in BscUsers /\ outEvents[i].coins \in Withdrawals
  BY <1>2 DEF OutEvent
<1> QED BY <1>2, <1>3 DEF WithdrawalRecord, WithdrawalRecords

LEMMA PegInitHolds == SystemInit => Peg!PegInit
BY DEF SystemInit, LockBoxInit, KeeperInit, Peg!PegInit, LockedDeposits, MintedDeposits,
       BurnedWithdrawals, PaidWithdrawals, DepositsOfLocks, DepositsOfMints, WithdrawalsOfBurns,
       WithdrawalsOfUnlocks, Logged

------------------------------------------------------------------------------
LEMMA LockIsLock ==
    ASSUME PegInv, UNCHANGED keeperVars, Unattested,
           NEW u \in TokenHolders, NEW a \in Amounts, NEW r \in CosmosRecipients, Lock(u, a, r)
    PROVE  Peg!PegNext
<1> DEFINE d == DepositRecord(r, RelayedAmount(a), LockNonce(u, a))
           e == [user |-> u, amount |-> a, recipient |-> r, nonce |-> LockNonce(u, a),
                 block |-> blockNumber]
<1>1. lockEvents' = Append(lockEvents, e) /\ lockEvents \in Seq(LockEvent)
  BY DEF Lock, PegInv, Typed, LockBoxTypeOK
<1>2. <<u, userNonce[u], blockNumber, a>> \in LockPreimages
  BY DEF Lock, PegInv, Typed, LockBoxTypeOK, LockPreimages
<1>3. LockNonce(u, a) \in Nat \cap LockNonces
  BY <1>2, NonceHashParams DEF LockNonce, LockNonces
<1>4. e \in LockEvent
  <2>1. blockNumber \in Nat
    BY DEF PegInv, Typed, LockBoxTypeOK
  <2> QED BY <1>3, <2>1 DEF LockEvent
<1>5. DepositsOfLocks(lockEvents') = DepositsOfLocks(lockEvents) \cup {d}
  BY <1>1, <1>4, EventsRecorded
<1>6. DepositsOfLocks(lockEvents)' = DepositsOfLocks(lockEvents) \cup {d}
  BY <1>5
<1>7. d \in DepositRecords
  BY <1>3, SystemParams DEF DepositRecord, DepositRecords
<1>8. UNCHANGED <<inEvents, wrappedSupply, outEvents, burnTx, unlockEvents>>
  BY DEF Lock, unlockVars, keeperVars, Unattested
<1> QED BY <1>6, <1>7, <1>8
        DEF Peg!PegNext, Peg!LockDeposit, LockedDeposits, MintedDeposits, BurnedWithdrawals, PaidWithdrawals

LEMMA MintIsMint ==
    ASSUME PegInv, NEW r \in Accounts, NEW c \in Deposits, NEW n \in Nonces,
           SubmitBridgeIn(r, c, n)
    PROVE  Peg!PegNext
<1> DEFINE d == DepositRecord(r, c["uwsov"], n)
           e == [receiver |-> r, coins |-> c, nonce |-> n]
<1>1. PICK sigs : BridgeIn(r, c, n, sigs)
  BY DEF SubmitBridgeIn
<1>2. PICK i \in DOMAIN lockEvents : IsDeposit(i, r, c, n)
  BY MintHasDeposit DEF PegInv
<1>3. d \in LockedDeposits
  <2>1. c["uwsov"] = RelayedAmount(lockEvents[i].amount)
    BY <1>2 DEF IsDeposit, RelayedCoins, Denoms
  <2> QED BY <1>2, <2>1 DEF IsDeposit, LockedDeposits, DepositsOfLocks, Logged
<1>4. d \in DepositRecords
  BY <1>3, LockedAreRecords
<1>5. d \notin MintedDeposits
  <2>1. \A x \in Logged(inEvents) : x.nonce # n
    BY <1>1 DEF BridgeIn, PegInv, RegistryMatchesMints, Logged
  <2> QED BY <2>1 DEF MintedDeposits, DepositsOfMints, DepositRecord
<1>6. DepositsOfMints(inEvents') = DepositsOfMints(inEvents) \cup {d}
  <2>1. inEvents \in Seq(InEvent) /\ e \in InEvent
    BY DEF PegInv, Typed, KeeperTypeOK, InEvent
  <2> QED BY <1>1, <2>1, EventsRecorded DEF BridgeIn
<1>7. DepositsOfMints(inEvents)' = DepositsOfMints(inEvents) \cup {d}
  BY <1>6
<1>8. wrappedSupply' = wrappedSupply + d.amount
  BY <1>1 DEF BridgeIn, DepositRecord
<1>9. UNCHANGED <<lockEvents, outEvents, burnTx, unlockEvents>>
  BY <1>1 DEF SubmitBridgeIn, BridgeIn, lockBoxVars, lockVars, unlockVars, Unattested
<1>10. d \in LockedDeposits \ MintedDeposits
  BY <1>3, <1>5
<1> HIDE DEF d
<1> QED BY <1>4, <1>10, <1>7, <1>8, <1>9
        DEF Peg!PegNext, Peg!MintDeposit, LockedDeposits, MintedDeposits, BurnedWithdrawals, PaidWithdrawals

LEMMA BurnIsBurn ==
    ASSUME OnlyWrappedLeaves, PegInv,
           NEW a \in Accounts, NEW u \in BscUsers, NEW c \in Withdrawals, Withdraw(a, u, c)
    PROVE  Peg!PegNext
<1> DEFINE e == [sender |-> a, recipient |-> u, coins |-> c]
<1>1. PICK tx \in 1..MaxTxs : burnTx' = Append(burnTx, tx)
  BY BurnHasTx DEF PegInv
<1> DEFINE w == WithdrawalRecord(u, BurnAmount(c), TxHash(tx))
<1>2. BurnAmount(c) = c["uwsov"]
  BY DEF OnlyWrappedLeaves, BurnAmount
<1>3. w \in WithdrawalRecords
  BY DEF WithdrawalRecord, WithdrawalRecords
<1>4. WithdrawalsOfBurns(outEvents', burnTx') = WithdrawalsOfBurns(outEvents, burnTx) \cup {w}
  <2>1. outEvents \in Seq(OutEvent) /\ burnTx \in Seq(1..MaxTxs) /\ Len(burnTx) = Len(outEvents)
    BY DEF PegInv, Typed, KeeperTypeOK, TxLogged
  <2>2. e \in OutEvent
    BY DEF OutEvent
  <2>3. outEvents' = Append(outEvents, e)
    BY DEF Withdraw, BridgeOut
  <2>4. e.recipient = u /\ e.coins = c
    OBVIOUS
  <2> HIDE DEF e
  <2>5. WithdrawalsOfBurns(Append(outEvents, e), Append(burnTx, tx))
           = WithdrawalsOfBurns(outEvents, burnTx)
                \cup {WithdrawalRecord(e.recipient, BurnAmount(e.coins), TxHash(tx))}
    BY <2>1, <2>2, BurnRecorded
  <2> QED BY <1>1, <2>3, <2>4, <2>5
<1>5. WithdrawalsOfBurns(outEvents, burnTx)' = WithdrawalsOfBurns(outEvents, burnTx) \cup {w}
  BY <1>4
<1>6. w.amount <= wrappedSupply /\ wrappedSupply' = wrappedSupply - w.amount
  BY <1>2 DEF Withdraw, BridgeOut, PegInv, CirculationIsSupply, WithdrawalRecord
<1>7. UNCHANGED <<lockEvents, inEvents, unlockEvents>>
  BY DEF Withdraw, BridgeOut, lockBoxVars, lockVars, unlockVars
<1> HIDE DEF w
<1> QED BY <1>3, <1>5, <1>6, <1>7
        DEF Peg!PegNext, Peg!BurnWithdrawal, LockedDeposits, MintedDeposits, BurnedWithdrawals, PaidWithdrawals

LEMMA PayIsPay ==
    ASSUME PegInv, NEW u \in BscUsers, NEW a \in Amounts, NEW n \in UnlockNonces,
           SubmitUnlock(u, a, n)
    PROVE  Peg!PegNext
<1> DEFINE w == WithdrawalRecord(u, a, n)
           e == [user |-> u, amount |-> a, nonce |-> n, block |-> blockNumber]
<1>1. PICK sigs : Unlock(u, a, n, sigs)
  BY DEF SubmitUnlock
<1>2. PICK i \in DOMAIN outEvents : IsWithdrawal(i, u, a, n)
  BY PaymentHasBurn
<1>3. w \in BurnedWithdrawals
  BY <1>2 DEF IsWithdrawal, BurnedWithdrawals, WithdrawalsOfBurns
<1>4. w \in WithdrawalRecords
  BY <1>3, BurnedAreRecords
<1>5. \A p \in PaidWithdrawals : p.nonce # w.nonce
  <2>1. \A x \in Logged(unlockEvents) : x.nonce # n
    BY <1>1 DEF Unlock, PegInv, PaidNoncesRecorded, Logged
  <2> QED BY <2>1 DEF PaidWithdrawals, WithdrawalsOfUnlocks, WithdrawalRecord
<1>6. WithdrawalsOfUnlocks(unlockEvents') = WithdrawalsOfUnlocks(unlockEvents) \cup {w}
  <2>1. unlockEvents \in Seq(UnlockEvent) /\ blockNumber \in Nat
    BY DEF PegInv, Typed, LockBoxTypeOK
  <2>2. e \in UnlockEvent
    BY <2>1, SystemParams DEF UnlockEvent
  <2> QED BY <1>1, <2>1, <2>2, EventsRecorded DEF Unlock
<1>7. WithdrawalsOfUnlocks(unlockEvents)' = WithdrawalsOfUnlocks(unlockEvents) \cup {w}
  BY <1>6
<1>8. UNCHANGED <<lockEvents, inEvents, wrappedSupply, outEvents, burnTx>>
  BY <1>1 DEF SubmitUnlock, Unlock, lockVars, keeperVars, Unattested
<1> HIDE DEF w
<1> QED BY <1>3, <1>4, <1>5, <1>7, <1>8
        DEF Peg!PegNext, Peg!PayWithdrawal, LockedDeposits, MintedDeposits, BurnedWithdrawals, PaidWithdrawals

\* Every other step leaves the logs and the supply as they are.
LEMMA PegStep ==
    ASSUME OnlyWrappedLeaves, PegInv, [SystemNext]_systemVars
    PROVE  [Peg!PegNext]_(Peg!pegVars)
<1>1. ASSUME NEW u \in TokenHolders, NEW a \in Amounts, NEW r \in CosmosRecipients,
             Lock(u, a, r), UNCHANGED keeperVars, Unattested
      PROVE  Peg!PegNext
  BY <1>1, LockIsLock
<1>2. ASSUME NEW r \in Accounts, NEW c \in Deposits, NEW n \in Nonces, SubmitBridgeIn(r, c, n)
      PROVE  Peg!PegNext
  BY <1>2, MintIsMint
<1>3. ASSUME NEW a \in Accounts, NEW u \in BscUsers, NEW c \in Withdrawals, Withdraw(a, u, c)
      PROVE  Peg!PegNext
  BY <1>3, BurnIsBurn
<1>4. ASSUME NEW u \in BscUsers, NEW a \in Amounts, NEW n \in UnlockNonces, SubmitUnlock(u, a, n)
      PROVE  Peg!PegNext
  BY <1>4, PayIsPay
<1>5. ASSUME UNCHANGED <<lockEvents, inEvents, wrappedSupply, outEvents, burnTx, unlockEvents>>
      PROVE  UNCHANGED Peg!pegVars
  BY <1>5 DEF Peg!pegVars, LockedDeposits, MintedDeposits, BurnedWithdrawals, PaidWithdrawals
<1>6. ASSUME BscStep, ~ \E u \in TokenHolders, a \in Amounts, r \in CosmosRecipients : Lock(u, a, r)
      PROVE  UNCHANGED <<lockEvents, inEvents, wrappedSupply, outEvents, burnTx, unlockEvents>>
  BY <1>6 DEF BscStep, Unattested, keeperVars, lockVars, unlockVars, Administer, Pause, Unpause,
     RotateCircuitBreaker, TransferToken, NextBlock
<1>7. ASSUME CosmosStep
      PROVE  UNCHANGED <<lockEvents, inEvents, wrappedSupply, outEvents, burnTx, unlockEvents>>
  BY <1>7 DEF CosmosStep, Unattested, lockBoxVars, lockVars, unlockVars, SetRelayer, DeleteRelayer, Transfer
<1>8. ASSUME NEW r, NEW i, AttestLock(r, i) \/ AttestBurn(r, i)
      PROVE  UNCHANGED <<lockEvents, inEvents, wrappedSupply, outEvents, burnTx, unlockEvents>>
  BY <1>8 DEF AttestLock, AttestBurn, lockBoxVars, lockVars, unlockVars, keeperVars
<1>9. CASE UNCHANGED systemVars
  BY <1>9, <1>5 DEF systemVars, lockBoxVars, lockVars, unlockVars, keeperVars
<1>10. CASE BscStep
  BY <1>1, <1>5, <1>6, <1>10 DEF BscStep
<1> QED BY <1>2, <1>3, <1>4, <1>5, <1>7, <1>8, <1>9, <1>10 DEF SystemNext

------------------------------------------------------------------------------
\* The bridge is a pegged token.  As long as governance registers every
\* relayer under its own key and only wrapped tokens leave through
\* MsgBridgeOut, the two contracts and the relayers between them do nothing a
\* PeggedToken could not do: they mint a deposit once and after it was locked,
\* burn no more than circulates, and pay a withdrawal once and after its burn.
THEOREM BridgeIsPeggedToken ==
    ASSUME DistinctKeys, OnlyWrappedLeaves
    PROVE  SystemSpec => ImplementsPeg
<1>1. KeeperSpec => [](CirculationIsSupply /\ RegistryMatchesMints)
  <2>1. KeeperInit => Accounting /\ Replay
    BY AccountingInit, ReplayInit
  <2>2. Accounting /\ Replay /\ [KeeperNext]_keeperVars => (Accounting /\ Replay)'
    BY AccountingStep, ReplayStep
  <2>3. Accounting /\ Replay => CirculationIsSupply /\ RegistryMatchesMints
    BY DEF Accounting, Replay
  <2> QED BY <2>1, <2>2, <2>3, PTL DEF KeeperSpec
<1>2. EscrowInv /\ LocksInv /\ UnlockInv => NoncesFromUsedCounters /\ PaidNoncesRecorded
  BY DEF LocksInv, UnlockInv
<1>3. SystemInit => OwnKeys /\ LocksSeen /\ TxLogged
  BY SystemParams DEF SystemInit, KeeperInit, OwnKeys, LocksSeen, TxLogged
<1>4. Typed /\ OwnKeys /\ LocksSeen /\ TxLogged /\ [SystemNext]_systemVars
        => (OwnKeys /\ LocksSeen /\ TxLogged)'
  BY OwnKeysStep, LocksSeenStep, TxLoggedStep
<1>5. SystemSpec => [](OwnKeys /\ LocksSeen /\ TxLogged)
  BY <1>3, <1>4, TypedAlways, PTL DEF SystemSpec
<1>6. SystemSpec => []PegInv
  <2>1. Typed /\ CirculationIsSupply /\ RegistryMatchesMints /\ NoncesFromUsedCounters
           /\ PaidNoncesRecorded /\ OwnKeys /\ LocksSeen /\ TxLogged => PegInv
    BY DEF PegInv
  <2> QED BY <1>1, <1>2, <1>5, <2>1, TypedAlways, LockBoxAlways, SystemHasLockBox, SystemHasKeeper, PTL
<1>7. PegInv /\ [SystemNext]_systemVars => [Peg!PegNext]_(Peg!pegVars)
  BY PegStep
<1> QED BY <1>6, <1>7, PegInitHolds, PTL DEF SystemSpec, ImplementsPeg, Peg!PegSpec
==============================================================================
