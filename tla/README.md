# Verification of the Sovereign Layer-2 chain

TLA+ models of the Sovereign chain and its bridge, checked with TLC on small
instances, and theorems about them proved with TLAPS. The models are translated
from the code of this repository; `PROJECT.json` names the lines each definition
stands for (`map`), the runs, the mutants that show each property can fail, the
hazards and the theorems.

    tlc -workers 2 -config MC_LockBox.cfg MC_LockBox      # a run
    tlapm BridgeSystem_proofs.tla                         # the proofs of a module

## 1. Inventory

| component | code | state it keeps | operations | what is hard |
|---|---|---|---|---|
| x/bridge keeper | `chain/x/bridge` | relayer registry, nonce bitmap, `CosmosMinted`, x/bank balances | `MsgBridgeIn`, `MsgBridgeOut`, registry updates, genesis export and import | replay of a mint, quorum by key under a changing registry, supply cap, restart from genesis |
| LockBox | `bridge/src/LockBox.sol` | escrow, user counters, nonce bitmap, block limit, pause | `lock`, `unlock`, `pause`, `unpause`, `rotateCircuitBreaker` | replay of an unlock, nonces of equal deposits, the per-block limit, solvency |
| BSC watcher | `relayer/bsc_watcher.go`, `cmd/relayer/main.go` | checkpoint, pending locks, nonce states | scan a block, publish what is deep enough, restart | crash between checkpoint and publication, refused publication, failed RPC, reorganisation |
| Cosmos watcher | `relayer/cosmos_watcher.go`, `db.go` | checkpoint, `burn_events`, nonce states | scan a height, ingest a burn, `ProcessPendingBurns` | the same, with a write-ahead row; other handlers write the same rows |
| signature round | `relayer/sig_aggregator.go`, `submitter.go`, `nats.go`, `cmd/relayer/main.go` | votes, nonce state, running submissions | handle event, handle vote, submit with retries, `HandleTimeout` | four goroutines on one row, redelivery, crash before acknowledgement, early votes |
| signers | `relayer/signer*.go` | a key | sign | RPC to an external signer |
| x/oracle | `chain/x/oracle` | commits, reveals, aggregates, expiry index, operators | `MsgCommitOracleHash`, `MsgRevealOracleReport`, EndBlocker | expiry moved by a second commit, rounds out of order, slashing for a missing reveal, median of large values |
| x/milestone | `chain/x/milestone` | milestones by state, two indexes, feed flags, escrow | `MsgCreateMilestone`, edits by governance, EndBlocker, payouts | stale feed, budget per block, a payout that fails after the state changed |
| x/settlement | `chain/x/settlement` | processed payloads, witness keys, escrow | `MsgSettlement`, key rotation | replay across genesis and rotation, time window, what the signature covers |
| x/certification | `chain/x/certification` | signed bits and counts, rejections, degraded mode, attestations | EndBlocker, parameters | a validator that left and returned, a threshold that grows and a mode that changes it, counts lost at a restart |
| x/validator | `chain/x/validator` | slots, ejection queue | EndBlocker, fill and eject | equal power with more validators than slots, a queue nobody drains |
| x/governance-ext | `chain/x/governance-ext` | - (routes proposals) | `ExecuteProposal` | constitution query that fails, bypasses, several keepers written in turn |
| constitution | `contracts/constitution` | pause flag, governor, cold multisig | pause, unpause, rotate, check a proposal | what a pause stops |
| application wiring | `chain/app` | - | ABCI handlers, export | order of the modules' EndBlockers |
| other CosmWasm contracts | `contracts/{governance,reserve-fund,treasury}` | proposals, approvals, lock flag, disbursements | approve, execute, withdraw, disburse | duplicate approvals, re-entry, repeated disbursement |
| example tokens | `contracts/cw*` | balances | transfer, mint | none beyond arithmetic |
| oracle daemon | `oracle/` | round, account sequence | commit and reveal per round | sequence gap after a failed broadcast, rounds restarting at 1 |
| ingestion | `backend/module/ingestion` | event table, publication marks, height | poll a block, save, publish, mark, back-fill | two workers on the same rows, restart in the middle of a block |
| projection | `backend/module/projection` | tables and counters of the read database | project an event statement by statement | increments under at-least-once delivery, a consumer that starts over |
| faucet | `explorer-api` (`handleFaucet`), `backend/module/faucet` | cooldowns, a mutex; buckets of the API's limiter (`explorer.accounts` lacks the column for the last drip) | limit, pay, remember | a limit that cannot be read, check and act apart, lost answers, a second address |
| explorer wallet and faucet page | `explorer/store/wallet.ts`, `components/MultiWalletButton.tsx`, `app/faucet/page.tsx` | connected wallet; field, countdown, entries in the browser | connect, follow the extension, request | handlers that run between an await and its use |
| explorer API and indexer, other frontends | `explorer-api`, `explorer-indexer`, `backend/module/api`, `explorer/app`, `frontend` | rows by height, caches | index, serve, show | no protocol between components |

How they interact. A user calls `lock` on BSC. Each relayer's BSC watcher reads
the `Locked` event, waits for 15 or 50 confirmations and publishes it on NATS;
every daemon's event handler signs it and publishes a vote; the vote handler
counts votes in the daemon's own database and, at the quorum, starts a
submission, `MsgBridgeIn`, which mints. `MsgBridgeOut` burns; each Cosmos watcher
records the event in its database and publishes it; the votes on it become a call
of `unlock`. Watcher, handlers and submissions are goroutines that share database
rows and no lock. Governance edits the keeper's relayer registry; LockBox's
committee is fixed by its constructor. x/milestone reads prices of x/oracle in its
EndBlocker and releases vesting funds. x/governance-ext writes the parameters of
the other modules after asking the constitution contract. At the end of a block
x/staking elects, x/validator hands out slots and x/certification moves its windows and
jails. Ingestion polls the chain and publishes its events on a stream, from which
projection fills the database that the explorer reads. The faucet page takes its
address from the wallet store and asks the API, which asks the faucet daemon.

What makes each correct, in a sentence: a deposit is minted once and only when
locked (keeper, system); a burn is paid once and only when burned (LockBox, system);
escrow covers the circulation (system); no deposit or burn is lost by a daemon
(watchers, round); a price is the median of revealed reports and who withholds is
slashed once (oracle); a milestone is paid once and only on a fresh, achieved
condition (milestone); a settlement payload pays once (settlement); a validator is
jailed only when too few of its signatures in the window were counted (certification); the marks in the set never
exceed its slots (validator); a paused constitution stops governance (governance-ext); an
event of the chain is stored and projected, and counted once (ingestion, projection); an
account is not paid again while the daemon remembers its last drip, and the browser locks
what was paid or refused (faucet, page); the address shown belongs to the wallet shown
(wallet store).

## 2. What is modelled

| module | part | kind |
|---|---|---|
| `NonceBitmap` | the 256-bit-word bitmap both chains keep | operators |
| `BridgeKeeper` | x/bridge with the bank behind it | state machine |
| `LockBox` | the contract with its ERC-20 token | state machine |
| `PeggedToken` | what the bridge promises | abstract specification |
| `BridgeSystem` | LockBox, keeper and a committee with faulty relayers | composition, implements `PeggedToken` |
| `BSCWatcher` | one daemon's loop over BSC | state machine with faults |
| `CosmosWatcher` | one daemon's loop over the Sovereign chain | state machine with faults |
| `SignatureRound` | one nonce through a daemon's goroutines | state machine with faults |
| `Oracle` | x/oracle | state machine |
| `Milestone` | x/milestone on top of x/oracle | composition, extends `Oracle` |
| `ValidatorSet` | x/validator, with x/staking as far as it is used | state machine |
| `Certification` | x/certification on x/validator and CometBFT's sets | composition, extends `ValidatorSet` |
| `Settlement` | x/settlement | state machine |
| `GovernanceExt` | x/governance-ext and the constitution over the three | composition |
| `Ingestion` | the ingestion service | state machine with faults |
| `Projection` | the projection service behind it | composition with faults |
| `Faucet` | the faucet's API and its daemon | state machine with faults |
| `WalletStore` | the explorer's wallet store | state machine |
| `FaucetPage` | the faucet page between the two | composition |
| `BridgeSystem_proofs` | theorems about the bitmap, the contract, the keeper and their composition | TLAPS |
| `*_proofs` | theorems about the module of the name, and what it extends | TLAPS |
| `MC_*` | instances for TLC | |

**NonceBitmap.** A word is the set of its 1 bits; an absent word is absent from the
function's domain, as its key is from the store. Storing rewrites one word.

**BridgeKeeper.** A message that returns an error is rolled back, so an action is
the successful path: the conjuncts before the first primed variable are the
handler's early returns in their order. `IsSignedMap` is the loop over signatures: a
signature is credited to one relayer holding the verifying key that was not yet
credited, so a key registered under two addresses credits two relayers if it signs
twice. The model takes the number of signatures that verify under each key; the
loop's order is the choice of which holder is credited. Events are kept as
sequences, since they are what relayers see. `ExportImportGenesis` restores what
`ExportGenesis` writes; it writes no bitmap.

**LockBox.** A failed `require` reverts, so again only the successful path is a step.
The ERC-20 token reverts on insufficient balance (`MockERC20.sol`, as `unlock`
and `lock` use it); allowances are abstracted to "the depositor approved". Anyone
may send tokens to the contract without `lock`. `NonceHash` is a parameter assumed
free of collisions (`NonceHashParams`), which is the assumption one makes of
keccak256.

**BridgeSystem** conjoins the two and adds which relayer has signed what. A correct
relayer signs what its daemon decodes, in the widths the daemon uses: amounts are
cut to `Width` bits (`uint64`), a burn's amount is the number its printed coins
begin with (`Sscanf "%d"`, so `ucsov` precedes `uwsov`), a burn's nonce is the hash
of its transaction (two burns of one transaction share it), and signing goes
through `int64`, which panics beyond it (`Signable`). Signatures are public: anyone
submits any of those that exist, in any order, any number of times. Faulty relayers
sign anything.

**BSCWatcher.** `FetchHead`, `ScanBlock`, `PublishNext`, `FinishBlock` are the loop and
`UpdateBlockNumber` cut at its writes: a publication and its "confirmed" row are one
step; `PublishFails` is the early return that keeps `pendingLocks`. `lastSeen` moves after the block
whether or not `UpdateBlockNumber` failed, since the loop ignores its error.

**CosmosWatcher.** `IngestBurnEvent` statement by statement, so that a crash can fall
between any two of its database calls, with `ProcessPendingBurns` and the writes
that the daemon's other goroutines make to the same rows (`PeerAnnounces`,
`VotesReady`; the latter over-approximates: it needs no votes).

**SignatureRound.** One nonce, one daemon, the goroutines that touch it interleaved
between any two database calls: watcher, event handler, vote handler, any number of
submissions, and `HandleTimeout` (which nothing in `main` calls; runs bound how often
a ticker may). `SignedHash` and `VerifiedHash` are what the handler signs and what
`IngestVote` checks it against: for a lock they are the same, for a burn the second
has the Ethereum prefix. The handler drops the error of publishing its own vote and
acknowledges the event, so that this vote is lost for good (`VoteLost`, bounded by
`MaxLostVotes`).

**Oracle.** A report is keyed by operator, feed and round, as the store keys it
(`CombineKeySuffix`). A hash is the value it commits to: sha256 is taken to have no
collisions and to hide its value. `CommitHash` rewrites the commit, its height and the
expiry index; `RevealReport` is the keeper's method and the aggregation that its
message handler adds. `CalculateMedian` and `FilterOutliersMAD` are the code's
arithmetic on unsigned numbers of `Width` bits, sums and products wrapping. The values
of a round are a function from operators, whose order in the store does not matter to
a median. `OracleEndBlocker` settles what expires: `slashes` is a history of the calls
of `Slash` that reach a validator, with the height of the commit behind them.
`OracleExportImport` is a restart from the exported genesis, which has the parameters
and the operators only.

**Milestone** extends `Oracle` and adds the milestones, both indexes, the flags of feeds
and the escrow. `SetMilestone` is the one place that writes a milestone and its indexes,
and every other operation goes through it, as in the code. The EndBlocker is two loops
with a counter they share; it is written as two recursive functions of the turn over a record of the store,
`ProcessFeed` over the feeds and `ProcessMilestone` over the milestones of one, in the
order of their keys. A block ends with x/oracle's EndBlocker and then
x/milestone's (`EndBlock`, `app.go:744`).

**ValidatorSet** and **Certification.** `bonded` is what `IterateLastValidatorPowers` goes
over; `staked` and `jailed` say whom x/staking elects next. The EndBlocker of x/validator
is a pass in the order of addresses, written as the set of those with fewer than
`maxValidators` before them. The window keeps the heights whose stored bit is 1; it and
the count change for members of the set only. `since`, `present` and `voted` are the
chain's own record, for the properties; `voted` is the commit information as it is
delivered, of validators in the set and of those dropped from it. Who may have voted in the
commit a block carries is the set elected three blocks before (CometBFT applies an election
two blocks later, and a commit is in the next block), so a validator signs on after its
removal, and the module, which reads the commit for the present set, does not count that:
`UncountedVotes`. CometBFT makes no block that leaves the chain without validators
(`Elected # {}`). What a block reports of the last proposal is an input.

**Settlement.** A witness's signature is a fact, of a key and a payload; the message adds
amount, destination and time freely, as the signed bytes cover neither (types.go:92).
`ProcessSettlement` is the successful path, as in the keeper.

**GovernanceExt.** `ConstitutionAllows` is the three ways the query can end; the contract
is `CheckProposal` and its four messages. `violates` is an input: whether the text of a
proposal has the word the contract looks for. `Restart` is a genesis restart of all four
modules; the contract's state survives it.

**Ingestion.** `todo` is the list of events of the block in hand, `step` the statement of
`saveAndPublishEvent` that is next; the back-fill worker holds a batch of its own, so the
two interleave between any two statements. A publication that fails may have arrived. What a
block yields (`Fetched`) is what `fetchBlockEvents` makes of the chain: the first
event is always `validator_uptime`.

**Projection.** `Statements` is the list of statements `projectEvent` runs for an event,
each an upsert, an insertion that keeps an old row, or an addition to counters;
`ExecuteStatement` commits the next one. Amounts are abstracted to counts.

**Faucet.** `calls` are the handlers of the API and `handlers` those of the daemon, two for a
call, since the second address may be asked when the first answer is lost. `LimiterRefuses` is
the API's own limiter (ten requests a second from a client), which answers before the handler
runs. The handler's limit of one drip a day reads and writes `last_faucet_drip`, a column that
the repository's schema does not create; both statements fail and both errors are dropped, so
`CheckLimit` always goes on and nothing is recorded. What is left is the daemon's cooldown,
read before its mutex is taken and kept inside. `recorded` and `seen` are histories for the
property: of which handlers the daemon remembers the cooldown, and of which it did when it let
a handler through.

**WalletStore.** Each `await` ends an action: a connection holds the account MetaMask gave
until its last attempt to switch the chain, a keystore handler the provider it asked.
`stale` marks a write of a handler whose wallet had been exchanged in between.

**FaucetPage.** The state of the page, its entries in `localStorage` and the request it
awaits. `SetTarget` is the setter with the effect on its value; `FollowWallet` the effect on
the store, so that a step of the store and the field are one step (React runs effects
before the next event).

## 3. Runs

| run | instance and bounds | shows |
|---|---|---|
| `keeper` | 2 accounts, 2 relayers, 2 keys (so one key can come to stand under two addresses), cap 3 reached by two deposits, one nonce, restarts until 2 mints | accounting through every message, registry change and restart |
| `lockbox` | 2 holders, committee of 2 with quorum 2 and a stranger, 2 blocks, limit 3, nonces 0 and 256 (same bit of two words) | own nonces, one payment per nonce, solvency, block limit |
| `system` | 3 relayers, 1 faulty, quorums 2, one deep and one shallow amount, two blocks, deposits of 1 and of 10, which 3 bits cut to 2, cap 2, two burn transactions with nonces 255 and 256 (a word boundary); no pause, gift or payment between accounts (`MCSystemSpec`), which `lockbox` and `keeper` have | backing in both directions; the bridge implements `PeggedToken` |
| `bsc_watcher` | 2 deposits (1 and 2 confirmations), 6 blocks, one fault of each kind | what can lose a deposit and what cannot; publication in the end |
| `cosmos_watcher` | 2 burns, in one block or two, 3 blocks, one fault of each kind | the same for burns, with the write-ahead row |
| `round` | 3 relayers, quorum 2, own watcher late, one crash, one redelivery, one failed broadcast, one lost vote of its own, two ticks | quorum before readiness and broadcast, bounded broadcasts, submission in the end |
| `oracle` | 3 operators, one of them faulty, one feed and round, prices 0, 10 and 13 (the filter drops the first, and the median is 11), windows of one block each, two reports for a price, 6 blocks, commits in the first three so that all of them expire; at first nobody is registered and all may report, later the faulty one alone, and again all | an exact expiry index, slashes in time, a price that follows the majority |
| `milestone` | one operator, two feeds, three milestones (two share a feed), a budget of two a block and funds for two of the three payouts, prices fresh for one block, 4 blocks, restarts at any time; creation in the first two blocks, edits of targets in the first | exact indexes, one payout per achieved milestone, settlement on fresh prices only |
| `governed` | 2 validators in 1 or 2 slots, a window of 3 blocks with 2 votes asked and 1 in degraded mode, bootstrapping below height 2, 6 blocks, rejections in two of them; one witness, two keys, one payload, an escrow for two payouts; two messages or restarts | the window, jailing, slots, pause and payouts, through absence, degraded mode and restarts |
| `read_side` | 2 blocks: one whose commit lacks a validator, one with a nil vote and a withdrawal; batches of 2, two faults of any kind | what ingestion can lose, what projection counts twice, and that what is stored arrives |
| `faucet` | 2 accounts with a hexadecimal and a bech32 address each, a Cosmos wallet and MetaMask holding both; 2 requests, of which the page may make either, 2 addresses of the daemon, one fault, a day and a cooldown of 2 seconds each, 2 seconds; a budget of 5 in which a step of the user costs 1 and a request 2 | double payments within the cooldown, entries, the button, the address of the wallet |
| `replay` | violation | after a genesis restart a nonce mints again: the export carries no bitmap |

Why the bounds are enough. Every guard of the keeper and the contract that compares
counts (quorum, cap, block limit, nonces) is met exactly, exceeded by one and missed
by one in the instance. A deposit passes each of the steps locked, deep, signed,
minted, transferred, burned, signed, paid within the `system` bounds, twice for
the mints; the properties relate at most two deposits or two withdrawals, and two of
each fit. In the watchers a fault of every kind, at any point and in any
combination with the others, falls before, in and after the confirmation window of
each of two deposits of different depth. In the round a quorum of 2 out of 3 lets a
vote be missing, exactly enough and one too many. `Width` is 3 where the daemon has
64, and a deposit of 10 is cut to 2. Three
operators are the least of which one may be wrong and the filter is applied; with
windows of one block, a commit, its replacement in each later block, its reveal in time
or late, and the expiry of every one fit. In `milestone` a feed goes stale and recovers, each
duration runs out, the budget ends inside a feed and before one, and the third payout
is not covered.

In `governed` 6 blocks are two windows: a vote enters the window, leaves it with its
validator present or absent, and the set behind a commit is the elected one only from the
fourth block after a genesis. Two changes are an absence and a return, a rotation and its
reuse, a pause and the proposal it stops, or a restart and one of these. In `read_side` the
first block's only event and the second's two fit a batch exactly; two faults are a failure
and its repetition, or a failure in each service. In `faucet` a day and a cooldown end within the run, so
that an entry ends and an account may rightly be paid again; the budget covers two requests with an
action of the user before, between or while they are under way, or one with three.

`CHECK_DEADLOCK FALSE` appears in the runs of `BSCWatcher`, `SignatureRound`, `Oracle`,
`Milestone`, `GovernanceExt`, `Projection` and `FaucetPage`: BSC stops at `MaxBlock` and the
watcher then waits for a block; the round ends when the nonce is submitted and every
message is handled; `oracle`, `milestone` and `governed` stop with the chain at its
greatest height and no message left, `read_side` when the last block is projected, `faucet`
when time, calls and budget are spent.

Symmetry is used in `lockbox` and `system` (committee members, guardians), in
`oracle` (its two correct operators) and in `faucet` (the two calls; the two accounts with
their addresses), which check no liveness property.

The type invariants (`*TypeOK`) hold in all these instances and are part of the inductive
invariants of section 5; no run lists them, as the other properties say more.

## 4. Fairness

- `BSCWatcher`: `WF(Mine)`, BSC keeps producing blocks up to the bound; `WF(WatcherStep)`,
  the loop is a goroutine that waits for no other. Faults are not fair.
- `CosmosWatcher`: `WF(LoopStep)` for the same reason; the chain need not grow.
- `SignatureRound`: weak fairness of each goroutine of the daemon (watcher, event
  handler, vote handler, submissions). The NATS consumers redeliver until
  acknowledged, so a message at the daemon is handled in the end. No peer is fair:
  none has to vote. `HandleTimeout` is not fair.

- `Projection`: `WF(BackfillStep)` and `WF(ProjectStep)`, a ticker and a subscription that
  go on. The chain need not grow, the poll loop need not poll: `StoredIsProjected` is about
  what is stored. Faults are bounded and not fair.

Strong fairness is assumed nowhere.

## 5. Theorems

All for every value of the constants, under the assumptions the modules name. Each
invariant below was checked by TLC on a run's instance before it was proved.

`BridgeSystem_proofs`, from the bitmap up:

- `SetNonceExact`: storing a nonce marks it and changes the answer for no other (by division
  with remainder).
- The contract. `EscrowInv` (escrow + released >= locked) gives `EscrowCoversPending`;
  `LocksInv` (every event's nonce is the hash of a preimage with a counter below the user's
  present one, whence distinct, by collision freedom) gives `DepositsHaveOwnNonces`;
  `UnlockInv` (bitmap exact for the unlock log) gives `NoNonceUnlocksTwice`. `RateInv` (the
  contract's running sum is what the log says of the block that paid last, and no later block
  has paid) gives `NoBlockOverLimit`.
- The keeper. `Accounting` (type, circulation = bank supply = within the cap) is inductive
  under restarts too, which gives `SupplyCapHolds` and `CirculationIsBankSupply` for
  `RestartSpec`. `MintedOnce` is not inductive: it needs that the bitmap answers exactly for
  the nonces in the event log, so `Replay` adds `RegistryMatchesMints`; that gives
  `NoNonceMintsTwice` and `RegistryIsExact` for `KeeperSpec`, without restarts. With them
  TLC refutes it (`replay`).
- `NoHolderShutIn`, also for `RestartSpec`. That each balance is within the circulation is not
  inductive: a burn lowers the circulation for all. That what any list of distinct accounts
  holds is within it, is (`CirculationCovers`): had the burner not been in the list, it could
  have been added (`RoomForAnother`). The accounts need not be finitely many.
- The sums of both are recursive functions, which exist for every length because they can be
  extended by one value (`SumsExist`); `TotalZero` and `TotalNext` are all that is used of them,
  and induction is over the set of positions where a fact holds (`EveryPosition`).
- The composition's steps are steps or stutters of the contract and of the keeper
  (`SystemHasLockBox`, `SystemHasKeeper`), so all of the above holds in it.
  `MintsAreBacked`: a quorum credits `QuorumThreshold` relayers, fewer are faulty, and
  `OwnKeys` (the registry maps each address to its own key) makes the credited relayers'
  keys distinct, so a correct one signed, and `LocksSeen` says it saw the deposit deep
  enough. `ReleasesAreBacked` is the same argument with the committee fixed by the
  constructor.
- `BridgeIsPeggedToken`: `SystemSpec` implements `PeggedToken` under the mapping of
  `BridgeSystem` (sets of records read off the four event logs, and the wrapped supply). A mint is
  of a deposit that was locked (the quorum argument) and not minted before
  (`RegistryMatchesMints`), a payment likewise of a withdrawal (`PaidNoncesRecorded`); a burn is
  within the supply (`CirculationIsSupply`) and recorded with its transaction (`TxLogged`); every
  other step is a stutter. `PegInv` holds these together.

`SignatureRound_proofs`, one nonce in one daemon:

- `RoundTyped`, and `BroadcastsHaveQuorum`: what is broadcast, what the submissions retry and
  what the vote handler holds in hand was read from a database with a quorum of votes, and
  the votes only grow (`SubmissionsHaveQuorum`).
- `BroadcastsAreBounded`. The bound is not inductive: a broadcast is paid for by a message
  that was read long before. `BroadcastsOwed` keeps the account: broadcasts, running
  submissions and what the handler may still start (`Owed`) are at most the messages delivered
  again and the voters heard from the quorum on (`VotersBeyond`). Its hypothesis `QuorumInReach`
  (the quorum is at most one above the committee) is there since with a larger one nothing is
  ever broadcast and the bound is a negative number.

`BSCWatcher_proofs` and `CosmosWatcher_proofs`, the two loops. The invariants say where the
loop's variables stand to each other at each label (`LoopOrder`):

- `PublishedWereDeep` follows from it at once; `NothingIsSkipped` needs what is true in the
  middle of a block: what is in hand is pending or published, and every entry the publication
  loop has come to is published or kept in `remaining` (`NothingAhead`).
- `BurnedWasPublished`: a nonce with a state has a row and a row in hand at `mark` was
  published (`RowsBehind`). `NoBurnIsSkipped`: without a failed call all blocks up to
  `lastSeen` and the burns behind the present one in its block have rows; where no block holds
  two burns this goes up to the checkpoint in the database, which is where a restart resumes.

`FaucetPage_proofs`, the store, the servers and the page:

- `AddressIsWallets`: the accounts that wait in `connectWallet` are MetaMask's own
  (`WalletHolds`).
- `SecondDripOverlaps`. A payment is that of a handler past its transaction, for its call's
  account (`PaymentsAreOwn`). While the daemon remembers a handler, the cooldown of its account
  is no older than its payment, so that whoever is let through with this drip remembered, and
  whatever it pays, comes a cooldown later (`CooldownsKept`); a restart forgets both. What a
  server's step can change is stated once (`Moves`) and proved for each of their twelve actions;
  the invariants follow from it.
- `BlockedWhenPaidOrRefused`: a call answers "paid", or "wait" from the daemon, after a payment
  for its account (`WhoWasPaid`); a refusal by the limiter is never taken back (`RefusalKept`);
  and the call in `request` was made for the address remembered there (`PageCall`), so both are
  that address's. `ButtonStaysOff`: by cases over what sets the countdown; `EntryWithinDay`
  bounds it.

`GovernanceExt_proofs`:

- `CountIsExact`. The count alone is not inductive: `WindowInv` adds that the stored bits of a
  validator are the votes of the window it was in the set for and the overdue ones
  (`BitsAreOwed`), that the count is their number (`CountIsBits`), and that the record reaches no
  further than the present block; then the count changes as the cardinality of a set that gains
  one height and loses at most one. The record has every signature delivered; those of blocks
  without the validator are the difference, `UncountedVotes`. `JailingHasCause` follows step by
  step: a count is never below the counted votes of the window. So does `LaggardsWereAbsent`: it
  is below the threshold without being jailed only by overdue votes. All hold under restarts.
- `SlotsWithinNumber`: the last of the validators in slots has all the others ahead of it and
  fewer than `maxValidators` ahead (`SlotsFit`).
- Each step of the governed chain is a step or a stutter of x/certification
  (`GovernedCertifies`), so `CountIsExact` holds in it. `PaysOnce` follows from
  `PaidIffProcessed`: a payload was paid exactly when its nonce is stored; `PauseHolds` is by
  the actions.

`Milestone_proofs`, x/oracle and x/milestone:

- `IndexIsExact` and `SlashesAreInTime`, restarts included, from one inductive invariant
  (`Settlement`). A slash is in time because the index has the entries of the stored commits
  and no other, and because no commit is older than its window when a block begins; the
  EndBlocker keeps the second only by the first.
- `PriceFollowsHonest`. The k-th smallest of finitely many values is the least bound that k of
  them keep (`RankExists`), so no induction over the values is needed. A rank that the values
  outside of a set cannot fill from either side is that of a value between those of the set
  (`RankBetween`); with that the median and the median deviation stay within the honest range
  and spread, and what the filter keeps within three deviations of it (`PriceNear`). Its
  hypothesis `PricesFit` (three times a price fits in the 64 bits) is needed: sums wrap around
  (keeper.go), and the median of two larger prices may then be below both. `OracleTyped` does
  without it.
- `IndexesMatchStates`, `AchievedPaidOnce`, `SettledOnlyOnFreshPrice`, `MilestonesTyped`. The
  EndBlocker's loops are recursive functions of the turn; that they exist for any number of
  turns is an induction over sets of numbers (`TurnsExist`, `EveryTurn`). `StoreOK` holds
  between any two turns. `Moves` says which milestones the turns so far have moved: a feed's
  turn moves those on it only, and the feeds of a chain differ, so that none is moved twice in
  a block. A genesis builds the indexes anew from the exported milestones
  (`GenesisRestores`).
- `VestingHasOracle`: x/milestone steps do not touch x/oracle's store, so the two modules
  together keep what is proved of x/oracle alone (`VestingSettlesCommits`).

`Projection_proofs`, the read side:

- `NothingElseIsLost`. The invariant says what is still to come of the block in hand
  (`BlockInHand`) and that every event of a block below it is stored or lost
  (`NothingBelow`); it must cover the blocks below the highest stored one, since a restart
  resumes there. `NothingElseIsLostBehind` carries it over to the composition.
- `CountersKeepAhead`. Counters and rows are paired in `Stages`, in the order the statements of
  an event move them. Every statement list is well formed (`WellFormed`): a counter moves
  directly behind the one before it, at the row it keeps ahead of, and a row is added at most
  once. `Balanced` is the account: the levels of two paired marks differ by what the list in
  hand still owes (`Due`) and by what messages that came twice counted again. That a row is new
  when its turn comes needs `RowsTraced` (each row is of an event received before) and
  `ScriptInHand` (the list in hand is what remains of the message's own).

Assumptions on constants: `ValidatorParams`, `CertificationParams`, `IngestionParams`,
`BlocksAreLists` (a chain is a list of blocks, what is selected from the lists of a block is a
list of selected members, since `SelectSeq` is recursive, and a commit has one entry for each validator), `BridgeParams`,
`LockBoxParams`, `SystemParams` (the constructors' and validators' requirements; fewer faulty
relayers than either threshold; relayers' keys distinct), `NonceHashParams` (no collisions),
`RoundParams`, `WatcherParams`, `CosmosWatcherParams`, `OracleParams` (a chain has a block, a day and a cooldown some
length, the locks are finitely many), `FaucetParams`, `WalletParams` (no wallet is the absence
of one) and `PageParams` (the wallets' accounts are addresses of the chain). Hypotheses of single
theorems: `QuorumInReach` and `PricesFit`, above; `OnlyWrappedLeaves` of the refinement (a burn of `ucsov` is
paid as well, section 6, and no step of a pegged token); and `DistinctKeys` of it and of
`MintsAreBacked` (governance registers a relayer under its own key only). The last is needed:
`Relayer.ValidateBasic` (types.go:46) accepts a key another address has, and one faulty key
under two addresses then makes a quorum of two.

Only model-checked: all liveness, which is out of the prover's reach, as is ENABLED. Every
invariant and action property of the passing runs is stated by a theorem.

## 6. What the models assume and leave out

- Signatures on a deposit verify on the Sovereign chain and those on a burn verify in
  LockBox. In the code as it stands neither does: the Cosmos secp256k1 verification
  hashes the bridge message once more (keeper.go:209), and a vote on a burn is verified
  over the hash with the Ethereum prefix and signed without it (sig_aggregator.go:80,
  against main.go:248), so each is refused: `OwnVoteCounted` is checked for
  a lock. `BridgeSystem` is about the protocol these signatures are for.
- The transaction that carries `MsgBridgeIn` has a mock signature (main.go:431); the
  model lets anyone submit.
- Every daemon has its own NATS consumer. `nats.go:59` gives all the same durable
  name; sharing one, each event would reach one of them only.
- The database is durable and each call on it atomic.
- ERC-20 allowances, gas, fees and block times are left out; so is everything of the
  Cosmos SDK but the balances x/bridge moves.
- `system` lets only wrapped tokens leave, and leaves out genesis restarts (`keeper` has
  them).
- x/certification: the SDK's module manager accepts validator updates of one module only,
  and both x/staking and x/validator return some; the model assumes a chain on which
  that is settled and the elected set is the one x/staking keeps. Validators have a
  consensus address; x/slashing's `Jail` fails without effect on one that is jailed.
- Ingestion and projection: a message that does not parse, which is terminated, does not
  occur; the streams keep what they take; a payload over the limit is replaced by a
  reference, which the projection resolves or answers with Nak (`StatementFails`).
- Faucet: addresses are valid; balances and the sequence number of the paying key are left
  out (the retries end in a payment or a failure); one daemon answers both addresses. A payment
  is a transaction the node took (`--broadcast-mode sync`), whatever the block makes of it. The
  read database has the schema of `db/read_schema`. How often a client asked is left out: the
  limiter may refuse any request.
- WalletStore: an extension answers with the account it has selected at that moment. It
  has no persistence, as the code has none.

- x/oracle and x/milestone: their parameters are constants (only genesis sets them); the
  feed identifiers hold no colon, which separates feed and milestone in the index
  (milestone/keeper.go:99); vesting addresses and payouts are valid, as `ValidateBasic`
  requires; a slash that x/staking refuses changes nothing, as its error is dropped.

Not modelled, and why. The JavaScript and TypeScript of this repository are for the most
part generated encoders (`packages/api-spec`), build output (`explorer/.next`) and pages that
fetch and show what they fetched; of these files the ones with state that several handlers
share are the wallet store, its button and the faucet page, which are modelled. The
oracle daemon, the relayer's signers, the governance, treasury and reserve contracts and the
example tokens remain (section 7); the indexer and the read-only API write rows keyed by
height and serve them. `MsgMigrateContracts`, `MsgUpdateGasLimit`, `HandleMissedExtension`,
`CheckProcessProposalThreshold` and the partition scheme change nothing that any code of the
chain reads.

Behaviour met while modelling that no run pins down at present:

- a burn of `ucsov` is signed as a withdrawal of the token, since the daemon takes the first
  coin of any denom (main.go:642) and `ProcessBridgeOut` burns any coin: what it pays still
  backs the wrapped supply;
- a deposit whose block a reorganisation of one block removed is published all the same
  when the number of a later block is large enough (bsc_watcher.go:55), although
  ADR 004:16 has the depths "to mitigate BSC chain reorganization risks"; `PublishedDeepEnough`
  is about the depth alone and holds of it;
- `broadcastCosmosMsgBridgeIn` logs the error of `BroadcastTx` and returns nil
  (main.go:445), so the nonce is marked submitted and no later slot tries again;
- the checkpoint of the BSC watcher passes deposits that are only in memory
  (bsc_watcher.go:46), so a restart loses those that wait for their confirmations: the
  condition in `SkippedOnlyByFault`;
- x/oracle has no phases: a commit is accepted after others have revealed the round
  (keeper.go:128), which ADR 003 section 1 separates into two windows, and a reveal in the
  block of its commit;
- a reveal is never deleted: a later commit of the same round counts as revealed
  (keeper.go:414), and a round of any age that is revealed again replaces a newer price
  and is dated by the present block (keeper.go:345);
- ADR 003 section 1.C suspends for 500 blocks who did not reveal, section 2 filters by a
  modified Z-score and averages, section 3 blocks after three stale rounds; the code
  slashes and jails, takes three deviations and the median, and blocks at once;
- a payout of 2^63 or more becomes a negative coin and panics in the EndBlocker
  (milestone/keeper.go:330);
- when the budget ends in the middle of a stale feed its flag is set all the same, and
  the milestones behind stay "pending" (milestone/keeper.go:283); their clocks stop too;
- two `MsgBridgeOut` of one transaction share a nonce, and only one can be paid
  (main.go:627); the `system` instance contains it, and `ReleasesBacked` holds of it: it says
  that what is paid was burned, not which of the two burns stays unpaid;
- pausing LockBox does not stop mints of deposits made before
  (docs/launch-day-runbook.md:79 expects "halts bridge");
- amounts beyond 64 bits are cut (main.go:671), those beyond 63 panic;
- a failed `FilterLogs` or `BlockResults` skips the block for good (main.go:542, 610);
- a crash in a block of several burns can lose the later ones, since the first moves
  the checkpoint (cosmos_watcher.go:45): hence the condition in `SkippedOnlyByFault`;
- a watcher that is late writes "confirmed" over "ready", and the submission that
  reads the state back does not start (`ReadyIsSubmitted` is conditional on it);
- two votes beyond the quorum start two submissions (submitter.go:62): bounded by
  `BroadcastsBounded`;
- a vote that arrives before the event is refused and acknowledged
  (sig_aggregator.go:83): nothing guarantees that a quorum of votes is counted;
- the error of publishing a daemon's own vote is dropped (main.go:227, 273) and the event
  acknowledged (nats.go:62): the vote is lost for good, which `OwnVoteCounted` excepts;
- a crash ends running submissions and nothing resumes them (main.go:302);
- the error of a failed `unlock` broadcast is assigned to a shadowed variable, so the
  nonce is marked submitted (main.go:365).

x/certification, x/validator, x/governance-ext and x/settlement:

- a validator elected after bootstrapping has no votes yet and is jailed in its first
  block, and so is everybody short of votes since a genesis restart, which exports no counts
  (certification/keeper.go:306, module.go:129); ADR 002:12 promises to "prevent false-positive
  jailing". The votes the properties count are those since the genesis;
- a signature that arrives when its validator is no longer in the set, as those of up to three
  blocks after its removal do, is not counted (keeper.go:271), and who returns within the window
  may be jailed although it signed enough. In `governed`, v1 unstakes at once, block 2 carries
  its vote uncounted, it is staked again and jailed in block 3, with two of its signatures in the
  window, two asked for, and a count of one; ADR 002:9 has a validator "sign at least K" blocks
  of the window, counted or not. `JailedForCause` is what the code keeps, about `CountedVotes`;
  with `WindowVotes` in their place TLC refutes it;
- a validator absent W blocks after a vote keeps that vote for ever (keeper.go:294), and
  may then stay below the threshold: the conditions in `CountDriftsOnlyByAbsence` and
  `LaggardsEscapeOnlyByAbsence`. The module's own invariant over its bits
  (keeper.go:364) breaks then;
- an empty list of attested validators attests those of the genesis only: whoever joins
  later is jailed (keeper.go:314). Nothing emits `proposal_rejected`, so degraded mode
  never begins by itself;
- jailing for the window slashes nothing, although validator-onboarding.md:19 says that
  the delegation "is slashed by 0.01%";
- slots go by address, ADR 001 says by stake; a validator beyond the slots that has no mark
  is neither given power nor ejected; the ejection queue is never drained; anyone may fill a
  slot or eject a validator (validator/msg_server.go:94);
- a pause makes the constitution answer "invalid" and not fail, so the fallback for
  a paused contract (governance-ext/keeper.go:195) never runs and a pause stops every
  checked proposal; the cold multisig may replace the governor;
- a rotated witness key is refused at once (settlement/keeper.go:54), ADR 007:55 promises an
  overlap of 72 hours, and an EIP-712 signature.

Ingestion and projection:

- an absent validator has no address in a commit and is skipped, so only nil votes count as
  missed (ingestion/main.go:438; the comment at 441 takes 3 for absent, which is 1);
- milestone events come in the block's own events, which the code looks for in fields
  CometBFT no longer fills, and oracle messages bear names other than those compared
  (main.go:523): neither is ever projected, and their branches are left out;
- `decodeBase64` also decodes plain text that happens to be valid base64: 64-digit nonces
  do, parse as 0, and all deposits share one row of `bridge_pending`;
- settlements are keyed by witness, so a witness's later ones change nothing; the row of a
  withdrawal stays "pending";
- the subscription is not durable: after a restart the whole stream comes again and every
  counter is moved again (`CountersDriftOnlyByRedelivery` allows for it).

Faucet, wallet and page:

- the limit of one drip a day (explorer-api/main.go:3087) never applies: the schema lacks
  `last_faucet_drip` (db/read_schema/000004_explorer.sql:27), so the SELECT (3156) and the INSERT
  (3227) fail and both failures are passed over (3160, 3226). Two requests, the second sent after
  the first was answered and without any fault, are paid as soon as the daemon's cooldown of 10
  seconds ends, which is all that limits drips. Within it an account is paid twice by a request
  checked before the first drip was remembered (as the second address is, while the first
  handler goes on), after a restart of the daemon, and when the result of the first transaction
  was an error or could not be read: the conditions in `CooldownDripsOverlap`;
- the API's limiter, too, answers 429 (explorer-api/main.go:196), and the page then locks for a
  day an address that was never paid (page.tsx:102): the second case of `EntryIsEarned`;
- the daemon's refusal for 10 seconds arrives at the page without its seconds, which locks
  the browser for a day (page.tsx:103);
- the browser's lock is kept for the text in the field: the same account has another one
  under its other address, and none after a lost answer;
- a stale key re-connects a store that was disconnected, with no wallet's name
  (wallet.ts:241): the condition in `AddressOfWallet`.

## 7. Plan

Done, in this order: the keeper, the contract, their composition, both watchers, the
round, the oracle and the milestones; then x/validator, x/certification, x/settlement and
x/governance-ext with the constitution, ingestion and projection, the faucet with its page and
wallet; and the proofs above.

Next, most important first:

1. An abstract specification for `Oracle` with `Milestone`: feeds whose price is anything
   within the majority's range, on which each milestone is settled once.
2. The contracts `Governance`, `Treasury`, `ReserveFund`: approvals counted once, one
   execution, disbursements within the reserve.
3. The oracle daemon as the environment of `Oracle`: its rounds and its sequence counter.
4. Proofs: the majority of `PriceFollowsMajority` carried to the milestones (what is achieved,
   the honest prices allowed within three spreads).

The number of runs and of properties is kept small: when a component is added, a run or a
property whose point another one makes gives way.
