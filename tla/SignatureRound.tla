--------------------------- MODULE SignatureRound ----------------------------
(***************************************************************************)
(* One nonce in one relayer daemon, from its event to its submission: the  *)
(* handlers of relayer/cmd/relayer/main.go, SigAggregator and Submitter.   *)
(*                                                                         *)
(* Four goroutines share the nonce's rows of the database and interleave   *)
(* between any two database calls: the chain watcher that publishes the    *)
(* event, the handler of events, the handler of votes, and each submission *)
(* the vote handler starts.  The bus redelivers what was not acknowledged. *)
(***************************************************************************)
EXTENDS Naturals, FiniteSets, Sequences

CONSTANTS
    Relayers, Self,    \* the committee, and the relayer of this daemon
    Quorum,            \* SigAggregator.quorumThreshold
    Kind,              \* "lock" or "burn"
    WatcherLags,       \* whether this daemon's own watcher has yet to reach the event
    MaxSteps,          \* tries of executeTxSubmission (50)
    MaxRetries,        \* SigAggregator.maxRetries
    MaxTicks,          \* bound: calls of HandleTimeout
    MaxCrashes,        \* bound: crashes of the daemon
    MaxRedeliveries,   \* bound: messages delivered again
    MaxSendErrors,     \* bound: broadcasts that return an error
    MaxLostVotes       \* bound: votes of this daemon that no one receives

ASSUME RoundParams ==
    /\ IsFiniteSet(Relayers) /\ Self \in Relayers
    /\ Quorum \in Nat \ {0}
    /\ Kind \in {"lock", "burn"} /\ WatcherLags \in BOOLEAN
    /\ MaxSteps \in Nat \ {0} /\ MaxRetries \in Nat /\ MaxTicks \in Nat
    /\ MaxCrashes \in Nat /\ MaxRedeliveries \in Nat /\ MaxSendErrors \in Nat
    /\ MaxLostVotes \in Nat

VARIABLES
    nonceState,    \* DB: nonces.state, "" when there is no row
    eventRow,      \* DB: lock_events or burn_events has the nonce
    votes,         \* DB: relayers with a row in votes
    watcher,       \* the state writes the watcher has ahead, and its publication
    eventMsgs,     \* bus: deliveries of the event this daemon has ahead
    voteMsgs,      \* bus: votes on the way to this daemon
    eventHandler,  \* "idle" or "sign"
    voteHandler,   \* <<>>, or <<place, relayer>> of the vote in hand
    tries,         \* submissions running: how often each has tried
    sent,          \* submissions between their broadcast and MarkSubmitted
    broadcasts,    \* the signers of each transaction broadcast so far
    delivered,     \* votes handled and acknowledged so far
    ticker,        \* HandleTimeout: <<>> or the value of retryCounters it read
    retryCounter,
    faults         \* how often each fault has struck, and each message was repeated

dbVars   == <<nonceState, eventRow, votes>>
busVars  == <<eventMsgs, voteMsgs, delivered>>
taskVars == <<tries, sent>>
timeoutVars == <<ticker, retryCounter>>
roundVars == <<dbVars, watcher, busVars, eventHandler, voteHandler, taskVars, broadcasts, timeoutVars, faults>>

Bounds == [crash |-> MaxCrashes, again |-> MaxRedeliveries, send |-> MaxSendErrors,
           tick |-> MaxTicks, vote |-> MaxLostVotes]

Strike(kind) ==
    /\ faults[kind] < Bounds[kind]
    /\ faults' = [faults EXCEPT ![kind] = @ + 1]

NonceStates == {"", "confirmed", "observed", "burned", "ready", "submitted", "stuck"}

\* UpdateBlockNumber publishes, then writes "confirmed"; IngestBurnEvent
\* writes "observed", publishes, then writes "burned".
WatcherPlan == IF Kind = "lock" THEN <<"publish", "confirmed">> ELSE <<"observed", "publish", "burned">>

Suffixes(plan) == {SubSeq(plan, i, Len(plan)) : i \in 1..(Len(plan) + 1)}

RoundTypeOK ==
    /\ nonceState \in NonceStates
    /\ eventRow \in BOOLEAN
    /\ votes \subseteq Relayers
    /\ watcher \in Suffixes(WatcherPlan)
    /\ eventMsgs \in Nat /\ voteMsgs \subseteq Relayers /\ delivered \subseteq Relayers
    /\ eventHandler \in {"idle", "sign"}
    /\ voteHandler = <<>> \/ voteHandler \in {"count", "ready", "start"} \X Relayers
    /\ tries \in Seq(0..(MaxSteps - 1)) /\ sent \in Nat
    /\ broadcasts \in Seq(SUBSET Relayers)
    /\ ticker = <<>> \/ ticker \in Seq(Nat)
    /\ retryCounter \in Nat
    /\ faults \in [DOMAIN Bounds -> Nat]

\* A daemon whose watcher is ahead has published the event and marked it.
RoundInit ==
    /\ nonceState = IF WatcherLags THEN "" ELSE WatcherPlan[Len(WatcherPlan)]
    /\ eventRow = (~WatcherLags /\ Kind = "burn")
    /\ votes = {}
    /\ watcher = IF WatcherLags THEN WatcherPlan ELSE <<>>
    /\ eventMsgs = IF WatcherLags THEN 0 ELSE 1
    /\ voteMsgs = {} /\ delivered = {}
    /\ eventHandler = "idle" /\ voteHandler = <<>>
    /\ tries = <<>> /\ sent = 0
    /\ broadcasts = <<>>
    /\ ticker = <<>> /\ retryCounter = 0
    /\ faults = [kind \in DOMAIN Bounds |-> 0]

------------------------------------------------------------------------------
\* The watcher's next write of the nonce's state, or its publication.  A burn
\* known as observed or burned is not ingested again; its row is saved first.
WatcherStep ==
    /\ watcher # <<>>
    /\ LET known == Kind = "burn" /\ watcher = WatcherPlan /\ nonceState \in {"observed", "burned"} IN
          /\ watcher' = IF known THEN <<>> ELSE Tail(watcher)
          /\ eventRow' = (eventRow \/ (Kind = "burn" /\ ~known))
          /\ nonceState' = IF known \/ Head(watcher) = "publish" THEN nonceState ELSE Head(watcher)
          /\ eventMsgs' = IF Head(watcher) = "publish" THEN eventMsgs + 1 ELSE eventMsgs
    /\ UNCHANGED <<votes, voteMsgs, delivered, eventHandler, voteHandler, taskVars, broadcasts, timeoutVars, faults>>

\* A peer's watcher publishes the same event on the shared subject.
PeerPublishes ==
    /\ Strike("again")
    /\ eventMsgs' = eventMsgs + 1
    /\ UNCHANGED <<dbVars, watcher, voteMsgs, delivered, eventHandler, voteHandler, taskVars, broadcasts, timeoutVars>>

InHand(place) == voteHandler # <<>> /\ voteHandler[1] = place
Voter == voteHandler[2]

\* A peer has signed the event and its vote is on the way.
PeerVotes(r) ==
    /\ r # Self /\ r \notin voteMsgs \cup delivered
    /\ voteHandler # <<>> => Voter # r
    /\ voteMsgs' = voteMsgs \cup {r}
    /\ UNCHANGED <<dbVars, watcher, eventMsgs, delivered, eventHandler, voteHandler, taskVars, broadcasts, timeoutVars, faults>>

\* A vote is delivered again: its acknowledgement was lost.
RedeliverVote(r) ==
    /\ r \in delivered /\ Strike("again")
    /\ voteMsgs' = voteMsgs \cup {r}
    /\ UNCHANGED <<dbVars, watcher, eventMsgs, delivered, eventHandler, voteHandler, taskVars, broadcasts, timeoutVars>>

------------------------------------------------------------------------------
\* The handler of events saves the row, then signs and publishes its vote.
HandleEvent ==
    /\ eventHandler = "idle" /\ eventMsgs > 0
    /\ eventRow' = TRUE
    /\ eventHandler' = "sign"
    /\ UNCHANGED <<nonceState, votes, watcher, busVars, voteHandler, taskVars, broadcasts, timeoutVars, faults>>

PublishVote ==
    /\ eventHandler = "sign"
    /\ voteMsgs' = voteMsgs \cup {Self}
    /\ eventMsgs' = eventMsgs - 1
    /\ eventHandler' = "idle"
    /\ UNCHANGED <<dbVars, watcher, delivered, voteHandler, taskVars, broadcasts, timeoutVars, faults>>

\* Signing fails, or the bus refuses the vote: the one error is logged, the other
\* dropped, and the event is acknowledged all the same.
VoteLost ==
    /\ eventHandler = "sign" /\ Strike("vote")
    /\ eventMsgs' = eventMsgs - 1
    /\ eventHandler' = "idle"
    /\ UNCHANGED <<dbVars, watcher, voteMsgs, delivered, voteHandler, taskVars, broadcasts, timeoutVars>>

------------------------------------------------------------------------------
\* Mutant: every hash is checked with the prefix.
AlwaysPrefixed == IF Kind = "lock" THEN "prefixed bridge message" ELSE "prefixed packed unlock"

\* What the handlers of the relayers sign, and what IngestVote checks it
\* against: for a burn it adds the prefix of a signed Ethereum message.
SignedHash   == IF Kind = "lock" THEN "bridge message" ELSE "packed unlock"
VerifiedHash == IF Kind = "lock" THEN "bridge message" ELSE "prefixed packed unlock"

Acknowledge(r) == delivered' = delivered \cup {r}

\* IngestVote refuses a vote for an unknown nonce, or with a bad signature:
\* the handler logs it, returns, and the message is acknowledged.
RefuseVote(r) ==
    /\ voteHandler = <<>> /\ r \in voteMsgs
    /\ ~eventRow \/ SignedHash # VerifiedHash
    /\ voteMsgs' = voteMsgs \ {r} /\ Acknowledge(r)
    /\ UNCHANGED <<dbVars, watcher, eventMsgs, eventHandler, voteHandler, taskVars, broadcasts, timeoutVars, faults>>

AcceptVote(r) ==
    /\ voteHandler = <<>> /\ r \in voteMsgs
    /\ eventRow /\ SignedHash = VerifiedHash
    /\ voteMsgs' = voteMsgs \ {r}
    /\ voteHandler' = <<"count", r>>
    /\ UNCHANGED <<dbVars, watcher, eventMsgs, delivered, eventHandler, taskVars, broadcasts, timeoutVars, faults>>

\* Mutant: a quorum less one.
AlmostQuorum(count) == count + 1 >= Quorum

VoteCount(r) == Cardinality(votes \cup {r})
QuorumMet(count) == count >= Quorum

\* AddVote returns how many relayers have voted.
AddVote ==
    /\ InHand("count")
    /\ votes' = votes \cup {Voter}
    /\ IF QuorumMet(VoteCount(Voter))
       THEN voteHandler' = <<"ready", Voter>> /\ UNCHANGED delivered
       ELSE voteHandler' = <<>> /\ Acknowledge(Voter)
    /\ UNCHANGED <<nonceState, eventRow, watcher, eventMsgs, voteMsgs, eventHandler, taskVars, broadcasts, timeoutVars, faults>>

SetReady ==
    /\ InHand("ready")
    /\ nonceState' = "ready"
    /\ voteHandler' = <<"start", Voter>>
    /\ UNCHANGED <<eventRow, votes, watcher, busVars, eventHandler, taskVars, broadcasts, timeoutVars, faults>>

\* The handler reads the state back, and starts a submission if it is "ready".
StartSubmission ==
    /\ InHand("start")
    /\ tries' = IF nonceState = "ready" THEN Append(tries, 0) ELSE tries
    /\ voteHandler' = <<>> /\ Acknowledge(Voter)
    /\ UNCHANGED <<dbVars, watcher, eventMsgs, voteMsgs, eventHandler, sent, broadcasts, timeoutVars, faults>>

------------------------------------------------------------------------------
\* Mutant: the submission goes on after it has succeeded.
StaysInLadder(seq, i) == seq

Without(seq, i) == [j \in 1..(Len(seq) - 1) |-> IF j < i THEN seq[j] ELSE seq[j + 1]]

\* One try of executeTxSubmission, when the ladder's delay has passed: the
\* state is not "submitted", the votes are loaded and the broadcast is made.
\* A broadcast that never arrives returns no error either.
Submit(i) ==
    /\ nonceState # "submitted"
    /\ broadcasts' = Append(broadcasts, votes)
    /\ tries' = Without(tries, i) /\ sent' = sent + 1
    /\ UNCHANGED <<dbVars, watcher, busVars, eventHandler, voteHandler, timeoutVars, faults>>

\* Mutant: the first error ends the submission.
GivesUp(i) ==
    /\ nonceState # "submitted" /\ Strike("send")
    /\ tries' = Without(tries, i)
    /\ UNCHANGED <<dbVars, watcher, busVars, eventHandler, voteHandler, sent, broadcasts, timeoutVars>>

\* The connection fails before the broadcast, which returns the error.  For a
\* lock the ladder tries again; for a burn the error is assigned to a variable
\* of the inner block, and the nonce is marked as if it had been broadcast.
SubmitFails(i) ==
    /\ nonceState # "submitted" /\ Strike("send")
    /\ LET over == Kind = "burn" \/ tries[i] + 1 = MaxSteps IN
          tries' = IF over THEN Without(tries, i) ELSE [tries EXCEPT ![i] = @ + 1]
    /\ sent' = IF Kind = "burn" THEN sent + 1 ELSE sent
    /\ UNCHANGED <<dbVars, watcher, busVars, eventHandler, voteHandler, broadcasts, timeoutVars>>

\* Every further try finds the nonce submitted, until the tries are used up.
SubmitSkips(i) ==
    /\ nonceState = "submitted"
    /\ tries' = Without(tries, i)
    /\ UNCHANGED <<dbVars, watcher, busVars, eventHandler, voteHandler, sent, broadcasts, timeoutVars, faults>>

MarkSubmitted ==
    /\ sent > 0
    /\ nonceState' = "submitted"
    /\ sent' = sent - 1
    /\ UNCHANGED <<eventRow, votes, watcher, busVars, eventHandler, voteHandler, tries, broadcasts, timeoutVars, faults>>

------------------------------------------------------------------------------
\* HandleTimeout: nothing in main calls it; a ticker may.
TickReads ==
    /\ ticker = <<>> /\ Strike("tick")
    /\ nonceState \notin {"ready", "submitted", "stuck"}
    /\ retryCounter' = retryCounter + 1
    /\ ticker' = <<retryCounter'>>
    /\ UNCHANGED <<dbVars, watcher, busVars, eventHandler, voteHandler, taskVars, broadcasts>>

TickEnds ==
    /\ ticker # <<>>
    /\ nonceState' = IF ticker[1] > MaxRetries THEN "stuck" ELSE nonceState
    /\ ticker' = <<>>
    /\ UNCHANGED <<eventRow, votes, watcher, busVars, eventHandler, voteHandler, taskVars, broadcasts, retryCounter, faults>>

\* The daemon dies and restarts: goroutines and counters are gone, what was
\* not acknowledged comes again, and nothing looks for submissions to resume.
Crash ==
    /\ Strike("crash")
    /\ voteMsgs' = IF voteHandler = <<>> THEN voteMsgs ELSE voteMsgs \cup {Voter}
    /\ eventHandler' = "idle" /\ voteHandler' = <<>>
    /\ tries' = <<>> /\ sent' = 0
    /\ watcher' = <<>>
    /\ ticker' = <<>> /\ retryCounter' = 0
    /\ UNCHANGED <<dbVars, eventMsgs, delivered, broadcasts>>

------------------------------------------------------------------------------
EventStep == HandleEvent \/ PublishVote
VoteStep  == (\E r \in Relayers : RefuseVote(r) \/ AcceptVote(r)) \/ AddVote \/ SetReady \/ StartSubmission
TaskStep  == (\E i \in DOMAIN tries : Submit(i) \/ SubmitSkips(i)) \/ MarkSubmitted
BusStep   == PeerPublishes \/ \E r \in Relayers : PeerVotes(r) \/ RedeliverVote(r)
TickStep  == TickReads \/ TickEnds
FaultStep == (\E i \in DOMAIN tries : SubmitFails(i)) \/ VoteLost \/ Crash

RoundNext == WatcherStep \/ EventStep \/ VoteStep \/ TaskStep \/ BusStep \/ TickStep \/ FaultStep

RoundSpec == RoundInit /\ [][RoundNext]_roundVars

\* Each goroutine keeps running, and the bus delivers what it holds; no peer
\* has to vote.
FairRoundSpec ==
    /\ RoundSpec
    /\ WF_roundVars(WatcherStep) /\ WF_roundVars(EventStep)
    /\ WF_roundVars(VoteStep) /\ WF_roundVars(TaskStep)

------------------------------------------------------------------------------
\* No transaction goes out with fewer signatures than the quorum.
BroadcastHasQuorum == \A i \in DOMAIN broadcasts : Cardinality(broadcasts[i]) >= Quorum

\* Each broadcast is owed to a vote that met or exceeded the quorum: the fees
\* of a nonce are bounded by the committee's size and the redeliveries.
BroadcastsBounded ==
    Len(broadcasts) + Len(tries) <= Cardinality(Relayers) - Quorum + 1 + faults["again"]

\* What no goroutine of this daemon makes up for: a crash, and a tick that finds
\* the nonce unsubmitted for too long.
Undisturbed == faults["crash"] = 0 /\ faults["tick"] = 0

\* A ready nonce is broadcast, also when a broadcast fails, once the daemon's own
\* watcher has no state left to write over "ready".
ReadyIsSubmitted ==
    (nonceState = "ready" /\ watcher = <<>>) ~> (broadcasts # <<>> \/ ~Undisturbed)

\* A daemon that has the event adds its own vote, also when it crashes in between
\* and when the event comes again, unless it failed to sign or to publish the vote:
\* that it never makes up for, since the event is acknowledged (main.go:227).
OwnVoteCounted == eventRow ~> (Self \in votes \/ faults["vote"] > 0)
=============================================================================
