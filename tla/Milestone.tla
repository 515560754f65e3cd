------------------------------ MODULE Milestone ------------------------------
(***************************************************************************)
(* x/milestone on top of x/oracle: governance creates milestones, each on  *)
(* a price feed, and the EndBlocker pays one out when the price reaches    *)
(* its target, expires it when its blocks are used up, and stops its clock *)
(* while the feed is stale.                                                *)
(***************************************************************************)
EXTENDS Oracle

CONSTANTS
    Plans,                \* milestones governance may create, by identifier
    Targets,              \* target prices governance may set
    FeedOrder, IdOrder,   \* feeds and identifiers in the order of their bytes
    MaxActiveMilestones,  \* Params.MaxActiveMilestones: a block's budget
    EscrowFunds           \* ucsov of the module account

Ids == DOMAIN Plans

\* MsgCreateMilestone.ValidateBasic: every number is positive.
ASSUME MilestoneParams ==
    /\ \A id \in Ids : Plans[id].feed \in Feeds /\ Plans[id].target \in Targets
                       /\ Plans[id].duration \in Nat \ {0} /\ Plans[id].payout \in Nat \ {0}
    /\ Targets \subseteq Nat \ {0}
    /\ FeedOrder \in Seq(Feeds) /\ Feeds = Range(FeedOrder) /\ IsInjective(FeedOrder)
    /\ IdOrder \in Seq(Ids) /\ Ids = Range(IdOrder) /\ IsInjective(IdOrder)
    /\ MaxActiveMilestones \in Nat \ {0} /\ EscrowFunds \in Nat

VARIABLES
    milestones,   \* stored milestones, by identifier
    feedIndex,    \* <<feed, milestone>> of the index by feed
    activeFeeds,  \* feeds with a milestone in the index
    staleBlocked, \* feeds flagged as stale-blocked
    escrow,       \* balance of the module account
    payouts       \* payout events: the milestone and whether it was paid

milestoneVars == <<milestones, feedIndex, activeFeeds, staleBlocked, escrow, payouts>>
vestingVars   == <<oracleVars, milestoneVars>>

Open  == {"pending", "stale-blocked"}
Final == {"achieved", "expired"}

MilestoneTypeOK ==
    /\ DOMAIN milestones \subseteq Ids
    /\ \A id \in DOMAIN milestones :
          /\ milestones[id].target \in Targets
          /\ milestones[id].remaining \in 0..Plans[id].duration
          /\ milestones[id].state \in Open \cup Final
    /\ feedIndex \subseteq Feeds \X Ids
    /\ activeFeeds \subseteq Feeds /\ staleBlocked \subseteq Feeds
    /\ escrow \in 0..EscrowFunds
    /\ payouts \in Seq([id : Ids, paid : BOOLEAN])

MilestoneInit ==
    /\ milestones = NoneYet /\ feedIndex = {}
    /\ activeFeeds = {} /\ staleBlocked = {}
    /\ escrow = EscrowFunds /\ payouts = <<>>

------------------------------------------------------------------------------
(***************************************************************************)
(* The store while a handler runs: what it holds, and how many milestones  *)
(* the EndBlocker has processed.                                           *)
(***************************************************************************)
Store == [milestones |-> milestones, feedIndex |-> feedIndex, activeFeeds |-> activeFeeds,
          staleBlocked |-> staleBlocked, escrow |-> escrow, payouts |-> payouts, processed |-> 0]

BecomesOf(store) ==
    /\ milestones' = store.milestones
    /\ feedIndex' = store.feedIndex
    /\ activeFeeds' = store.activeFeeds
    /\ staleBlocked' = store.staleBlocked
    /\ escrow' = store.escrow
    /\ payouts' = store.payouts

\* Mutant: a settled milestone takes its feed with it.
DropsFeed(feeds, feed, index) == feeds \ {feed}

\* A feed stays active while another milestone is indexed under it.
KeepIfIndexed(feeds, feed, index) == IF \E e \in index : e[1] = feed THEN feeds ELSE feeds \ {feed}

\* SetMilestone writes the milestone and maintains both indexes.
SetMilestone(store, id, m) ==
    LET entry  == <<m.feed, id>>
        closed == store.feedIndex \ {entry}
    IN  IF m.state \in Open
        THEN [store EXCEPT !.milestones = With(@, id, m), !.feedIndex = @ \cup {entry},
                           !.activeFeeds = @ \cup {m.feed}]
        ELSE [store EXCEPT !.milestones = With(@, id, m), !.feedIndex = closed,
                           !.activeFeeds = KeepIfIndexed(@, m.feed, closed)]

\* triggerVestingPayout: a payout the account does not cover is an event only.
TriggerVestingPayout(store, id) ==
    LET covered == Plans[id].payout <= store.escrow
    IN  [store EXCEPT !.escrow = IF covered THEN @ - Plans[id].payout ELSE @,
                      !.payouts = Append(@, [id |-> id, paid |-> covered])]

\* Mutant: the milestone is paid and its state not stored.
PaysWithoutStoring(store, id) == TriggerVestingPayout(store, id)

Achieve(store, id) ==
    TriggerVestingPayout(SetMilestone(store, id, [store.milestones[id] EXCEPT !.state = "achieved"]), id)

\* An open milestone of a fresh feed.  One that was stale-blocked loses no
\* block in the block that unblocks it.
Evaluate(store, id) ==
    LET m    == store.milestones[id]
        left == m.remaining - 1
    IN  IF aggregates[m.feed].price >= m.target THEN Achieve(store, id)
        ELSE SetMilestone(store, id,
                IF m.state = "stale-blocked" THEN [m EXCEPT !.state = "pending"]
                ELSE [m EXCEPT !.remaining = left, !.state = IF left <= 0 THEN "expired" ELSE "pending"])

Block(store, id) == SetMilestone(store, id, [store.milestones[id] EXCEPT !.state = "stale-blocked"])

\* Mutant: the clock runs on while the feed is stale.
RunsOn(store, id) ==
    IF store.processed >= MaxActiveMilestones THEN store
    ELSE LET m == store.milestones[id] IN
         SetMilestone([store EXCEPT !.processed = @ + 1], id,
                      [m EXCEPT !.remaining = IF @ > 0 THEN @ - 1 ELSE 0])

\* One turn of the loop over the milestones of a feed, within the budget.
ProcessMilestone(store, id) ==
    IF \/ store.processed >= MaxActiveMilestones
       \/ id \notin DOMAIN store.milestones
       \/ store.milestones[id].state \in Final
    THEN store
    ELSE LET counted == [store EXCEPT !.processed = @ + 1]
         IN  IF IsFeedStale(store.milestones[id].feed) THEN Block(counted, id) ELSE Evaluate(counted, id)

\* The loop takes the milestones the index held under the feed when it began.
ProcessMilestones(store, feed) ==
    LET turn[i \in 0 .. Len(IdOrder)] ==
            IF i = 0 THEN store
            ELSE IF <<feed, IdOrder[i]>> \in store.feedIndex THEN ProcessMilestone(turn[i - 1], IdOrder[i])
            ELSE turn[i - 1]
    IN  turn[Len(IdOrder)]

\* One turn of the loop over the active feeds: a feed that stays stale is
\* skipped, and the flag follows the feed even if the budget ran out on it.
ProcessFeed(store, feed) ==
    LET stale == IsFeedStale(feed)
    IN  IF \/ feed \notin store.activeFeeds
           \/ store.processed >= MaxActiveMilestones
           \/ stale /\ feed \in store.staleBlocked
        THEN store
        ELSE [ProcessMilestones(store, feed) EXCEPT
                !.staleBlocked = IF stale THEN @ \cup {feed} ELSE @ \ {feed}]

MilestoneEndBlocker ==
    LET turn[i \in 0 .. Len(FeedOrder)] == IF i = 0 THEN Store ELSE ProcessFeed(turn[i - 1], FeedOrder[i])
    IN  BecomesOf(turn[Len(FeedOrder)])

------------------------------------------------------------------------------
CreateMilestone(id) ==
    /\ id \notin DOMAIN milestones
    /\ BecomesOf(SetMilestone(Store, id,
          [feed |-> Plans[id].feed, target |-> Plans[id].target,
           remaining |-> Plans[id].duration, state |-> "pending"]))
    /\ UNCHANGED oracleVars

\* MsgUpdateMilestone of x/governance-ext, whatever the milestone's state.
UpdateMilestone(id, target) ==
    /\ id \in DOMAIN milestones
    /\ BecomesOf(SetMilestone(Store, id, [milestones[id] EXCEPT !.target = target]))
    /\ UNCHANGED oracleVars

\* The EndBlockers of the block, x/oracle's first.
EndBlock == OracleEndBlocker /\ MilestoneEndBlocker /\ NextHeight

\* A restart from the exported genesis: the milestones are written back by
\* SetMilestone, and the flags of the feeds are gone.
ExportImport ==
    /\ OracleExportImport
    /\ LET empty == [milestones |-> NoneYet, feedIndex |-> {}, activeFeeds |-> {}, staleBlocked |-> {},
                     escrow |-> escrow, payouts |-> payouts, processed |-> 0]
           turn[i \in 0 .. Len(IdOrder)] ==
               IF i = 0 THEN empty
               ELSE IF IdOrder[i] \in DOMAIN milestones THEN SetMilestone(turn[i - 1], IdOrder[i], milestones[IdOrder[i]])
               ELSE turn[i - 1]
       IN  BecomesOf(turn[Len(IdOrder)])

VestingInit == OracleInit /\ MilestoneInit

VestingNext ==
    \/ OracleMessage /\ UNCHANGED milestoneVars
    \/ \E id \in Ids : CreateMilestone(id) \/ \E t \in Targets : UpdateMilestone(id, t)
    \/ EndBlock
    \/ ExportImport

VestingSpec == VestingInit /\ [][VestingNext]_vestingVars

------------------------------------------------------------------------------
\* Both indexes say what the milestones say: every open milestone is found
\* under its feed, its feed is visited, and no settled one keeps a feed active.
IndexMatchesStates ==
    /\ feedIndex = {<<milestones[id].feed, id>> : id \in {i \in DOMAIN milestones : milestones[i].state \in Open}}
    /\ activeFeeds = {e[1] : e \in feedIndex}

\* A milestone has one payout event when it was achieved and none otherwise,
\* through restarts and later edits of its target.
AchievedPaysOnce ==
    /\ \A i, j \in DOMAIN payouts : payouts[i].id = payouts[j].id => i = j
    /\ {payouts[i].id : i \in DOMAIN payouts} = {id \in DOMAIN milestones : milestones[id].state = "achieved"}

\* A stale price settles nothing and uses up no block; a milestone is achieved
\* at a fresh price that reaches its target and expires at one that does not.
SettledOnFreshPrice ==
    [][\A id \in DOMAIN milestones :
          LET old == milestones[id]
              new == milestones'[id]
              reached == aggregates[old.feed].price >= old.target
          IN  (new.remaining # old.remaining \/ (new.state # old.state /\ new.state \in Final)) =>
                 ~IsFeedStale(old.feed) /\ (new.state = "achieved" <=> reached)]_vestingVars
==============================================================================
