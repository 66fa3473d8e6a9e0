----------------------------- MODULE MixnetEpoch -----------------------------
(***************************************************************************)
(* The mixnet contract (src/contracts/mixnet): the epoch state machine,    *)
(* the queues of events that are pushed while an epoch is in progress and  *)
(* executed when it is reconciled, and the bonds, delegations and          *)
(* parameters those events change.                                         *)
(*                                                                         *)
(* An action is one transaction that succeeds; a failing one is reverted   *)
(* and changes nothing.  try_reconcile_epoch_events executes as many       *)
(* events as its limit allows: it is a sequence of steps, one per event,   *)
(* during which no other transaction runs (reconciling).  It may end after *)
(* any of its events, as the limit is arbitrary.                           *)
(*                                                                         *)
(* Tokens: the pledge and the operator's tokens are small numbers, since   *)
(* they are compared; the delegations are counted, their amounts left out. *)
(* A delegator stands for the pair (owner, proxy) that keys a delegation.  *)
(* Time is counted in epoch lengths since the start of the current epoch.  *)
(* Senders are the ones the transaction requires.                          *)
(***************************************************************************)
EXTENDS Naturals, Sequences, FiniteSets

CONSTANTS
    Owner,             \* accounts that may bond a mixnode
    Delegator,         \* accounts that may delegate
    NoOwner,           \* owner of a mix id that is not bonded
    MaxMixId,          \* bound: mix ids are 1..MaxMixId
    MinimumPledge,     \* ContractStateParams.minimum_mixnode_pledge
    MaxPledge,         \* bound on pledges
    MaxReward,         \* bound on the operator's tokens beyond the pledge
    ActiveSetSizes,    \* sizes the contract owner may ask for
    RewardedSetSizes,  \* rewarded set sizes the contract owner may ask for
    IntervalLengths,   \* epochs_in_interval the contract owner may ask for
    Forced,            \* values of force_immediately that are used
    AssignedLayers,    \* layers the validator may move a node to
    InitParams,        \* RewardingParams at instantiation
    InitEpochs,        \* epochs_in_interval at instantiation
    MaxEpochEvents,    \* bound on pending epoch events
    MaxIntervalEvents, \* bound on pending interval events
    MaxEpochs,         \* bound on total_elapsed_epochs
    MaxElapsed         \* bound: how late a transition may be, in epoch lengths

MixId == 1 .. MaxMixId
Layer == 1 .. 3

ASSUME ConstantsAssumption ==
    /\ NoOwner \notin Owner
    /\ IsFiniteSet(Delegator)
    /\ MaxMixId \in Nat
    /\ MinimumPledge \in Nat \ {0}
    /\ MaxPledge \in Nat
    /\ MaxReward \in Nat
    /\ ActiveSetSizes \subseteq Nat
    /\ RewardedSetSizes \subseteq Nat
    /\ IntervalLengths \subseteq Nat
    /\ Forced \subseteq BOOLEAN
    /\ AssignedLayers \subseteq Layer
    /\ InitParams \in [active : Nat \ {0}, rewarded : Nat \ {0}]
    /\ InitEpochs \in Nat \ {0}
    /\ MaxEpochEvents \in Nat
    /\ MaxIntervalEvents \in Nat
    /\ MaxEpochs \in Nat
    /\ MaxElapsed \in Nat \ {0}

VARIABLES
    epochState,     \* CURRENT_EPOCH_STATUS: [state, last_rewarded, final_node_id]
    interval,       \* CURRENT_INTERVAL
    elapsed,        \* epoch lengths since current_epoch_start
    reconciling,    \* the reconciling transaction: none, or the interval it read
    epochEvents,    \* PENDING_EPOCH_EVENTS, oldest first
    intervalEvents, \* PENDING_INTERVAL_EVENTS, oldest first
    lastMixId,      \* MIXNODE_ID_COUNTER
    bonds,          \* mixnode_bonds() with PENDING_MIXNODE_CHANGES
    rewarding,      \* MIXNODE_REWARDING
    delegations,    \* delegations()
    layers,         \* LAYERS
    params,         \* REWARDING_PARAMS
    rewardedSet     \* REWARDED_SET

epochVars == <<epochState, interval, elapsed, reconciling>>
queueVars == <<epochEvents, intervalEvents>>
nodeVars == <<lastMixId, bonds, rewarding, delegations, layers>>
vars == <<epochVars, queueVars, nodeVars, params, rewardedSet>>

NoBond == [owner |-> NoOwner, is_unbonding |-> FALSE, pledge |-> 0,
           layer |-> 1, pledge_change |-> FALSE]

NoRewarding == [stored |-> FALSE, operator |-> 0, unique_delegations |-> 0,
                last_rewarded_epoch |-> 0, unit_reward |-> FALSE]

Bonded == {m \in MixId : bonds[m].owner # NoOwner}

\* MixNodeRewarding::still_bonded: the operator has tokens left.
StillBonded(m) == rewarding[m].stored /\ rewarding[m].operator # 0

InProgress == [state |-> "InProgress", last_rewarded |-> 0, final_node_id |-> 0]
ReconcilingEvents == [InProgress EXCEPT !.state = "ReconcilingEvents"]
AdvancingEpoch == [InProgress EXCEPT !.state = "AdvancingEpoch"]

IsCurrentEpochOver == elapsed >= 1
IsCurrentIntervalOver == elapsed >= interval.epochs_in_interval - interval.current_epoch_id

Init ==
    /\ epochState = InProgress
    /\ interval = [id |-> 0, epochs_in_interval |-> InitEpochs,
                   current_epoch_id |-> 0, total_elapsed_epochs |-> 0]
    /\ elapsed = 0
    /\ reconciling = "none"
    /\ epochEvents = <<>>
    /\ intervalEvents = <<>>
    /\ lastMixId = 0
    /\ bonds = [m \in MixId |-> NoBond]
    /\ rewarding = [m \in MixId |-> NoRewarding]
    /\ delegations = {}
    /\ layers = [l \in Layer |-> 0]
    /\ params = InitParams
    /\ rewardedSet = {}

-------------------------------------------------------------------------------
(* What users do.  Most operations only push an event, and only while the     *)
(* epoch is in progress.                                                      *)

\* No transaction runs inside another one.
Tx == reconciling = "none"

EpochInProgress == epochState.state = "InProgress"

EpochEvent(kind, m, d, n) == [kind |-> kind, mix_id |-> m, owner |-> d, amount |-> n]

PushNewEpochEvent(event) ==
    /\ Len(epochEvents) < MaxEpochEvents
    /\ epochEvents' = Append(epochEvents, event)
    /\ UNCHANGED intervalEvents

PushNewIntervalEvent(event) ==
    /\ Len(intervalEvents) < MaxIntervalEvents
    /\ intervalEvents' = Append(intervalEvents, event)
    /\ UNCHANGED epochEvents

\* choose_with_fewest: the first layer with the fewest nodes.
ChooseWithFewest ==
    CHOOSE l \in Layer :
        /\ \A k \in Layer : layers[l] <= layers[k]
        /\ \A k \in Layer : k < l => layers[k] > layers[l]

\* Bonding takes effect at once, in every state of the epoch.
TryAddMixnode(o, pledge) ==
    LET m == lastMixId + 1
        layer == ChooseWithFewest
    IN  /\ Tx
        /\ m \in MixId
        /\ \A k \in Bonded : bonds[k].owner # o
        /\ lastMixId' = m
        /\ bonds' = [bonds EXCEPT ![m] = [NoBond EXCEPT !.owner = o, !.pledge = pledge,
                                                      !.layer = layer]]
        /\ rewarding' = [rewarding EXCEPT ![m] =
               [stored |-> TRUE, operator |-> pledge, unique_delegations |-> 0,
                last_rewarded_epoch |-> interval.total_elapsed_epochs,
                unit_reward |-> FALSE]]
        /\ layers' = [layers EXCEPT ![layer] = @ + 1]
        /\ UNCHANGED <<epochVars, queueVars, delegations, params, rewardedSet>>

\* Mutant: a pending change of the pledge is overlooked.
CanChangePledgeTwice(m) ==
    /\ Tx
    /\ EpochInProgress
    /\ m \in Bonded
    /\ ~bonds[m].is_unbonding

\* ensure_epoch_in_progress_state, ensure_bonded, ensure_no_pending_pledge_changes
CanChangePledge(m) ==
    /\ Tx
    /\ EpochInProgress
    /\ m \in Bonded
    /\ ~bonds[m].is_unbonding
    /\ ~bonds[m].pledge_change

PushPledgeChange(m, event) ==
    /\ PushNewEpochEvent(event)
    /\ bonds' = [bonds EXCEPT ![m].pledge_change = TRUE]
    /\ UNCHANGED <<epochVars, lastMixId, rewarding, delegations, layers, params, rewardedSet>>

TryIncreasePledge(m, amount) ==
    /\ CanChangePledge(m)
    /\ bonds[m].pledge + amount <= MaxPledge
    /\ PushPledgeChange(m, EpochEvent("PledgeMore", m, NoOwner, amount))

TryDecreasePledge(m, amount) ==
    /\ CanChangePledge(m)
    /\ bonds[m].pledge >= MinimumPledge + amount
    /\ PushPledgeChange(m, EpochEvent("DecreasePledge", m, NoOwner, amount))

TryRemoveMixnode(m) ==
    /\ CanChangePledge(m)
    /\ bonds' = [bonds EXCEPT ![m].is_unbonding = TRUE]
    /\ PushNewEpochEvent(EpochEvent("UnbondMixnode", m, NoOwner, 0))
    /\ UNCHANGED <<epochVars, lastMixId, rewarding, delegations, layers, params, rewardedSet>>

TryUpdateMixnodeCostParams(m) ==
    /\ Tx
    /\ EpochInProgress
    /\ m \in Bonded
    /\ ~bonds[m].is_unbonding
    /\ PushNewIntervalEvent(EpochEvent("ChangeMixCostParams", m, NoOwner, 0))
    /\ UNCHANGED <<epochVars, nodeVars, params, rewardedSet>>

TryDelegateToMixnode(m, d) ==
    /\ Tx
    /\ EpochInProgress
    /\ m \in Bonded
    /\ ~bonds[m].is_unbonding
    /\ PushNewEpochEvent(EpochEvent("Delegate", m, d, 0))
    /\ UNCHANGED <<epochVars, nodeVars, params, rewardedSet>>

TryRemoveDelegationFromMixnode(m, d) ==
    /\ Tx
    /\ EpochInProgress
    /\ <<m, d>> \in delegations
    /\ PushNewEpochEvent(EpochEvent("Undelegate", m, d, 0))
    /\ UNCHANGED <<epochVars, nodeVars, params, rewardedSet>>

\* Takes effect at once; panics, and is reverted, if the pledge is not covered.
TryWithdrawOperatorReward(m) ==
    /\ Tx
    /\ m \in Bonded
    /\ ~bonds[m].is_unbonding
    /\ bonds[m].pledge <= rewarding[m].operator
    /\ rewarding' = [rewarding EXCEPT ![m].operator = bonds[m].pledge]
    /\ UNCHANGED <<epochVars, queueVars, lastMixId, bonds, delegations, layers,
                   params, rewardedSet>>

-------------------------------------------------------------------------------
(* The execution of an event.  A step is disabled where the code returns an   *)
(* error, which fails the transaction that executes the event.                *)

\* remove_delegation_decimal: what is left of the rewards of all delegators after
\* the last delegation is removed goes to the operator, bonded or not.
RemoveDelegation(r, dust) ==
    [r EXCEPT !.unique_delegations = @ - 1,
              !.operator = IF r.unique_delegations = 1 THEN @ + dust ELSE @]

\* Rounding leaves something only if rewards were distributed.
Dust(m) ==
    IF rewarding[m].unit_reward /\ rewarding[m].operator < bonds[m].pledge + MaxReward
    THEN {0, 1} ELSE {0}

\* Mutant: an existing delegation is counted a second time.
DelegateCountedTwice(m, d) ==
    IF m \in Bonded /\ StillBonded(m) /\ ~bonds[m].is_unbonding
    THEN /\ rewarding' = [rewarding EXCEPT ![m].unique_delegations = @ + 1]
         /\ delegations' = delegations \union {<<m, d>>}
         /\ UNCHANGED <<lastMixId, bonds, layers>>
    ELSE UNCHANGED nodeVars

\* A node that is gone or unbonding is no error: the tokens are returned.
Delegate(m, d) ==
    /\ m \in Bonded => rewarding[m].stored
    /\ IF m \in Bonded /\ StillBonded(m) /\ ~bonds[m].is_unbonding
       THEN /\ <<m, d>> \in delegations => rewarding[m].unique_delegations > 0
            /\ \E dust \in Dust(m) :
                 LET old == IF <<m, d>> \in delegations
                            THEN RemoveDelegation(rewarding[m], dust)
                            ELSE rewarding[m]
                 IN  rewarding' = [rewarding EXCEPT ![m] =
                         [old EXCEPT !.unique_delegations = @ + 1]]
            /\ delegations' = delegations \union {<<m, d>>}
            /\ UNCHANGED <<lastMixId, bonds, layers>>
       ELSE UNCHANGED nodeVars

Undelegate(m, d) ==
    IF <<m, d>> \in delegations
    THEN /\ rewarding[m].stored
         /\ rewarding[m].unique_delegations > 0
         /\ \E dust \in Dust(m) :
              rewarding' = [rewarding EXCEPT ![m] = RemoveDelegation(@, dust)]
         /\ delegations' = delegations \ {<<m, d>>}
         /\ UNCHANGED <<lastMixId, bonds, layers>>
    ELSE UNCHANGED nodeVars

CleanupPostUnbondMixnodeStorage(m) ==
    /\ bonds' = [bonds EXCEPT ![m] = NoBond]
    /\ rewarding' = [rewarding EXCEPT ![m] =
           IF @.unique_delegations = 0 THEN NoRewarding ELSE [@ EXCEPT !.operator = 0]]
    /\ layers[bonds[m].layer] > 0
    /\ layers' = [layers EXCEPT ![bonds[m].layer] = @ - 1]
    /\ UNCHANGED <<lastMixId, delegations>>

UnbondMixnode(m) ==
    /\ m \in Bonded
    /\ rewarding[m].stored
    /\ ~bonds[m].pledge_change
    /\ CleanupPostUnbondMixnodeStorage(m)

\* Mutant: the operator's tokens are not increased.
IncreasePledgeOfBondOnly(m, amount) ==
    /\ m \in Bonded
    /\ bonds[m].pledge_change
    /\ bonds' = [bonds EXCEPT ![m].pledge = @ + amount, ![m].pledge_change = FALSE]
    /\ UNCHANGED <<lastMixId, rewarding, delegations, layers>>

IncreasePledge(m, amount) ==
    /\ m \in Bonded
    /\ rewarding[m].stored
    /\ bonds[m].pledge_change
    /\ bonds' = [bonds EXCEPT ![m].pledge = @ + amount, ![m].pledge_change = FALSE]
    /\ rewarding' = [rewarding EXCEPT ![m].operator = @ + amount]
    /\ UNCHANGED <<lastMixId, delegations, layers>>

DecreasePledge(m, amount) ==
    /\ m \in Bonded
    /\ rewarding[m].stored
    /\ bonds[m].pledge_change
    /\ bonds[m].pledge >= amount
    /\ rewarding[m].operator >= amount
    /\ bonds' = [bonds EXCEPT ![m].pledge = @ - amount, ![m].pledge_change = FALSE]
    /\ rewarding' = [rewarding EXCEPT ![m].operator = @ - amount]
    /\ UNCHANGED <<lastMixId, delegations, layers>>

ValidActiveSetSize(size) == size # 0 /\ size <= params.rewarded

TryChangeActiveSetSize(size) ==
    /\ ValidActiveSetSize(size)
    /\ params' = [params EXCEPT !.active = size]

\* try_apply_updates, for an update of the rewarded set size
ValidRewardedSetSize(size) == size # 0 /\ size >= params.active

TryApplyUpdates(size) ==
    /\ ValidRewardedSetSize(size)
    /\ params' = [params EXCEPT !.rewarded = size]

\* Mutant: the interval keeps its id.
ForceChangeKeepingId(i, epochs) ==
    [i EXCEPT !.epochs_in_interval = epochs, !.current_epoch_id = @ % epochs]

\* The (interval, epoch) pair must not be one that was used before.
ForceChangeEpochsInInterval(i, epochs) ==
    IF i.current_epoch_id >= epochs
    THEN [i EXCEPT !.epochs_in_interval = epochs,
                   !.id = @ + i.current_epoch_id \div epochs,
                   !.current_epoch_id = @ % epochs]
    ELSE [i EXCEPT !.epochs_in_interval = epochs]

\* The new epoch length changes how many of them have passed since the start.
ChangeIntervalConfig(epochs) ==
    /\ interval' = ForceChangeEpochsInInterval(interval, epochs)
    /\ elapsed' \in 0 .. MaxElapsed

ExecuteEpochEvent(e) ==
    \/ e.kind = "Delegate" /\ Delegate(e.mix_id, e.owner) /\ UNCHANGED params
    \/ e.kind = "Undelegate" /\ Undelegate(e.mix_id, e.owner) /\ UNCHANGED params
    \/ e.kind = "UnbondMixnode" /\ UnbondMixnode(e.mix_id) /\ UNCHANGED params
    \/ e.kind = "PledgeMore" /\ IncreasePledge(e.mix_id, e.amount) /\ UNCHANGED params
    \/ e.kind = "DecreasePledge" /\ DecreasePledge(e.mix_id, e.amount) /\ UNCHANGED params
    \/ /\ e.kind = "UpdateActiveSetSize"
       /\ TryChangeActiveSetSize(e.amount)
       /\ UNCHANGED nodeVars

\* The cost parameters are not part of the model, so ChangeMixCostParams leaves
\* it as it is.
ExecuteIntervalEvent(e) ==
    \/ e.kind = "ChangeMixCostParams" /\ UNCHANGED <<params, interval, elapsed>>
    \/ /\ e.kind = "UpdateRewardingParams"
       /\ TryApplyUpdates(e.amount)
       /\ UNCHANGED <<interval, elapsed>>
    \/ /\ e.kind = "UpdateIntervalConfig"
       /\ ChangeIntervalConfig(e.amount)
       /\ UNCHANGED params

-------------------------------------------------------------------------------
(* What the contract owner does: at once if forced or if the epoch, or the    *)
(* interval, is over; otherwise by an event.                                  *)

TryUpdateActiveSetSize(size, force) ==
    /\ Tx
    /\ ValidActiveSetSize(size)
    /\ IF force \/ IsCurrentEpochOver
       THEN TryChangeActiveSetSize(size) /\ UNCHANGED queueVars
       ELSE /\ EpochInProgress
            /\ PushNewEpochEvent(EpochEvent("UpdateActiveSetSize", 0, NoOwner, size))
            /\ UNCHANGED params
    /\ UNCHANGED <<epochVars, nodeVars, rewardedSet>>

TryUpdateRewardingParams(size, force) ==
    /\ Tx
    /\ IF force \/ IsCurrentIntervalOver
       THEN TryApplyUpdates(size) /\ UNCHANGED queueVars
       ELSE /\ EpochInProgress
            /\ PushNewIntervalEvent(EpochEvent("UpdateRewardingParams", 0, NoOwner, size))
            /\ UNCHANGED params
    /\ UNCHANGED <<epochVars, nodeVars, rewardedSet>>

TryUpdateIntervalConfig(epochs, force) ==
    /\ Tx
    /\ epochs # 0
    /\ IF force \/ IsCurrentIntervalOver
       THEN ChangeIntervalConfig(epochs) /\ UNCHANGED queueVars
       ELSE /\ EpochInProgress
            /\ PushNewIntervalEvent(EpochEvent("UpdateIntervalConfig", 0, NoOwner, epochs))
            /\ UNCHANGED <<interval, elapsed>>
    /\ UNCHANGED <<epochState, reconciling, nodeVars, params, rewardedSet>>

-------------------------------------------------------------------------------
(* What the rewarding validator (nym-api) does to move to the next epoch.     *)

\* Mutant: an empty rewarded set is to be rewarded too.
BeginRewardingNobody ==
    /\ Tx
    /\ interval.total_elapsed_epochs < MaxEpochs
    /\ IsCurrentEpochOver
    /\ EpochInProgress
    /\ epochState' =
         [state |-> "Rewarding", last_rewarded |-> 0,
          final_node_id |-> IF rewardedSet = {} THEN 0
                            ELSE CHOOSE m \in rewardedSet : \A k \in rewardedSet : k <= m]
    /\ UNCHANGED <<interval, elapsed, reconciling, queueVars, nodeVars, params, rewardedSet>>

TryBeginEpochTransition ==
    /\ Tx
    /\ interval.total_elapsed_epochs < MaxEpochs
    /\ IsCurrentEpochOver
    /\ EpochInProgress
    /\ epochState' =
         IF rewardedSet = {} THEN ReconcilingEvents
         ELSE [state |-> "Rewarding", last_rewarded |-> 0,
               final_node_id |-> CHOOSE m \in rewardedSet : \A k \in rewardedSet : k <= m]
    /\ UNCHANGED <<interval, elapsed, reconciling, queueVars, nodeVars, params, rewardedSet>>

\* Mutant: only the final node is remembered.
UpdateLastRewardedAtEnd(m) ==
    /\ epochState.state = "Rewarding"
    /\ m > epochState.last_rewarded
    /\ epochState' = IF m = epochState.final_node_id THEN ReconcilingEvents ELSE epochState

UpdateLastRewarded(m) ==
    /\ epochState.state = "Rewarding"
    /\ m > epochState.last_rewarded
    /\ epochState' = IF m = epochState.final_node_id THEN ReconcilingEvents
                     ELSE [epochState EXCEPT !.last_rewarded = m]

\* The validator rewards nodes of the rewarded set; share is what the operator
\* earns, performance whether the node did anything.
TryRewardMixnode(m, performance, share) ==
    /\ Tx
    /\ IsCurrentEpochOver
    /\ UpdateLastRewarded(m)
    /\ IF ~StillBonded(m)
       THEN UNCHANGED rewarding
       ELSE /\ rewarding[m].last_rewarded_epoch # interval.total_elapsed_epochs
            /\ m \in rewardedSet
            /\ share > 0 => performance /\ rewarding[m].operator < bonds[m].pledge + MaxReward
            /\ rewarding' = [rewarding EXCEPT
                   ![m].last_rewarded_epoch = interval.total_elapsed_epochs,
                   ![m].operator = @ + share,
                   ![m].unit_reward = @ \/ performance]
    /\ UNCHANGED <<interval, elapsed, reconciling, queueVars, lastMixId, bonds,
                   delegations, layers, params, rewardedSet>>

\* Mutant: interval events are not waited for.
NoEpochEventPending(intervalOver) == epochEvents = <<>>

\* The condition on which the epoch may be advanced, on the interval as it was
\* read at the start of the transaction.
NothingPending(intervalOver) ==
    /\ epochEvents = <<>>
    /\ intervalOver => intervalEvents = <<>>

\* perform_pending_epoch_actions, then perform_pending_interval_actions
PerformPendingAction(intervalOver) ==
    /\ reconciling' = IF intervalOver THEN "interval over" ELSE "interval running"
    /\ \/ /\ epochEvents # <<>>
          /\ ExecuteEpochEvent(Head(epochEvents))
          /\ epochEvents' = Tail(epochEvents)
          /\ UNCHANGED <<intervalEvents, interval, elapsed>>
       \/ /\ epochEvents = <<>>
          /\ intervalOver
          /\ intervalEvents # <<>>
          /\ ExecuteIntervalEvent(Head(intervalEvents))
          /\ intervalEvents' = Tail(intervalEvents)
          /\ UNCHANGED <<epochEvents, nodeVars>>
    /\ UNCHANGED <<epochState, rewardedSet>>

TryReconcileEpochEvents ==
    /\ Tx
    /\ epochState.state = "ReconcilingEvents"
    /\ IsCurrentEpochOver
    /\ IF NothingPending(IsCurrentIntervalOver)
       THEN /\ epochState' = AdvancingEpoch
            /\ UNCHANGED <<interval, elapsed, reconciling, queueVars, nodeVars, params,
                           rewardedSet>>
       ELSE PerformPendingAction(IsCurrentIntervalOver)

ContinueReconciliation ==
    /\ ~Tx
    /\ PerformPendingAction(reconciling = "interval over")

FinishReconciliation ==
    /\ ~Tx
    /\ epochState' = IF NothingPending(reconciling = "interval over")
                     THEN AdvancingEpoch ELSE epochState
    /\ reconciling' = "none"
    /\ UNCHANGED <<interval, elapsed, queueVars, nodeVars, params, rewardedSet>>

\* Mutant: the interval has one epoch too many.
AdvanceEpochLate(i) ==
    IF i.current_epoch_id = i.epochs_in_interval
    THEN [i EXCEPT !.id = @ + 1, !.current_epoch_id = 0, !.total_elapsed_epochs = @ + 1]
    ELSE [i EXCEPT !.current_epoch_id = @ + 1, !.total_elapsed_epochs = @ + 1]

AdvanceEpoch(i) ==
    IF i.current_epoch_id = i.epochs_in_interval - 1
    THEN [i EXCEPT !.id = @ + 1, !.current_epoch_id = 0, !.total_elapsed_epochs = @ + 1]
    ELSE [i EXCEPT !.current_epoch_id = @ + 1, !.total_elapsed_epochs = @ + 1]

\* update_mixnode_layer does not touch the counts of the layers.
UpdateMixnodeLayers(assignment) ==
    /\ DOMAIN assignment \subseteq Bonded
    /\ bonds' = [m \in MixId |-> IF m \in DOMAIN assignment
                                 THEN [bonds[m] EXCEPT !.layer = assignment[m]]
                                 ELSE bonds[m]]

TryAdvanceEpoch(assignment, expectedActiveSetSize) ==
    /\ Tx
    /\ epochState.state = "AdvancingEpoch"
    /\ IsCurrentEpochOver
    /\ interval' = AdvanceEpoch(interval)
    /\ elapsed' = elapsed - 1
    /\ expectedActiveSetSize = params.active
    /\ Cardinality(DOMAIN assignment) <= params.rewarded
    /\ rewardedSet' = DOMAIN assignment
    /\ UpdateMixnodeLayers(assignment)
    /\ epochState' = InProgress
    /\ UNCHANGED <<reconciling, queueVars, lastMixId, rewarding, delegations, layers, params>>

AssignMixnodeLayer(m, layer) ==
    /\ Tx
    /\ UpdateMixnodeLayers([k \in {m} |-> layer])
    /\ UNCHANGED <<epochVars, queueVars, lastMixId, rewarding, delegations, layers,
                   params, rewardedSet>>

\* Block time moves on.
BlockTime ==
    /\ Tx
    /\ elapsed < MaxElapsed
    /\ elapsed' = elapsed + 1
    /\ UNCHANGED <<epochState, interval, reconciling, queueVars, nodeVars, params, rewardedSet>>

-------------------------------------------------------------------------------
UserStep ==
    \/ \E o \in Owner, pledge \in MinimumPledge .. MaxPledge : TryAddMixnode(o, pledge)
    \/ \E m \in MixId :
        \/ \E amount \in 1 .. MaxPledge : TryIncreasePledge(m, amount) \/ TryDecreasePledge(m, amount)
        \/ TryRemoveMixnode(m)
        \/ TryUpdateMixnodeCostParams(m)
        \/ TryWithdrawOperatorReward(m)
        \/ \E d \in Delegator : TryDelegateToMixnode(m, d) \/ TryRemoveDelegationFromMixnode(m, d)

OwnerStep ==
    \E force \in Forced :
        \/ \E size \in ActiveSetSizes : TryUpdateActiveSetSize(size, force)
        \/ \E size \in RewardedSetSizes : TryUpdateRewardingParams(size, force)
        \/ \E epochs \in IntervalLengths : TryUpdateIntervalConfig(epochs, force)

\* nym-api chooses bonded nodes, and layers for them.
Assignments ==
    UNION {{f \in [S -> Layer] : \A m \in S : f[m] \in AssignedLayers \union {bonds[m].layer}}
           : S \in SUBSET Bonded}

RewardStep ==
    \E m \in rewardedSet, performance \in BOOLEAN, share \in {0, 1} :
        TryRewardMixnode(m, performance, share)

ReconcileStep ==
    \/ TryReconcileEpochEvents
    \/ ContinueReconciliation
    \/ FinishReconciliation

AdvanceStep ==
    \E f \in Assignments, size \in ActiveSetSizes \union {InitParams.active} :
        TryAdvanceEpoch(f, size)

AssignStep ==
    \E m \in MixId, layer \in AssignedLayers : AssignMixnodeLayer(m, layer)

Next ==
    \/ UserStep
    \/ OwnerStep
    \/ TryBeginEpochTransition
    \/ RewardStep
    \/ ReconcileStep
    \/ AdvanceStep
    \/ AssignStep
    \/ BlockTime

Spec == Init /\ [][Next]_vars

-------------------------------------------------------------------------------
EventKind == {"Delegate", "Undelegate", "UnbondMixnode", "PledgeMore", "DecreasePledge",
              "UpdateActiveSetSize", "ChangeMixCostParams", "UpdateRewardingParams",
              "UpdateIntervalConfig"}

Event == [kind : EventKind, mix_id : Nat, owner : Delegator \union {NoOwner}, amount : Nat]

\* The type invariant of the contract's storage.
TypeOK ==
    /\ epochState \in [state : {"InProgress", "Rewarding", "ReconcilingEvents",
                                "AdvancingEpoch"},
                       last_rewarded : Nat, final_node_id : Nat]
    /\ interval \in [id : Nat, epochs_in_interval : Nat \ {0}, current_epoch_id : Nat,
                     total_elapsed_epochs : Nat]
    /\ interval.current_epoch_id < interval.epochs_in_interval
    /\ elapsed \in 0 .. MaxElapsed
    /\ reconciling \in {"none", "interval over", "interval running"}
    /\ epochEvents \in Seq(Event)
    /\ intervalEvents \in Seq(Event)
    /\ lastMixId \in 0 .. MaxMixId
    /\ bonds \in [MixId -> [owner : Owner \union {NoOwner}, is_unbonding : BOOLEAN,
                            pledge : Nat, layer : Layer, pledge_change : BOOLEAN]]
    /\ rewarding \in [MixId -> [stored : BOOLEAN, operator : Nat, unique_delegations : Nat,
                                last_rewarded_epoch : Nat, unit_reward : BOOLEAN]]
    /\ delegations \subseteq MixId \X Delegator
    /\ layers \in [Layer -> Nat]
    /\ params \in [active : Nat \ {0}, rewarded : Nat \ {0}]
    /\ rewardedSet \subseteq MixId

\* Of the events that change node m's bond, the queue holds at most one, and what
\* that event checks when it is executed, possibly many transactions after it was
\* pushed, is true all the while: unbond_mixnode, increase_pledge and
\* decrease_pledge never return their inconsistent_state errors, and the pledge
\* never falls below the minimum.
BondEvent(m) ==
    {i \in DOMAIN epochEvents : /\ epochEvents[i].mix_id = m
                                /\ epochEvents[i].kind \in
                                      {"UnbondMixnode", "PledgeMore", "DecreasePledge"}}

BondEventsExecutable ==
    \A m \in MixId :
        /\ Cardinality(BondEvent(m)) <= 1
        /\ \A i \in BondEvent(m) :
            /\ m \in Bonded /\ rewarding[m].stored
            /\ IF epochEvents[i].kind = "UnbondMixnode"
               THEN bonds[m].is_unbonding /\ ~bonds[m].pledge_change
               ELSE bonds[m].pledge_change
            /\ epochEvents[i].kind = "DecreasePledge" =>
                 /\ bonds[m].pledge >= MinimumPledge + epochEvents[i].amount
                 /\ rewarding[m].operator >= epochEvents[i].amount

\* unique_delegations is the number of stored delegations, and as long as a node is
\* bonded or has a delegation its rewarding details are stored: undelegate never
\* finds that the "mixnode rewarding got removed from the storage whilst there's
\* still an existing delegation".
DelegationsCounted ==
    \A m \in MixId :
        LET held == {d \in Delegator : <<m, d>> \in delegations}
        IN  /\ rewarding[m].unique_delegations = Cardinality(held)
            /\ m \in Bonded \/ held # {} => rewarding[m].stored

\* The operator of a bonded node has at least its pledge: no withdrawal panics with
\* "seems slashing has occurred".
PledgeCovered ==
    \A m \in Bonded : rewarding[m].operator >= bonds[m].pledge

\* A node of the rewarded set that is still to be rewarded in this epoch has not
\* been rewarded in it: the second check of try_reward_mixnode, a hard error, never
\* fails and so never keeps the epoch in the rewarding state.
RewardedLater ==
    {m \in rewardedSet : \/ epochState.state = "InProgress"
                         \/ epochState.state = "Rewarding" /\ m > epochState.last_rewarded}

NotYetRewarded ==
    \A m \in RewardedLater :
        StillBonded(m) => rewarding[m].last_rewarded_epoch < interval.total_elapsed_epochs

\* "We roll into new epoch / interval with up to date state with no pending
\* actions": try_advance_epoch finds no epoch event, and no interval event when
\* the interval ends, however late it runs after the last reconciliation.
RollsUpToDate ==
    [][interval'.total_elapsed_epochs # interval.total_elapsed_epochs =>
          /\ epochEvents = <<>>
          /\ interval'.id # interval.id => intervalEvents = <<>>]_vars

\* "We can't have the same (interval, epoch) combo as we had in the past": whatever
\* changes the pair, advancing or a new interval length, moves it forward.
EpochNamesFresh ==
    [][LET moved(f) == interval'[f] # interval[f]
       IN  moved("id") \/ moved("current_epoch_id") =>
             \/ interval'.id > interval.id
             \/ interval'.id = interval.id /\ interval'.current_epoch_id > interval.current_epoch_id]_vars

\* A transition that was begun is completed, unless the contract owner changes the
\* parameters for ever: no reward, no event and no advance fails for good.
EpochAdvances ==
    \/ []<><<OwnerStep>>_vars
    \/ (epochState.state # "InProgress") ~> (epochState.state = "InProgress")

\* "The error only means a HARD error like we failed to read from storage": the
\* unbonding of a node succeeds when its turn comes.
UnbondExecutes ==
    /\ epochState.state = "ReconcilingEvents"
    /\ epochEvents # <<>>
    /\ Head(epochEvents).kind = "UnbondMixnode"
    => layers[bonds[Head(epochEvents).mix_id].layer] > 0

\* "We know the update is valid as we checked for that before pushing the event onto
\* the queue": a parameter update succeeds when its turn comes.
ParamEventsValid ==
    epochState.state = "ReconcilingEvents" =>
        /\ epochEvents # <<>> /\ Head(epochEvents).kind = "UpdateActiveSetSize" =>
              ValidActiveSetSize(Head(epochEvents).amount)
        /\ /\ epochEvents = <<>> /\ intervalEvents # <<>> /\ IsCurrentIntervalOver
           /\ Head(intervalEvents).kind = "UpdateRewardingParams"
           => ValidRewardedSetSize(Head(intervalEvents).amount)

==============================================================================
