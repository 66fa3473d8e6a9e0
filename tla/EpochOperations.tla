---------------------------- MODULE EpochOperations ----------------------------
(***************************************************************************)
(* nym-api's RewardedSetUpdater (src/nym-api/src/epoch_operations) driving *)
(* the epochs of the mixnet contract of module MixnetEpoch, with users and *)
(* the contract's owner at work in between.                                *)
(*                                                                         *)
(* nym-api keeps nothing on disk about a transition.  It may stop after    *)
(* any step; a query or transaction may fail, and a transaction may be     *)
(* executed although its result never arrives.  In all three cases it      *)
(* starts over and finds out from the contract how far it got.             *)
(*                                                                         *)
(* Only nym-api changes the epoch's state, so asking for the state and     *)
(* the transaction sent on the answer are one step.                        *)
(***************************************************************************)
EXTENDS MixnetEpoch, FiniteSetsExt

CONSTANTS
    Limit,       \* events per reconciling transaction
    Leftover,    \* pending events for which one more transaction is sent
    MaxFaults    \* bound on stops, failures and lost results

ASSUME OperationsAssumption ==
    Limit \in Nat \ {0} /\ Leftover \in Nat /\ MaxFaults \in Nat

VARIABLES
    stage,       \* what perform_epoch_operations does next
    toReward,    \* rewards
    allMixnodes, \* all_mixnodes
    calls,       \* transactions still to be sent by _reconcile_epoch_events
    executed,    \* events the running transaction has executed
    activeSize,  \* rewarding_parameters.active_set_size
    newSet,      \* the layers of the new rewarded set
    cache,       \* nym_contract_cache: the bonded mixnodes
    faults

local == <<toReward, allMixnodes, calls, executed, activeSize, newSet>>
apiVars == <<stage, local, cache, faults>>

OpInit ==
    /\ Init
    /\ stage = "waiting"
    /\ toReward = {}
    /\ allMixnodes = {}
    /\ calls = 0
    /\ executed = 0
    /\ activeSize = 0
    /\ newSet = <<>>
    /\ cache = {}
    /\ faults = 0

\* The error is logged, and run starts from wait_until_epoch_end.
StartOver ==
    /\ stage' = "waiting"
    /\ toReward' = {}
    /\ allMixnodes' = {}
    /\ calls' = 0
    /\ executed' = 0
    /\ activeSize' = 0
    /\ newSet' = <<>>

\* A transaction has been executed: its result arrives, or it does not.
Executed(next) ==
    \/ next /\ UNCHANGED faults
    \/ /\ faults < MaxFaults
       /\ faults' = faults + 1
       /\ StartOver

\* nym-api stops and is started again, or a query fails, or a transaction is not
\* executed.  A transaction that runs is not affected.
Fault ==
    /\ Tx
    /\ stage # "waiting"
    /\ faults < MaxFaults
    /\ faults' = faults + 1
    /\ StartOver
    /\ UNCHANGED <<vars, cache>>

\* A new epoch length may put off the end of the epoch, which every transaction of a
\* transition requires.
EpochNotOver ==
    /\ Tx
    /\ ~IsCurrentEpochOver
    /\ \/ stage \in {"beginning", "advancing"}
       \/ stage = "rewarding" /\ epochState.state = "Rewarding"
       \/ stage \in {"calling", "again"} /\ calls > 0
    /\ StartOver
    /\ UNCHANGED <<vars, cache, faults>>

-------------------------------------------------------------------------------
\* wait_until_epoch_end, nodes_to_reward and the cached mixnodes.  The rewarded set
\* that is used when the query for it fails is the cached one; it is taken to have
\* been refreshed since the epoch began.
NodesToReward ==
    /\ Tx
    /\ stage = "waiting"
    /\ IsCurrentEpochOver
    /\ interval.total_elapsed_epochs < MaxEpochs
    /\ toReward' = rewardedSet
    /\ allMixnodes' = cache
    /\ stage' = IF EpochInProgress THEN "beginning" ELSE "rewarding"
    /\ UNCHANGED <<vars, calls, executed, activeSize, newSet, cache, faults>>

BeginEpochTransition ==
    /\ stage = "beginning"
    /\ TryBeginEpochTransition
    /\ Executed(stage' = "rewarding" /\ UNCHANGED local)
    /\ UNCHANGED cache

\* Mutant: a node without performance is passed over.
SendPerformingNodesOnly(nodes, performance, earned) ==
    /\ IsCurrentEpochOver
    /\ rewarding' = [m \in MixId |->
          IF m \in performance /\ StillBonded(m)
          THEN [rewarding[m] EXCEPT !.last_rewarded_epoch = interval.total_elapsed_epochs]
          ELSE rewarding[m]]
    /\ epochState' = ReconcilingEvents
    /\ UNCHANGED <<interval, elapsed, reconciling, queueVars, lastMixId, bonds,
                   delegations, layers, params, rewardedSet>>

\* A transaction with one message for each node, in the order of their ids: every
\* one is a TryRewardMixnode, and all are executed or none is.  The nodes performed
\* or not, and some operators earn a share.
SendRewardingMessages(nodes, performance, earned) ==
    LET rewarded == {m \in nodes : StillBonded(m)}
    IN  /\ IsCurrentEpochOver
        /\ \A m \in rewarded :
              /\ rewarding[m].last_rewarded_epoch # interval.total_elapsed_epochs
              /\ m \in rewardedSet
        /\ \A m \in earned : rewarding[m].operator < bonds[m].pledge + MaxReward
        /\ rewarding' = [m \in MixId |->
              IF m \in rewarded
              THEN [rewarding[m] EXCEPT
                       !.last_rewarded_epoch = interval.total_elapsed_epochs,
                       !.operator = IF m \in earned THEN @ + 1 ELSE @,
                       !.unit_reward = @ \/ m \in performance]
              ELSE rewarding[m]]
        /\ epochState' = IF epochState.final_node_id \in nodes THEN ReconcilingEvents
                         ELSE [epochState EXCEPT !.last_rewarded = Max(nodes)]
        /\ UNCHANGED <<interval, elapsed, reconciling, queueVars, lastMixId, bonds,
                       delegations, layers, params, rewardedSet>>

\* reward_current_rewarded_set
RewardCurrentRewardedSet ==
    /\ Tx
    /\ stage = "rewarding"
    /\ IF epochState.state = "Rewarding" /\ epochState.last_rewarded = 0 /\ toReward # {}
       THEN /\ \E performance \in SUBSET toReward :
               \E earned \in SUBSET performance :
                   SendRewardingMessages(toReward, performance, earned)
            /\ Executed(stage' = "reconciling" /\ UNCHANGED local)
       ELSE /\ IF \/ epochState.state \in {"ReconcilingEvents", "AdvancingEpoch"}
                  \/ epochState.state = "Rewarding" /\ epochState.last_rewarded = 0
               THEN stage' = "reconciling" /\ UNCHANGED local
               ELSE StartOver
            /\ UNCHANGED <<vars, faults>>
    /\ UNCHANGED cache

-------------------------------------------------------------------------------
Pending == Len(epochEvents) + Len(intervalEvents)

\* reconcile_epoch_events, and _reconcile_epoch_events up to its loop.
ReconcileEpochEvents ==
    /\ Tx
    /\ stage = "reconciling"
    /\ CASE epochState.state = "AdvancingEpoch" ->
              stage' = "assigning" /\ UNCHANGED local
         [] epochState.state = "ReconcilingEvents" ->
              /\ stage' = "calling"
              /\ calls' = Max({(Pending + Limit - 1) \div Limit, 1})
              /\ UNCHANGED <<toReward, allMixnodes, executed, activeSize, newSet>>
         [] OTHER -> StartOver
    /\ UNCHANGED <<vars, cache, faults>>

\* The transaction is done.
CallReturns ==
    Executed(/\ calls' = calls - 1
             /\ executed' = 0
             /\ UNCHANGED <<stage, toReward, allMixnodes, activeSize, newSet>>)

\* One transaction: it executes up to Limit events, and fails if the last one has
\* moved the epoch on.
CallReconcile ==
    /\ stage \in {"calling", "again"}
    /\ calls > 0
    /\ \/ /\ TryReconcileEpochEvents
          /\ IF reconciling' = "none" THEN CallReturns
             ELSE executed' = 1 /\ UNCHANGED <<stage, toReward, allMixnodes, calls, activeSize,
                                               newSet, faults>>
       \/ /\ executed < Limit
          /\ ContinueReconciliation
          /\ executed' = executed + 1
          /\ UNCHANGED <<stage, toReward, allMixnodes, calls, activeSize, newSet, faults>>
       \/ /\ \/ executed = Limit
             \/ NothingPending(reconciling = "interval over")
          /\ FinishReconciliation
          /\ CallReturns
       \/ /\ Tx
          /\ epochState.state # "ReconcilingEvents"
          /\ StartOver
          /\ UNCHANGED <<vars, faults>>
    /\ UNCHANGED cache

\* The check for events that were pushed in the meantime.
CheckLeftover ==
    /\ Tx
    /\ stage \in {"calling", "again"}
    /\ calls = 0
    /\ IF stage = "calling" /\ Pending > Leftover
       THEN stage' = "again" /\ calls' = 1
       ELSE stage' = "assigning" /\ UNCHANGED calls
    /\ UNCHANGED <<vars, toReward, allMixnodes, executed, activeSize, newSet, cache, faults>>

-------------------------------------------------------------------------------
\* update_rewarded_set_and_advance_epoch, up to the transaction: some of the nodes
\* that were read at the start, and layers for them.
DetermineRewardedSet ==
    /\ Tx
    /\ stage = "assigning"
    /\ IF epochState.state = "AdvancingEpoch"
       THEN /\ stage' = "advancing"
            /\ activeSize' = params.active
            /\ \E S \in SUBSET allMixnodes :
                  /\ Cardinality(S) <= params.rewarded
                  /\ newSet' \in {f \in [S -> Layer] :
                        \A m \in S : f[m] \in AssignedLayers \union {bonds[m].layer}}
            /\ UNCHANGED <<toReward, allMixnodes, calls, executed>>
       ELSE StartOver
    /\ UNCHANGED <<vars, cache, faults>>

\* advance_current_epoch: executed, or refused because a node of the set is gone or
\* the parameters have changed.
AdvanceCurrentEpoch ==
    /\ Tx
    /\ stage = "advancing"
    /\ \/ TryAdvanceEpoch(newSet, activeSize) /\ Executed(StartOver)
       \/ /\ \/ activeSize # params.active
             \/ Cardinality(DOMAIN newSet) > params.rewarded
             \/ ~(DOMAIN newSet \subseteq Bonded)
          /\ StartOver
          /\ UNCHANGED <<vars, faults>>
    /\ UNCHANGED cache

\* The contract cache is refreshed by a task of its own.
RefreshCache ==
    /\ Tx
    /\ cache # Bonded
    /\ cache' = Bonded
    /\ UNCHANGED <<vars, stage, local, faults>>

-------------------------------------------------------------------------------
ApiStep ==
    \/ NodesToReward
    \/ BeginEpochTransition
    \/ RewardCurrentRewardedSet
    \/ ReconcileEpochEvents
    \/ CallReconcile
    \/ CheckLeftover
    \/ DetermineRewardedSet
    \/ AdvanceCurrentEpoch
    \/ EpochNotOver

OpNext ==
    \/ (UserStep \/ OwnerStep \/ BlockTime) /\ UNCHANGED apiVars
    \/ ApiStep
    \/ RefreshCache
    \/ Fault

opVars == <<vars, apiVars>>

\* nym-api keeps working, its cache is refreshed, and time passes.
OpSpec ==
    /\ OpInit
    /\ [][OpNext]_opVars
    /\ WF_opVars(ApiStep)
    /\ WF_opVars(RefreshCache)
    /\ WF_opVars(BlockTime /\ UNCHANGED apiVars)

\* A node of the rewarded set that is still bonded when the epoch is left has been
\* rewarded for it: rewards are read before the transition begins, and after a stop,
\* a failure or a lost result the stages that are skipped are those that were done.
EveryNodeRewarded ==
    [][interval'.total_elapsed_epochs # interval.total_elapsed_epochs =>
          \A m \in rewardedSet : StillBonded(m) =>
             rewarding[m].last_rewarded_epoch = interval.total_elapsed_epochs]_opVars
==============================================================================
