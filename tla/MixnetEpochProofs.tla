-------------------------- MODULE MixnetEpochProofs --------------------------
(* What MixnetEpoch keeps for every number of nodes, delegators, events and   *)
(* epochs: an event that waits in a queue stays executable, delegations are   *)
(* counted, pledges are covered, nobody is rewarded twice in an epoch, and    *)
(* the names of epochs are never used again.                                  *)
EXTENDS MixnetEpoch, FiniteSetTheorems, WellFoundedInduction, TLAPS

Status == [state : {"InProgress", "Rewarding", "ReconcilingEvents", "AdvancingEpoch"},
           last_rewarded : Nat, final_node_id : Nat]
Interval == [id : Nat, epochs_in_interval : Nat \ {0}, current_epoch_id : Nat,
             total_elapsed_epochs : Nat]
Bond == [owner : Owner \union {NoOwner}, is_unbonding : BOOLEAN, pledge : Nat, layer : Layer,
         pledge_change : BOOLEAN]
Details == [stored : BOOLEAN, operator : Nat, unique_delegations : Nat,
            last_rewarded_epoch : Nat, unit_reward : BOOLEAN]

EpochType ==
    /\ epochState \in Status
    /\ reconciling \in {"none", "interval over", "interval running"}

IntervalType ==
    /\ interval \in Interval
    /\ interval.current_epoch_id < interval.epochs_in_interval
    /\ elapsed \in 0 .. MaxElapsed

\* A delegation has a delegator, and try_update_interval_config refuses zero epochs
\* before it pushes the event.
QueueType ==
    /\ epochEvents \in Seq(Event)
    /\ intervalEvents \in Seq(Event)
    /\ \A i \in 1 .. Len(epochEvents) :
          epochEvents[i].kind = "Delegate" => epochEvents[i].owner \in Delegator
    /\ \A i \in 1 .. Len(intervalEvents) :
          intervalEvents[i].kind = "UpdateIntervalConfig" => intervalEvents[i].amount # 0

NodeType ==
    /\ lastMixId \in 0 .. MaxMixId
    /\ bonds \in [MixId -> Bond]
    /\ rewarding \in [MixId -> Details]
    /\ delegations \subseteq MixId \X Delegator
    /\ layers \in [Layer -> Nat]

ParamType ==
    /\ params \in [active : Nat \ {0}, rewarded : Nat \ {0}]
    /\ rewardedSet \subseteq MixId

TypeInv == EpochType /\ IntervalType /\ QueueType /\ NodeType /\ ParamType

\* Among the subsets of a finite set there are minimal ones.
LEMMA SmallestSubset ==
    ASSUME NEW U, IsFiniteSet(U), NEW F, \A T \in F : T \subseteq U, F # {}
    PROVE  \E T \in F : \A V \in F : V \subseteq T => V = T
<1>1. IsWellFoundedOn(StrictSubsetOrdering(U), SUBSET U)
  BY Zenon, FS_StrictSubsetOrderingWellFounded, FS_FiniteSubsetsOfFinite
<1>2. F \subseteq SUBSET U
  BY Zenon
<1>3. PICK T \in F : \A V \in F : ~(<<V, T>> \in StrictSubsetOrdering(U))
  BY Zenon, <1>1, <1>2, WFMin
<1> QED
  BY Zenon, <1>3 DEF StrictSubsetOrdering

\* The rewarded set has a last node, the one the rewarding of an epoch ends with.
LEMMA LastNode ==
    ASSUME NEW S \in SUBSET MixId, S # {}
    PROVE  (CHOOSE m \in S : \A k \in S : k <= m) \in S
<1>1. IsFiniteSet(S)
  <2>1. IsFiniteSet(1 .. MaxMixId)
    BY ConstantsAssumption, FS_Interval
  <2> QED
    BY Zenon, <2>1, FS_Subset DEF MixId
<1>2. \A k \in S : k \in Int
  BY ConstantsAssumption DEF MixId
<1> DEFINE From(m) == {k \in S : k >= m}
           F == {From(m) : m \in S}
<1>3. F # {} /\ \A T \in F : T \subseteq S
  BY Zenon
<1>4. PICK T \in F : \A V \in F : V \subseteq T => V = T
  <2> HIDE DEF F
  <2> QED
    BY <1>1, <1>3, SmallestSubset
<1>5. PICK m \in S : T = From(m)
  BY Zenon
<1>6. ASSUME NEW k \in S, k > m PROVE FALSE
  <2>1. From(k) \subseteq From(m)
    <3>1. \A j \in S : j >= k => j >= m
      BY <1>2, <1>6
    <3> QED
      BY Zenon, <3>1
  <2>2. m \in From(m) /\ m \notin From(k)
    BY <1>2, <1>6
  <2>3. From(k) = From(m)
    BY Zenon, <1>4, <1>5, <2>1
  <2> QED
    BY Zenon, <2>2, <2>3
<1>7. \A k \in S : k <= m
  BY <1>2, <1>6
<1> QED
  BY Zenon, <1>7

\* What an event of either queue is made of.
LEMMA EventFields ==
    ASSUME NEW k \in EventKind, NEW m \in Nat, NEW d \in Delegator \union {NoOwner},
           NEW n \in Nat
    PROVE  /\ EpochEvent(k, m, d, n) \in Event
           /\ EpochEvent(k, m, d, n).kind = k
           /\ EpochEvent(k, m, d, n).owner = d
           /\ EpochEvent(k, m, d, n).amount = n
BY Zenon DEF EpochEvent, Event

\* A queue after an event was pushed.
LEMMA Pushed ==
    ASSUME NEW q \in Seq(Event), NEW e \in Event
    PROVE  /\ Append(q, e) \in Seq(Event)
           /\ Len(Append(q, e)) = Len(q) + 1 /\ Len(q) \in Nat
           /\ \A i \in 1 .. Len(q) : Append(q, e)[i] = q[i]
           /\ Append(q, e)[Len(q) + 1] = e
           /\ \A i \in 1 .. Len(Append(q, e)) : i \in 1 .. Len(q) \/ i = Len(q) + 1
OBVIOUS

\* A queue after its oldest event was executed.
LEMMA Popped ==
    ASSUME NEW q \in Seq(Event), q # <<>>
    PROVE  /\ Tail(q) \in Seq(Event) /\ Head(q) \in Event /\ Head(q) = q[1]
           /\ Len(q) \in Nat /\ Len(q) >= 1 /\ Len(Tail(q)) = Len(q) - 1
           /\ \A i \in 1 .. Len(Tail(q)) : i + 1 \in 1 .. Len(q) /\ Tail(q)[i] = q[i + 1]
OBVIOUS

\* Pushing keeps the queue of epoch events well formed.
LEMMA PushEpochType ==
    ASSUME QueueType, NEW k \in EventKind, NEW m \in Nat, NEW d \in Delegator \union {NoOwner},
           NEW n \in Nat, PushNewEpochEvent(EpochEvent(k, m, d, n)),
           k = "Delegate" => d \in Delegator
    PROVE  QueueType'
<1> DEFINE e == EpochEvent(k, m, d, n)
<1>1. e \in Event /\ (e.kind = "Delegate" => e.owner \in Delegator)
  BY EventFields
<1>2. epochEvents' = Append(epochEvents, e) /\ UNCHANGED intervalEvents
  BY Zenon DEF PushNewEpochEvent
<1> HIDE DEF e
<1> QED
  BY <1>1, <1>2, Pushed DEF QueueType

\* Pushing keeps the queue of interval events well formed.
LEMMA PushIntervalType ==
    ASSUME QueueType, NEW k \in EventKind, NEW m \in Nat, NEW n \in Nat,
           PushNewIntervalEvent(EpochEvent(k, m, NoOwner, n)),
           k = "UpdateIntervalConfig" => n # 0
    PROVE  QueueType'
<1> DEFINE e == EpochEvent(k, m, NoOwner, n)
<1>1. e \in Event /\ (e.kind = "UpdateIntervalConfig" => e.amount # 0)
  BY EventFields
<1>2. intervalEvents' = Append(intervalEvents, e) /\ UNCHANGED epochEvents
  BY Zenon DEF PushNewIntervalEvent
<1> HIDE DEF e
<1> QED
  BY <1>1, <1>2, Pushed DEF QueueType

\* The first layer with the fewest nodes exists.
LEMMA FewestType ==
    ASSUME NodeType
    PROVE  ChooseWithFewest \in Layer
<1>1. layers[1] \in Nat /\ layers[2] \in Nat /\ layers[3] \in Nat
  BY DEF NodeType, Layer
<1>2. Layer = {1, 2, 3}
  BY DEF Layer
<1>3. \E l \in Layer : /\ \A k \in Layer : layers[l] <= layers[k]
                       /\ \A k \in Layer : k < l => layers[k] > layers[l]
  <2>1. CASE layers[1] <= layers[2] /\ layers[1] <= layers[3]
    BY <1>1, <1>2, <2>1
  <2>2. CASE ~(layers[1] <= layers[2]) /\ layers[2] <= layers[3]
    BY <1>1, <1>2, <2>2
  <2>3. CASE layers[3] < layers[1] /\ layers[3] < layers[2]
    BY <1>1, <1>2, <2>3
  <2> QED
    BY <1>1, <2>1, <2>2, <2>3
<1> QED
  BY Zenon, <1>3 DEF ChooseWithFewest


\* What nym-api assigns when it advances the epoch: layers to bonded nodes.
LEMMA AssignmentType ==
    ASSUME NodeType, NEW f \in Assignments
    PROVE  /\ DOMAIN f \subseteq Bonded /\ DOMAIN f \subseteq MixId
           /\ \A m \in DOMAIN f : f[m] \in Layer
<1>1. PICK S \in SUBSET Bonded : f \in [S -> Layer]
  BY Zenon DEF Assignments
<1> QED
  BY Zenon, <1>1 DEF Bonded

\* A new interval length leaves a position inside the interval, and moves its name
\* only forward.
LEMMA ConfigType ==
    ASSUME IntervalType, NEW epochs \in Nat \ {0}
    PROVE  LET i == ForceChangeEpochsInInterval(interval, epochs)
           IN  /\ i \in Interval
               /\ i.current_epoch_id < i.epochs_in_interval
               /\ i.total_elapsed_epochs = interval.total_elapsed_epochs
               /\ \/ i.id > interval.id
                  \/ i.id = interval.id /\ i.current_epoch_id = interval.current_epoch_id
<1> DEFINE c == interval.current_epoch_id
<1>1. /\ interval.id \in Nat /\ c \in Nat /\ interval.total_elapsed_epochs \in Nat
      /\ interval \in Interval
  BY Zenon DEF IntervalType, Interval
<1>2. CASE c < epochs
  BY <1>1, <1>2 DEF ForceChangeEpochsInInterval, Interval
<1>3. CASE c >= epochs
  <2>1. c \div epochs \in Nat /\ c \div epochs >= 1
    BY <1>1, <1>3, SMTT(20)
  <2>2. c % epochs \in Nat /\ c % epochs < epochs
    BY <1>1, SMTT(20)
  <2>3. PICK q \in Nat, r \in Nat : q = c \div epochs /\ r = c % epochs /\ q >= 1 /\ r < epochs
    BY Zenon, <2>1, <2>2
  <2>4. ForceChangeEpochsInInterval(interval, epochs) =
           [interval EXCEPT !.epochs_in_interval = epochs, !.id = interval.id + q,
                            !.current_epoch_id = r]
    BY Zenon, <1>1, <1>3, <2>3 DEF ForceChangeEpochsInInterval
  <2> DEFINE i == [interval EXCEPT !.epochs_in_interval = epochs, !.id = interval.id + q,
                                   !.current_epoch_id = r]
  <2>5. interval.id + q \in Nat
    BY <1>1, <2>3
  <2>6. /\ i.epochs_in_interval = epochs /\ i.id = interval.id + q /\ i.current_epoch_id = r
        /\ i.total_elapsed_epochs = interval.total_elapsed_epochs
        /\ i \in Interval
    BY Zenon, <1>1, <2>3, <2>5 DEF Interval
  <2> HIDE DEF i
  <2>7. ForceChangeEpochsInInterval(interval, epochs) = i
    BY Zenon, <2>4 DEF i
  <2> QED
    BY <1>1, <2>3, <2>6, <2>7
<1> QED
  BY <1>1, <1>2, <1>3

\* The details of a node after one of its delegations was removed.
LEMMA RemoveDelegationType ==
    ASSUME NEW r \in Details, r.unique_delegations > 0, NEW dust \in {0, 1}
    PROVE  /\ RemoveDelegation(r, dust) \in Details
           /\ RemoveDelegation(r, dust).unique_delegations = r.unique_delegations - 1
           /\ RemoveDelegation(r, dust).operator >= r.operator
           /\ RemoveDelegation(r, dust).stored = r.stored
           /\ RemoveDelegation(r, dust).last_rewarded_epoch = r.last_rewarded_epoch
<1>1. /\ r.unique_delegations \in Nat /\ r.operator \in Nat /\ r.stored \in BOOLEAN
      /\ r.last_rewarded_epoch \in Nat /\ r.unit_reward \in BOOLEAN
  BY Zenon DEF Details
<1> DEFINE u == r.unique_delegations - 1
           o == IF r.unique_delegations = 1 THEN r.operator + dust ELSE r.operator
<1>2. u \in Nat /\ o \in Nat /\ o >= r.operator
  BY <1>1
<1>3. RemoveDelegation(r, dust) = [r EXCEPT !.unique_delegations = u, !.operator = o]
  BY Zenon DEF RemoveDelegation, Details
<1> HIDE DEF u, o
<1>4. /\ RemoveDelegation(r, dust) \in Details
      /\ RemoveDelegation(r, dust).unique_delegations = u
      /\ RemoveDelegation(r, dust).operator = o
      /\ RemoveDelegation(r, dust).stored = r.stored
      /\ RemoveDelegation(r, dust).last_rewarded_epoch = r.last_rewarded_epoch
  BY Zenon, <1>1, <1>2, <1>3 DEF Details
<1> QED
  BY Zenon, <1>2, <1>4 DEF u

\* delegate either leaves the node alone or adds a delegation to its details, after
\* it removed the one that is replaced.
LEMMA DelegateKinds ==
    ASSUME NodeType, NEW m, NEW d, Delegate(m, d)
    PROVE  \/ UNCHANGED nodeVars
           \/ /\ m \in Bonded /\ m \in MixId
              /\ UNCHANGED <<lastMixId, bonds, layers>>
              /\ delegations' = delegations \union {<<m, d>>}
              /\ \E r \in Details :
                    /\ rewarding' = [rewarding EXCEPT ![m] = r]
                    /\ r.unique_delegations = IF <<m, d>> \in delegations
                                              THEN rewarding[m].unique_delegations
                                              ELSE rewarding[m].unique_delegations + 1
                    /\ r.operator >= rewarding[m].operator
                    /\ r.stored = rewarding[m].stored
                    /\ r.last_rewarded_epoch = rewarding[m].last_rewarded_epoch
<1> SUFFICES ASSUME ~UNCHANGED nodeVars
             PROVE  /\ m \in Bonded /\ m \in MixId
                    /\ UNCHANGED <<lastMixId, bonds, layers>>
                    /\ delegations' = delegations \union {<<m, d>>}
                    /\ \E r \in Details :
                          /\ rewarding' = [rewarding EXCEPT ![m] = r]
                          /\ r.unique_delegations = IF <<m, d>> \in delegations
                                                    THEN rewarding[m].unique_delegations
                                                    ELSE rewarding[m].unique_delegations + 1
                          /\ r.operator >= rewarding[m].operator
                          /\ r.stored = rewarding[m].stored
                          /\ r.last_rewarded_epoch = rewarding[m].last_rewarded_epoch
  BY Zenon
<1>1. /\ m \in Bonded /\ m \in MixId
      /\ UNCHANGED <<lastMixId, bonds, layers>>
      /\ delegations' = delegations \union {<<m, d>>}
      /\ <<m, d>> \in delegations => rewarding[m].unique_delegations > 0
  BY Zenon DEF Delegate, Bonded
<1>2. rewarding[m] \in Details
  BY Zenon, <1>1 DEF NodeType
<1>3. PICK dust \in Dust(m) :
         LET old == IF <<m, d>> \in delegations
                    THEN RemoveDelegation(rewarding[m], dust) ELSE rewarding[m]
         IN  rewarding' = [rewarding EXCEPT ![m] = [old EXCEPT !.unique_delegations = @ + 1]]
  BY Zenon DEF Delegate
<1>4. dust \in {0, 1}
  BY Zenon DEF Dust
<1>5. CASE <<m, d>> \in delegations
  <2>1. PICK old \in Details :
           /\ old.unique_delegations = rewarding[m].unique_delegations - 1
           /\ old.operator >= rewarding[m].operator
           /\ old.stored = rewarding[m].stored
           /\ old.last_rewarded_epoch = rewarding[m].last_rewarded_epoch
           /\ rewarding' = [rewarding EXCEPT ![m] = [old EXCEPT !.unique_delegations = @ + 1]]
    BY Zenon, <1>1, <1>2, <1>3, <1>4, <1>5, RemoveDelegationType
  <2> DEFINE r == [old EXCEPT !.unique_delegations = @ + 1]
  <2>2. /\ r \in Details /\ r.unique_delegations = rewarding[m].unique_delegations
        /\ r.operator = old.operator /\ r.stored = old.stored
        /\ r.last_rewarded_epoch = old.last_rewarded_epoch
    BY <1>2, <2>1 DEF Details
  <2> QED
    BY Zenon, <1>1, <1>5, <2>1, <2>2
<1>6. CASE <<m, d>> \notin delegations
  <2> DEFINE r == [rewarding[m] EXCEPT !.unique_delegations = @ + 1]
  <2>1. /\ r \in Details /\ r.unique_delegations = rewarding[m].unique_delegations + 1
        /\ r.operator = rewarding[m].operator /\ r.stored = rewarding[m].stored
        /\ r.last_rewarded_epoch = rewarding[m].last_rewarded_epoch
        /\ rewarding[m].operator \in Nat
    BY <1>2 DEF Details
  <2>2. rewarding' = [rewarding EXCEPT ![m] = r]
    BY Zenon, <1>3, <1>6
  <2> HIDE DEF r
  <2>3. r.operator >= rewarding[m].operator
    BY <2>1
  <2> QED
    BY Zenon, <1>1, <1>6, <2>1, <2>2, <2>3
<1> QED
  BY Zenon, <1>5, <1>6

\* undelegate leaves everything alone or removes the delegation.
LEMMA UndelegateKinds ==
    ASSUME NodeType, NEW m, NEW d, Undelegate(m, d)
    PROVE  \/ UNCHANGED nodeVars
           \/ /\ <<m, d>> \in delegations /\ m \in MixId
              /\ UNCHANGED <<lastMixId, bonds, layers>>
              /\ delegations' = delegations \ {<<m, d>>}
              /\ \E r \in Details :
                    /\ rewarding' = [rewarding EXCEPT ![m] = r]
                    /\ r.unique_delegations = rewarding[m].unique_delegations - 1
                    /\ r.operator >= rewarding[m].operator
                    /\ r.stored = rewarding[m].stored
                    /\ r.last_rewarded_epoch = rewarding[m].last_rewarded_epoch
<1>1. CASE <<m, d>> \in delegations
  <2>1. m \in MixId /\ rewarding[m] \in Details
    BY Zenon, <1>1 DEF NodeType
  <2>2. rewarding[m].unique_delegations > 0
    BY Zenon, <1>1 DEF Undelegate
  <2>3. PICK dust \in Dust(m) :
           rewarding' = [rewarding EXCEPT ![m] = RemoveDelegation(rewarding[m], dust)]
    BY Zenon, <1>1, <2>1 DEF Undelegate, NodeType
  <2>4. dust \in {0, 1}
    BY Zenon DEF Dust
  <2>5. PICK r \in Details :
           /\ rewarding' = [rewarding EXCEPT ![m] = r]
           /\ r.unique_delegations = rewarding[m].unique_delegations - 1
           /\ r.operator >= rewarding[m].operator
           /\ r.stored = rewarding[m].stored
           /\ r.last_rewarded_epoch = rewarding[m].last_rewarded_epoch
    BY Zenon, <2>1, <2>2, <2>3, <2>4, RemoveDelegationType
  <2>6. /\ UNCHANGED <<lastMixId, bonds, layers>>
        /\ delegations' = delegations \ {<<m, d>>}
    BY Zenon, <1>1 DEF Undelegate
  <2> QED
    BY Zenon, <1>1, <2>1, <2>5, <2>6
<1>2. CASE <<m, d>> \notin delegations
  BY Zenon, <1>2 DEF Undelegate
<1> QED
  BY Zenon, <1>1, <1>2

\* Delegations of delegators to nodes.
LEMMA DelegateType ==
    ASSUME NodeType, NEW m, NEW d \in Delegator, Delegate(m, d)
    PROVE  NodeType'
<1>1. CASE UNCHANGED nodeVars
  BY Zenon, <1>1 DEF NodeType, nodeVars
<1>2. CASE ~UNCHANGED nodeVars
  <2>1. PICK r \in Details : rewarding' = [rewarding EXCEPT ![m] = r]
    BY Zenon, <1>2, DelegateKinds
  <2>2. /\ m \in MixId /\ UNCHANGED <<lastMixId, bonds, layers>>
        /\ delegations' = delegations \union {<<m, d>>}
    BY Zenon, <1>2, DelegateKinds
  <2> QED
    BY <2>1, <2>2 DEF NodeType
<1> QED
  BY Zenon, <1>1, <1>2

\* Their removal.
LEMMA UndelegateType ==
    ASSUME NodeType, NEW m, NEW d, Undelegate(m, d)
    PROVE  NodeType'
BY Zenon, UndelegateKinds DEF NodeType, nodeVars

\* Nothing is left of a node that leaves but the details its delegators need.
LEMMA UnbondType ==
    ASSUME NodeType, NEW m, UnbondMixnode(m)
    PROVE  /\ m \in Bonded /\ m \in MixId
           /\ bonds' = [bonds EXCEPT ![m] = NoBond] /\ NoBond \in Bond
           /\ UNCHANGED <<lastMixId, delegations>>
           /\ \E r \in Details :
                 /\ rewarding' = [rewarding EXCEPT ![m] = r]
                 /\ r.operator = 0
                 /\ r.unique_delegations = rewarding[m].unique_delegations
                 /\ r.unique_delegations # 0 => r.stored
                 /\ r.last_rewarded_epoch <= rewarding[m].last_rewarded_epoch
           /\ NodeType'
<1>1. m \in Bonded /\ m \in MixId /\ rewarding[m].stored /\ rewarding[m] \in Details
  BY Zenon DEF UnbondMixnode, Bonded, NodeType
<1>2. bonds' = [bonds EXCEPT ![m] = NoBond] /\ UNCHANGED <<lastMixId, delegations>>
  BY Zenon DEF UnbondMixnode, CleanupPostUnbondMixnodeStorage
<1>3. NoBond \in Bond
  BY DEF NoBond, Bond, Layer
<1>4. PICK r \in Details :
         /\ rewarding' = [rewarding EXCEPT ![m] = r]
         /\ r.operator = 0
         /\ r.unique_delegations = rewarding[m].unique_delegations
         /\ r.unique_delegations # 0 => r.stored
         /\ r.last_rewarded_epoch <= rewarding[m].last_rewarded_epoch
  <2>1. CASE rewarding[m].unique_delegations = 0
    <3>1. rewarding' = [rewarding EXCEPT ![m] = NoRewarding]
      BY Zenon, <1>1, <2>1 DEF UnbondMixnode, CleanupPostUnbondMixnodeStorage, NodeType
    <3>2. /\ NoRewarding \in Details /\ NoRewarding.operator = 0
          /\ NoRewarding.unique_delegations = 0
          /\ NoRewarding.last_rewarded_epoch = 0 /\ rewarding[m].last_rewarded_epoch \in Nat
      BY Zenon, <1>1 DEF NoRewarding, Details
    <3>3. NoRewarding.last_rewarded_epoch <= rewarding[m].last_rewarded_epoch
      BY <3>2
    <3> QED
      BY Zenon, <2>1, <3>1, <3>2, <3>3
  <2>2. CASE rewarding[m].unique_delegations # 0
    <3> DEFINE r == [rewarding[m] EXCEPT !.operator = 0]
    <3>1. rewarding' = [rewarding EXCEPT ![m] = r]
      BY Zenon, <1>1, <2>2 DEF UnbondMixnode, CleanupPostUnbondMixnodeStorage, NodeType
    <3>2. /\ r \in Details /\ r.operator = 0 /\ r.stored = rewarding[m].stored
          /\ r.unique_delegations = rewarding[m].unique_delegations
          /\ r.last_rewarded_epoch = rewarding[m].last_rewarded_epoch
          /\ rewarding[m].last_rewarded_epoch \in Nat
      BY Zenon, <1>1 DEF Details
    <3> HIDE DEF r
    <3>3. r.last_rewarded_epoch <= rewarding[m].last_rewarded_epoch
      BY <3>2
    <3> QED
      BY Zenon, <1>1, <3>1, <3>2, <3>3
  <2> QED
    BY Zenon, <2>1, <2>2
<1>5. layers' \in [Layer -> Nat]
  <2>1. bonds[m].layer \in Layer
    BY Zenon, <1>1 DEF NodeType, Bond
  <2>2. layers[bonds[m].layer] \in Nat /\ layers[bonds[m].layer] > 0
    BY Zenon, <2>1 DEF NodeType, UnbondMixnode, CleanupPostUnbondMixnodeStorage
  <2> QED
    BY <2>1, <2>2 DEF NodeType, UnbondMixnode, CleanupPostUnbondMixnodeStorage
<1>6. NodeType'
  BY Zenon, <1>1, <1>2, <1>3, <1>4, <1>5 DEF NodeType
<1> QED
  BY Zenon, <1>1, <1>2, <1>3, <1>4, <1>6

\* A pledge that was changed: the bond and the operator's tokens change by the same
\* amount, and the change is no longer pending.
PledgeChanged(m, b, r) ==
    /\ m \in Bonded /\ m \in MixId
    /\ bonds' = [bonds EXCEPT ![m] = b] /\ b \in Bond
    /\ rewarding' = [rewarding EXCEPT ![m] = r] /\ r \in Details
    /\ b.owner = bonds[m].owner /\ b.is_unbonding = bonds[m].is_unbonding
    /\ r.operator - b.pledge = rewarding[m].operator - bonds[m].pledge
    /\ r.unique_delegations = rewarding[m].unique_delegations
    /\ r.stored = rewarding[m].stored
    /\ r.last_rewarded_epoch = rewarding[m].last_rewarded_epoch
    /\ UNCHANGED <<lastMixId, delegations, layers>>

\* increase_pledge and decrease_pledge.
LEMMA PledgeKinds ==
    ASSUME NodeType, NEW m, NEW amount \in Nat,
           IncreasePledge(m, amount) \/ DecreasePledge(m, amount)
    PROVE  \E b \in Bond, r \in Details : PledgeChanged(m, b, r)
<1>1. m \in Bonded /\ m \in MixId /\ UNCHANGED <<lastMixId, delegations, layers>>
  BY Zenon DEF IncreasePledge, DecreasePledge, Bonded
<1>2. bonds[m] \in Bond /\ rewarding[m] \in Details
  BY Zenon, <1>1 DEF NodeType
<1>3. PICK p \in Nat, o \in Nat :
         /\ o - p = rewarding[m].operator - bonds[m].pledge
         /\ bonds' = [bonds EXCEPT ![m] = [bonds[m] EXCEPT !.pledge = p, !.pledge_change = FALSE]]
         /\ rewarding' = [rewarding EXCEPT ![m] = [rewarding[m] EXCEPT !.operator = o]]
  <2>1. bonds[m].pledge \in Nat /\ rewarding[m].operator \in Nat
    BY Zenon, <1>2 DEF Bond, Details
  <2>2. CASE IncreasePledge(m, amount)
    <3> DEFINE p == bonds[m].pledge + amount
               o == rewarding[m].operator + amount
    <3>1. p \in Nat /\ o \in Nat /\ o - p = rewarding[m].operator - bonds[m].pledge
      BY <2>1
    <3>2. /\ bonds' = [bonds EXCEPT ![m] = [bonds[m] EXCEPT !.pledge = p, !.pledge_change = FALSE]]
          /\ rewarding' = [rewarding EXCEPT ![m] = [rewarding[m] EXCEPT !.operator = o]]
      BY Zenon, <1>1, <2>2 DEF IncreasePledge, NodeType
    <3> QED
      BY Zenon, <3>1, <3>2
  <2>3. CASE DecreasePledge(m, amount)
    <3> DEFINE p == bonds[m].pledge - amount
               o == rewarding[m].operator - amount
    <3>1. p \in Nat /\ o \in Nat /\ o - p = rewarding[m].operator - bonds[m].pledge
      BY <2>1, <2>3 DEF DecreasePledge
    <3>2. /\ bonds' = [bonds EXCEPT ![m] = [bonds[m] EXCEPT !.pledge = p, !.pledge_change = FALSE]]
          /\ rewarding' = [rewarding EXCEPT ![m] = [rewarding[m] EXCEPT !.operator = o]]
      BY Zenon, <1>1, <2>3 DEF DecreasePledge, NodeType
    <3> QED
      BY Zenon, <3>1, <3>2
  <2> QED
    BY Zenon, <2>2, <2>3
<1> DEFINE b == [bonds[m] EXCEPT !.pledge = p, !.pledge_change = FALSE]
           r == [rewarding[m] EXCEPT !.operator = o]
<1>4. /\ b \in Bond /\ b.pledge = p /\ b.owner = bonds[m].owner
      /\ b.is_unbonding = bonds[m].is_unbonding
  BY Zenon, <1>2 DEF Bond
<1>5. /\ r \in Details /\ r.operator = o /\ r.stored = rewarding[m].stored
      /\ r.unique_delegations = rewarding[m].unique_delegations
      /\ r.last_rewarded_epoch = rewarding[m].last_rewarded_epoch
  BY Zenon, <1>2 DEF Details
<1>6. bonds' = [bonds EXCEPT ![m] = b] /\ rewarding' = [rewarding EXCEPT ![m] = r]
  BY Zenon, <1>3
<1> HIDE DEF b, r
<1> QED
  BY Zenon, <1>1, <1>3, <1>4, <1>5, <1>6 DEF PledgeChanged

\* Bonding a node stores its bond and its rewarding details under a new id.
LEMMA AddKinds ==
    ASSUME NodeType, IntervalType, NEW o \in Owner, NEW pledge \in MinimumPledge .. MaxPledge,
           TryAddMixnode(o, pledge)
    PROVE  LET m == lastMixId + 1
           IN  /\ m \in MixId /\ lastMixId' = m
               /\ \E b \in Bond, r \in Details :
                     /\ bonds' = [bonds EXCEPT ![m] = b]
                     /\ rewarding' = [rewarding EXCEPT ![m] = r]
                     /\ b.owner # NoOwner /\ ~b.is_unbonding /\ ~b.pledge_change
                     /\ b.pledge = r.operator /\ r.stored /\ r.unique_delegations = 0
                     /\ r.last_rewarded_epoch = interval.total_elapsed_epochs
               /\ layers' \in [Layer -> Nat]
               /\ NodeType'
<1> DEFINE m == lastMixId + 1
           layer == ChooseWithFewest
           b == [NoBond EXCEPT !.owner = o, !.pledge = pledge, !.layer = layer]
           r == [stored |-> TRUE, operator |-> pledge, unique_delegations |-> 0,
                 last_rewarded_epoch |-> interval.total_elapsed_epochs, unit_reward |-> FALSE]
<1>1. /\ m \in MixId /\ lastMixId' = m
      /\ bonds' = [bonds EXCEPT ![m] = b] /\ rewarding' = [rewarding EXCEPT ![m] = r]
      /\ layers' = [layers EXCEPT ![layer] = @ + 1] /\ UNCHANGED delegations
  BY Zenon DEF TryAddMixnode
<1>2. pledge \in Nat /\ layer \in Layer /\ interval.total_elapsed_epochs \in Nat /\ o # NoOwner
  BY ConstantsAssumption, FewestType DEF IntervalType, Interval
<1> HIDE DEF layer
<1>3. b \in Bond /\ b.owner = o /\ ~b.is_unbonding /\ ~b.pledge_change /\ b.pledge = pledge
  BY Zenon, <1>2 DEF NoBond, Bond
<1>4. /\ r \in Details /\ r.operator = pledge /\ r.stored /\ r.unique_delegations = 0
      /\ r.last_rewarded_epoch = interval.total_elapsed_epochs
  BY Zenon, <1>2 DEF Details
<1> HIDE DEF b, r
<1>5. layers' \in [Layer -> Nat]
  BY <1>1, <1>2 DEF NodeType
<1>6. NodeType'
  <2>1. lastMixId' \in 0 .. MaxMixId
    BY <1>1, ConstantsAssumption DEF MixId
  <2> QED
    BY Zenon, <1>1, <1>3, <1>4, <1>5, <2>1 DEF NodeType
<1>7. \E b2 \in Bond, r2 \in Details :
         /\ bonds' = [bonds EXCEPT ![m] = b2]
         /\ rewarding' = [rewarding EXCEPT ![m] = r2]
         /\ b2.owner # NoOwner /\ ~b2.is_unbonding /\ ~b2.pledge_change
         /\ b2.pledge = r2.operator /\ r2.stored /\ r2.unique_delegations = 0
         /\ r2.last_rewarded_epoch = interval.total_elapsed_epochs
  BY Zenon, <1>1, <1>2, <1>3, <1>4
<1> QED
  BY Zenon, <1>1, <1>5, <1>6, <1>7

\* A reward goes to a node of the rewarded set that is still bonded.
RewardKind(m, r) ==
    /\ rewarding' = [rewarding EXCEPT ![m] = r] /\ r \in Details
    /\ r.operator >= rewarding[m].operator
    /\ r.unique_delegations = rewarding[m].unique_delegations
    /\ r.stored = rewarding[m].stored
    /\ r.last_rewarded_epoch = interval.total_elapsed_epochs

\* try_reward_mixnode.
LEMMA RewardKinds ==
    ASSUME NodeType, IntervalType, NEW m \in MixId, NEW performance \in BOOLEAN,
           NEW share \in {0, 1}, TryRewardMixnode(m, performance, share)
    PROVE  UNCHANGED rewarding \/ \E r \in Details : RewardKind(m, r)
<1>1. CASE StillBonded(m)
  <2> DEFINE r == [rewarding[m] EXCEPT !.last_rewarded_epoch = interval.total_elapsed_epochs,
                                       !.operator = @ + share,
                                       !.unit_reward = @ \/ performance]
  <2>1. rewarding[m] \in Details /\ interval.total_elapsed_epochs \in Nat
    BY Zenon DEF NodeType, IntervalType, Interval
  <2>2. rewarding' = [rewarding EXCEPT ![m] = r]
    BY Zenon, <1>1 DEF TryRewardMixnode, NodeType
  <2>3. rewarding[m].operator \in Nat /\ rewarding[m].operator + share \in Nat
        /\ rewarding[m].operator + share >= rewarding[m].operator
    BY <2>1 DEF Details
  <2>4. (rewarding[m].unit_reward \/ performance) \in BOOLEAN
    BY Zenon
  <2>5. /\ r \in Details /\ r.operator = rewarding[m].operator + share
        /\ r.unique_delegations = rewarding[m].unique_delegations
        /\ r.stored = rewarding[m].stored
        /\ r.last_rewarded_epoch = interval.total_elapsed_epochs
    BY Zenon, <2>1, <2>3, <2>4 DEF Details
  <2> HIDE DEF r
  <2> QED
    BY Zenon, <2>2, <2>3, <2>5 DEF RewardKind
<1>2. CASE ~StillBonded(m)
  BY Zenon, <1>2 DEF TryRewardMixnode
<1> QED
  BY Zenon, <1>1, <1>2

\* The epoch that follows, of the same or of the next interval.
LEMMA AdvanceType ==
    ASSUME IntervalType
    PROVE  LET i == AdvanceEpoch(interval)
           IN  /\ i \in Interval
               /\ i.current_epoch_id < i.epochs_in_interval
               /\ i.total_elapsed_epochs = interval.total_elapsed_epochs + 1
               /\ \/ i.id > interval.id
                  \/ i.id = interval.id /\ i.current_epoch_id > interval.current_epoch_id
               /\ i.id # interval.id =>
                     interval.current_epoch_id = interval.epochs_in_interval - 1
<1>1. /\ interval \in Interval /\ interval.id \in Nat /\ interval.current_epoch_id \in Nat
      /\ interval.epochs_in_interval \in Nat /\ interval.total_elapsed_epochs \in Nat
      /\ interval.epochs_in_interval # 0
      /\ interval.current_epoch_id < interval.epochs_in_interval
  BY Zenon DEF IntervalType, Interval
<1>2. CASE interval.current_epoch_id = interval.epochs_in_interval - 1
  <2>1. AdvanceEpoch(interval) = [interval EXCEPT !.id = @ + 1, !.current_epoch_id = 0,
                                                  !.total_elapsed_epochs = @ + 1]
    BY Zenon, <1>2 DEF AdvanceEpoch
  <2>2. PICK i : i = AdvanceEpoch(interval)
    BY Zenon
  <2>3. /\ interval.id + 1 \in Nat /\ interval.current_epoch_id + 1 \in Nat
        /\ interval.total_elapsed_epochs + 1 \in Nat
    BY <1>1
  <2>4. i \in Interval /\ i.id = interval.id + 1 /\ i.current_epoch_id = 0
        /\ i.total_elapsed_epochs = interval.total_elapsed_epochs + 1
        /\ i.epochs_in_interval = interval.epochs_in_interval
    <3>1. i = [interval EXCEPT !.id = interval.id + 1, !.current_epoch_id = 0,
                               !.total_elapsed_epochs = interval.total_elapsed_epochs + 1]
      BY Zenon, <1>1, <2>1, <2>2 DEF Interval
    <3>2. /\ i.id = interval.id + 1 /\ i.current_epoch_id = 0
          /\ i.total_elapsed_epochs = interval.total_elapsed_epochs + 1
          /\ i.epochs_in_interval = interval.epochs_in_interval
      BY Zenon, <1>1, <3>1 DEF Interval
    <3>3. i \in Interval
      BY Zenon, <1>1, <2>3, <3>1 DEF Interval
    <3> QED
      BY Zenon, <3>2, <3>3
  <2> QED
    BY <1>1, <1>2, <2>2, <2>4
<1>3. CASE interval.current_epoch_id # interval.epochs_in_interval - 1
  <2>1. AdvanceEpoch(interval) = [interval EXCEPT !.current_epoch_id = @ + 1,
                                                  !.total_elapsed_epochs = @ + 1]
    BY Zenon, <1>3 DEF AdvanceEpoch
  <2>2. PICK i : i = AdvanceEpoch(interval)
    BY Zenon
  <2>3. /\ interval.id + 1 \in Nat /\ interval.current_epoch_id + 1 \in Nat
        /\ interval.total_elapsed_epochs + 1 \in Nat
    BY <1>1
  <2>4. i \in Interval /\ i.id = interval.id
        /\ i.current_epoch_id = interval.current_epoch_id + 1
        /\ i.total_elapsed_epochs = interval.total_elapsed_epochs + 1
        /\ i.epochs_in_interval = interval.epochs_in_interval
    BY Zenon, <1>1, <2>1, <2>2, <2>3 DEF Interval
  <2> QED
    BY <1>1, <1>3, <2>2, <2>4
<1> QED
  BY Zenon, <1>2, <1>3

\* The execution of the oldest event of the queue whose turn it is.
LEMMA PerformType ==
    ASSUME TypeInv, NEW b, PerformPendingAction(b)
    PROVE  TypeInv'
<1> USE DEF TypeInv
<1>1. EpochType' /\ rewardedSet' = rewardedSet
  BY Zenon DEF PerformPendingAction, EpochType
<1>2. CASE /\ epochEvents # <<>>
           /\ ExecuteEpochEvent(Head(epochEvents))
           /\ epochEvents' = Tail(epochEvents)
           /\ UNCHANGED <<intervalEvents, interval, elapsed>>
  <2>1. IntervalType' /\ QueueType'
    BY <1>2, Popped DEF IntervalType, QueueType
  <2> DEFINE e == Head(epochEvents)
  <2>2. e \in Event /\ (e.kind = "Delegate" => e.owner \in Delegator)
    BY <1>2 DEF QueueType
  <2>3. e.amount \in Nat /\ e.mix_id \in Nat /\ e.kind \in EventKind
        /\ e.owner \in Delegator \union {NoOwner}
    BY Zenon, <2>2 DEF Event
  <2>4. ExecuteEpochEvent(e)
    BY Zenon, <1>2
  <2> HIDE DEF e
  <2>5. NodeType'
    <3>1. CASE e.kind = "Delegate" /\ Delegate(e.mix_id, e.owner)
      BY Zenon, <2>2, <3>1, DelegateType
    <3>2. CASE Undelegate(e.mix_id, e.owner)
      BY Zenon, <3>2, UndelegateType
    <3>3. CASE UnbondMixnode(e.mix_id)
      BY Zenon, <3>3, UnbondType
    <3>4. CASE IncreasePledge(e.mix_id, e.amount) \/ DecreasePledge(e.mix_id, e.amount)
      BY <2>3, <3>4, PledgeKinds DEF PledgeChanged, NodeType
    <3>5. CASE UNCHANGED nodeVars
      BY Zenon, <3>5 DEF nodeVars, NodeType
    <3> QED
      BY Zenon, <2>4, <3>1, <3>2, <3>3, <3>4, <3>5 DEF ExecuteEpochEvent
  <2>6. ParamType'
    BY Zenon, <1>1, <2>3, <2>4 DEF ExecuteEpochEvent, TryChangeActiveSetSize, ValidActiveSetSize,
       ParamType
  <2> QED
    BY Zenon, <1>1, <2>1, <2>5, <2>6
<1>3. CASE /\ intervalEvents # <<>>
           /\ ExecuteIntervalEvent(Head(intervalEvents))
           /\ intervalEvents' = Tail(intervalEvents)
           /\ UNCHANGED <<epochEvents, nodeVars>>
  <2>1. NodeType' /\ QueueType'
    BY <1>3, Popped DEF NodeType, QueueType, nodeVars
  <2> DEFINE e == Head(intervalEvents)
  <2>2. e \in Event /\ (e.kind = "UpdateIntervalConfig" => e.amount # 0)
    BY <1>3 DEF QueueType
  <2>3. e.amount \in Nat
    BY Zenon, <2>2 DEF Event
  <2>4. ExecuteIntervalEvent(e)
    BY Zenon, <1>3
  <2> HIDE DEF e
  <2>5. IntervalType'
    <3>1. CASE UNCHANGED <<interval, elapsed>>
      BY Zenon, <3>1 DEF IntervalType
    <3>2. CASE e.kind = "UpdateIntervalConfig" /\ ChangeIntervalConfig(e.amount)
      <4>1. e.amount \in Nat \ {0}
        BY Zenon, <2>2, <2>3, <3>2
      <4> QED
        BY Zenon, <3>2, <4>1, ConfigType DEF ChangeIntervalConfig, IntervalType
    <3> QED
      BY Zenon, <2>4, <3>1, <3>2 DEF ExecuteIntervalEvent
  <2>6. ParamType'
    BY Zenon, <1>1, <2>3, <2>4 DEF ExecuteIntervalEvent, TryApplyUpdates, ValidRewardedSetSize, ParamType
  <2> QED
    BY Zenon, <1>1, <2>1, <2>5, <2>6
<1> QED
  BY Zenon, <1>2, <1>3 DEF PerformPendingAction

\* Every step keeps the types.
LEMMA TypeStep ==
    ASSUME TypeInv, [Next]_vars
    PROVE  TypeInv'
<1> USE DEF TypeInv
<1>1. ASSUME NEW o \in Owner, NEW pledge \in MinimumPledge .. MaxPledge, TryAddMixnode(o, pledge)
      PROVE  TypeInv'
  <2>1. NodeType'
    BY Zenon, <1>1, AddKinds DEF TryAddMixnode, NodeType
  <2> QED
    BY Zenon, <1>1, <2>1 DEF TryAddMixnode, epochVars, queueVars, nodeVars, EpochType, IntervalType,
       QueueType, ParamType
<1>2. ASSUME NEW m \in MixId, NEW amount \in 1 .. MaxPledge, TryIncreasePledge(m, amount)
      PROVE  TypeInv'
  <2>1. QueueType'
    <3>1. PushNewEpochEvent(EpochEvent("PledgeMore", m, NoOwner, amount))
      BY Zenon, <1>2 DEF TryIncreasePledge, PushPledgeChange
    <3>2. m \in Nat /\ amount \in Nat
      BY <1>2, ConstantsAssumption DEF MixId
    <3>3. "PledgeMore" \in EventKind
      BY Zenon DEF EventKind
    <3> QED
      BY Zenon, <3>1, <3>2, <3>3, PushEpochType
  <2>2. NodeType'
    BY Zenon, <1>2 DEF TryIncreasePledge, PushPledgeChange, NodeType, Bond
  <2> QED
    BY Zenon, <1>2, <2>1, <2>2 DEF TryIncreasePledge, PushPledgeChange, epochVars, queueVars, nodeVars,
       EpochType, IntervalType, ParamType
<1>3. ASSUME NEW m \in MixId, NEW amount \in 1 .. MaxPledge, TryDecreasePledge(m, amount)
      PROVE  TypeInv'
  <2>1. QueueType'
    <3>1. PushNewEpochEvent(EpochEvent("DecreasePledge", m, NoOwner, amount))
      BY Zenon, <1>3 DEF TryDecreasePledge, PushPledgeChange
    <3>2. m \in Nat /\ amount \in Nat
      BY <1>3, ConstantsAssumption DEF MixId
    <3>3. "DecreasePledge" \in EventKind
      BY Zenon DEF EventKind
    <3> QED
      BY Zenon, <3>1, <3>2, <3>3, PushEpochType
  <2>2. NodeType'
    BY Zenon, <1>3 DEF TryDecreasePledge, PushPledgeChange, NodeType, Bond
  <2> QED
    BY Zenon, <1>3, <2>1, <2>2 DEF TryDecreasePledge, PushPledgeChange, epochVars, queueVars, nodeVars,
       EpochType, IntervalType, ParamType
<1>4. ASSUME NEW m \in MixId, TryRemoveMixnode(m) PROVE TypeInv'
  <2>1. QueueType'
    <3>1. PushNewEpochEvent(EpochEvent("UnbondMixnode", m, NoOwner, 0))
      BY Zenon, <1>4 DEF TryRemoveMixnode
    <3>2. m \in Nat /\ 0 \in Nat
      BY <1>4, ConstantsAssumption DEF MixId
    <3>3. "UnbondMixnode" \in EventKind
      BY Zenon DEF EventKind
    <3> QED
      BY Zenon, <3>1, <3>2, <3>3, PushEpochType
  <2>2. NodeType'
    BY Zenon, <1>4 DEF TryRemoveMixnode, NodeType, Bond
  <2> QED
    BY Zenon, <1>4, <2>1, <2>2 DEF TryRemoveMixnode, epochVars, queueVars, nodeVars, EpochType,
       IntervalType, ParamType
<1>5. ASSUME NEW m \in MixId, TryUpdateMixnodeCostParams(m) PROVE TypeInv'
  <2>1. QueueType'
    <3>1. PushNewIntervalEvent(EpochEvent("ChangeMixCostParams", m, NoOwner, 0))
      BY Zenon, <1>5 DEF TryUpdateMixnodeCostParams
    <3>2. m \in Nat /\ 0 \in Nat
      BY <1>5, ConstantsAssumption DEF MixId
    <3>3. "ChangeMixCostParams" \in EventKind
      BY Zenon DEF EventKind
    <3> QED
      BY Zenon, <3>1, <3>2, <3>3, PushIntervalType
  <2> QED
    BY Zenon, <1>5, <2>1 DEF TryUpdateMixnodeCostParams, epochVars, queueVars, nodeVars, EpochType,
       IntervalType, NodeType, ParamType
<1>6. ASSUME NEW m \in MixId, TryWithdrawOperatorReward(m) PROVE TypeInv'
  <2>1. NodeType'
    BY <1>6 DEF TryWithdrawOperatorReward, NodeType, Bond, Details
  <2> QED
    BY Zenon, <1>6, <2>1 DEF TryWithdrawOperatorReward, epochVars, queueVars, nodeVars, EpochType,
       IntervalType, QueueType, ParamType
<1>7. ASSUME NEW m \in MixId, NEW d \in Delegator, TryDelegateToMixnode(m, d) PROVE TypeInv'
  <2>1. QueueType'
    <3>1. PushNewEpochEvent(EpochEvent("Delegate", m, d, 0))
      BY Zenon, <1>7 DEF TryDelegateToMixnode
    <3>2. m \in Nat /\ 0 \in Nat
      BY <1>7, ConstantsAssumption DEF MixId
    <3>3. "Delegate" \in EventKind
      BY Zenon DEF EventKind
    <3> QED
      BY Zenon, <3>1, <3>2, <3>3, PushEpochType
  <2> QED
    BY Zenon, <1>7, <2>1 DEF TryDelegateToMixnode, epochVars, queueVars, nodeVars, EpochType,
       IntervalType, NodeType, ParamType
<1>8. ASSUME NEW m \in MixId, NEW d \in Delegator, TryRemoveDelegationFromMixnode(m, d)
      PROVE  TypeInv'
  <2>1. QueueType'
    <3>1. PushNewEpochEvent(EpochEvent("Undelegate", m, d, 0))
      BY Zenon, <1>8 DEF TryRemoveDelegationFromMixnode
    <3>2. m \in Nat /\ 0 \in Nat
      BY <1>8, ConstantsAssumption DEF MixId
    <3>3. "Undelegate" \in EventKind
      BY Zenon DEF EventKind
    <3> QED
      BY Zenon, <3>1, <3>2, <3>3, PushEpochType
  <2> QED
    BY Zenon, <1>8, <2>1 DEF TryRemoveDelegationFromMixnode, epochVars, queueVars, nodeVars, EpochType,
       IntervalType, NodeType, ParamType
<1>9. ASSUME NEW force \in Forced, NEW size \in ActiveSetSizes, TryUpdateActiveSetSize(size,
             force)
      PROVE  TypeInv'
  <2>1. QueueType'
    <3>1. \/ UNCHANGED queueVars
          \/ PushNewEpochEvent(EpochEvent("UpdateActiveSetSize", 0, NoOwner, size))
      BY Zenon, <1>9 DEF TryUpdateActiveSetSize, TryChangeActiveSetSize, ValidActiveSetSize
    <3>2. 0 \in Nat /\ size \in Nat
      BY Zenon, <1>9, ConstantsAssumption DEF MixId
    <3>3. "UpdateActiveSetSize" \in EventKind
      BY Zenon DEF EventKind
    <3>4. CASE PushNewEpochEvent(EpochEvent("UpdateActiveSetSize", 0, NoOwner, size))
      BY Zenon, <3>2, <3>3, <3>4, PushEpochType
    <3> QED
      BY Zenon, <3>1, <3>4 DEF queueVars, QueueType
  <2>2. ParamType'
    BY Zenon, <1>9, ConstantsAssumption DEF TryUpdateActiveSetSize, TryChangeActiveSetSize,
       ValidActiveSetSize, ParamType
  <2> QED
    BY Zenon, <1>9, <2>1, <2>2 DEF TryUpdateActiveSetSize, TryChangeActiveSetSize, ValidActiveSetSize,
       epochVars, queueVars, nodeVars, EpochType, IntervalType, NodeType
<1>10. ASSUME NEW force \in Forced, NEW size \in RewardedSetSizes,
              TryUpdateRewardingParams(size, force)
       PROVE  TypeInv'
  <2>1. QueueType'
    <3>1. \/ UNCHANGED queueVars
          \/ PushNewIntervalEvent(EpochEvent("UpdateRewardingParams", 0, NoOwner, size))
      BY Zenon, <1>10 DEF TryUpdateRewardingParams, TryApplyUpdates, ValidRewardedSetSize
    <3>2. 0 \in Nat /\ size \in Nat
      BY Zenon, <1>10, ConstantsAssumption DEF MixId
    <3>3. "UpdateRewardingParams" \in EventKind
      BY Zenon DEF EventKind
    <3>4. CASE PushNewIntervalEvent(EpochEvent("UpdateRewardingParams", 0, NoOwner, size))
      BY Zenon, <3>2, <3>3, <3>4, PushIntervalType
    <3> QED
      BY Zenon, <3>1, <3>4 DEF queueVars, QueueType
  <2>2. ParamType'
    BY Zenon, <1>10, ConstantsAssumption DEF TryUpdateRewardingParams, TryApplyUpdates,
       ValidRewardedSetSize, ParamType
  <2> QED
    BY Zenon, <1>10, <2>1, <2>2 DEF TryUpdateRewardingParams, TryApplyUpdates, ValidRewardedSetSize,
       epochVars, queueVars, nodeVars, EpochType, IntervalType, NodeType
<1>11. ASSUME NEW force \in Forced, NEW epochs \in IntervalLengths,
              TryUpdateIntervalConfig(epochs, force)
       PROVE  TypeInv'
  <2>1. EpochType'
    BY Zenon, <1>11 DEF TryUpdateIntervalConfig, EpochType
  <2>2. IntervalType'
    BY Zenon, <1>11, ConstantsAssumption, ConfigType DEF TryUpdateIntervalConfig, IntervalType,
       ChangeIntervalConfig
  <2>3. QueueType'
    <3>1. \/ UNCHANGED queueVars
          \/ PushNewIntervalEvent(EpochEvent("UpdateIntervalConfig", 0, NoOwner, epochs))
      BY Zenon, <1>11 DEF TryUpdateIntervalConfig
    <3>2. 0 \in Nat /\ epochs \in Nat /\ epochs # 0
      BY Zenon, <1>11, ConstantsAssumption DEF MixId, TryUpdateIntervalConfig
    <3>3. "UpdateIntervalConfig" \in EventKind
      BY Zenon DEF EventKind
    <3>4. CASE PushNewIntervalEvent(EpochEvent("UpdateIntervalConfig", 0, NoOwner, epochs))
      BY Zenon, <3>2, <3>3, <3>4, PushIntervalType
    <3> QED
      BY Zenon, <3>1, <3>4 DEF queueVars, QueueType
  <2> QED
    BY Zenon, <1>11, <2>1, <2>2, <2>3 DEF TryUpdateIntervalConfig, epochVars, queueVars, nodeVars,
       NodeType, ParamType
<1>12. ASSUME TryBeginEpochTransition PROVE TypeInv'
  <2>1. EpochType'
    <3>1. ReconcilingEvents \in Status
      BY Zenon DEF ReconcilingEvents, InProgress, Status
    <3>2. CASE rewardedSet # {}
      <4> DEFINE m == CHOOSE m \in rewardedSet : \A k \in rewardedSet : k <= m
      <4>1. m \in MixId
        BY Zenon, <3>2, LastNode DEF ParamType
      <4>2. m \in Nat
        BY <4>1, ConstantsAssumption DEF MixId
      <4> HIDE DEF m
      <4>3. [state |-> "Rewarding", last_rewarded |-> 0, final_node_id |-> m] \in Status
        BY Zenon, <4>2 DEF Status
      <4> QED
        BY Zenon, <1>12, <3>2, <4>3 DEF TryBeginEpochTransition, EpochType, m
    <3> QED
      BY Zenon, <1>12, <3>1, <3>2 DEF TryBeginEpochTransition, EpochType
  <2> QED
    BY Zenon, <1>12, <2>1 DEF TryBeginEpochTransition, epochVars, queueVars, nodeVars, IntervalType,
       QueueType, NodeType, ParamType
<1>13. ASSUME NEW m \in rewardedSet, NEW performance \in BOOLEAN, NEW share \in {0, 1},
              TryRewardMixnode(m, performance, share)
       PROVE  TypeInv'
  <2>0. m \in MixId /\ m \in Nat
    BY ConstantsAssumption DEF ParamType, MixId
  <2>1. EpochType'
    <3>1. ReconcilingEvents \in Status
      BY Zenon DEF ReconcilingEvents, InProgress, Status
    <3>2. [epochState EXCEPT !.last_rewarded = m] \in Status
      BY Zenon, <2>0 DEF EpochType, Status
    <3> QED
      BY Zenon, <1>13, <3>1, <3>2 DEF TryRewardMixnode, UpdateLastRewarded, EpochType
  <2>2. NodeType'
    BY ZenonT(40), <1>13, RewardKinds DEF TryRewardMixnode, RewardKind, NodeType, ParamType
  <2> QED
    BY Zenon, <1>13, <2>1, <2>2 DEF TryRewardMixnode, epochVars, queueVars, nodeVars, IntervalType,
       QueueType, ParamType
<1>14. ASSUME TryReconcileEpochEvents PROVE TypeInv'
  <2>1. CASE NothingPending(IsCurrentIntervalOver)
    <3>1. AdvancingEpoch \in Status
      BY Zenon DEF AdvancingEpoch, InProgress, Status
    <3> QED
      BY Zenon, <1>14, <2>1, <3>1 DEF TryReconcileEpochEvents, queueVars, nodeVars, EpochType,
                          IntervalType, QueueType, NodeType, ParamType
  <2>2. CASE ~NothingPending(IsCurrentIntervalOver)
    BY Zenon, <1>14, <2>2, PerformType DEF TryReconcileEpochEvents, IsCurrentIntervalOver
  <2> QED
    BY Zenon, <2>1, <2>2
<1>15. ASSUME ContinueReconciliation PROVE TypeInv'
  BY Zenon, <1>15, PerformType DEF ContinueReconciliation
<1>16. ASSUME FinishReconciliation PROVE TypeInv'
  <2>1. EpochType'
    BY Zenon, <1>16 DEF FinishReconciliation, EpochType, Status, AdvancingEpoch, InProgress
  <2> QED
    BY Zenon, <1>16, <2>1 DEF FinishReconciliation, epochVars, queueVars, nodeVars, IntervalType,
       QueueType, NodeType, ParamType
<1>17. ASSUME NEW f \in Assignments, NEW size, TryAdvanceEpoch(f, size) PROVE TypeInv'
  <2>1. EpochType'
    BY Zenon, <1>17 DEF TryAdvanceEpoch, EpochType, Status, InProgress
  <2>2. IntervalType'
    BY <1>17, ConstantsAssumption, AdvanceType DEF TryAdvanceEpoch, IntervalType,
       IsCurrentEpochOver
  <2>3. NodeType'
    BY Zenon, <1>17, AssignmentType DEF TryAdvanceEpoch, NodeType, Bond, UpdateMixnodeLayers
  <2>4. ParamType'
    BY Zenon, <1>17, AssignmentType DEF TryAdvanceEpoch, ParamType
  <2> QED
    BY Zenon, <1>17, <2>1, <2>2, <2>3, <2>4 DEF TryAdvanceEpoch, epochVars, queueVars, nodeVars,
       QueueType
<1>18. ASSUME NEW m \in MixId, NEW layer \in AssignedLayers, AssignMixnodeLayer(m, layer)
       PROVE  TypeInv'
  <2>1. NodeType'
    BY <1>18, ConstantsAssumption DEF AssignMixnodeLayer, NodeType, Bond, UpdateMixnodeLayers
  <2> QED
    BY Zenon, <1>18, <2>1 DEF AssignMixnodeLayer, epochVars, queueVars, nodeVars, EpochType,
       IntervalType, QueueType, ParamType
<1>19. ASSUME BlockTime PROVE TypeInv'
  <2>1. IntervalType'
    BY <1>19, ConstantsAssumption DEF BlockTime, IntervalType
  <2> QED
    BY Zenon, <1>19, <2>1 DEF BlockTime, epochVars, queueVars, nodeVars, EpochType, QueueType, NodeType,
       ParamType
<1>20. CASE UNCHANGED vars
  BY Zenon, <1>20 DEF vars, epochVars, queueVars, nodeVars, EpochType, IntervalType, QueueType,
     NodeType, ParamType
<1> QED
  BY <1>1, <1>2, <1>3, <1>4, <1>5, <1>6, <1>7, <1>8, <1>9, <1>10, <1>11, <1>12, <1>13, <1>14,
     <1>15, <1>16, <1>17, <1>18, <1>19, <1>20 DEF Next, UserStep, OwnerStep, RewardStep,
     ReconcileStep, AdvanceStep, AssignStep

\* TypeInv holds throughout.
LEMMA TypeInvariant == Spec => []TypeInv
<1>1. Init => TypeInv
  BY ConstantsAssumption DEF Init, TypeInv, EpochType, IntervalType, QueueType, NodeType,
     ParamType, InProgress, NoBond, NoRewarding, Layer, Status, Interval, Bond, Details
<1> QED
  BY <1>1, TypeStep, PTL DEF Spec

\* The contract's storage has the types its loads rely on.
THEOREM TypeCorrect == Spec => []TypeOK
<1>1. TypeInv => TypeOK
  BY Zenon DEF TypeInv, EpochType, IntervalType, QueueType, NodeType, ParamType, TypeOK, Status,
     Interval, Bond, Details
<1> QED
  BY <1>1, TypeInvariant, PTL

-------------------------------------------------------------------------------
(* The names of epochs.                                                       *)

\* force_change_epochs_in_interval: "We can't have the same (interval, epoch) combo as
\* we had in the past"; neither a new length nor advance_epoch brings one back.
THEOREM EpochNamesFreshHolds == Spec => EpochNamesFresh
<1> DEFINE Forward == \/ interval'.id = interval.id
                         /\ interval'.current_epoch_id = interval.current_epoch_id
                      \/ interval'.id > interval.id
                      \/ /\ interval'.id = interval.id
                         /\ interval'.current_epoch_id > interval.current_epoch_id
<1>1. ASSUME TypeInv, [Next]_vars PROVE Forward
  <2>1. CASE UNCHANGED interval
    BY Zenon, <2>1
  <2>2. ASSUME NEW epochs \in Nat \ {0}, ChangeIntervalConfig(epochs) PROVE Forward
    BY Zenon, <1>1, <2>2, ConfigType DEF TypeInv, ChangeIntervalConfig
  <2>3. ASSUME NEW f, NEW size, TryAdvanceEpoch(f, size) PROVE Forward
    BY Zenon, <1>1, <2>3, AdvanceType DEF TypeInv, TryAdvanceEpoch
  <2>4. ASSUME NEW epochs \in IntervalLengths, NEW force, TryUpdateIntervalConfig(epochs, force)
        PROVE  Forward
    <3>1. epochs \in Nat \ {0}
      BY Zenon, <2>4, ConstantsAssumption DEF TryUpdateIntervalConfig
    <3>2. CASE UNCHANGED interval
      BY Zenon, <2>1, <3>2
    <3>3. CASE ChangeIntervalConfig(epochs)
      BY Zenon, <2>2, <3>1, <3>3
    <3> QED
      BY Zenon, <2>4, <3>2, <3>3 DEF TryUpdateIntervalConfig
  <2>5. ASSUME NEW b, PerformPendingAction(b) PROVE Forward
    <3>1. CASE UNCHANGED interval
      BY Zenon, <2>1, <3>1
    <3>2. ASSUME /\ intervalEvents # <<>>
                 /\ Head(intervalEvents).kind = "UpdateIntervalConfig"
                 /\ ChangeIntervalConfig(Head(intervalEvents).amount)
          PROVE  Forward
      <4>1. Head(intervalEvents).amount \in Nat \ {0}
        <5>1. Head(intervalEvents) \in Event /\ Head(intervalEvents) = intervalEvents[1]
              /\ Len(intervalEvents) >= 1 /\ Len(intervalEvents) \in Nat
          BY Zenon, <1>1, <3>2, Popped DEF TypeInv, QueueType
        <5>2. intervalEvents[1].amount # 0
          BY <1>1, <3>2, <5>1 DEF TypeInv, QueueType
        <5> QED
          BY Zenon, <5>1, <5>2 DEF Event
      <4> QED
        BY Zenon, <2>2, <3>2, <4>1
    <3> QED
      BY Zenon, <2>5, <3>1, <3>2 DEF PerformPendingAction, ExecuteIntervalEvent
  <2>6. ASSUME UserStep PROVE UNCHANGED interval
    BY Zenon, <2>6 DEF UserStep, TryAddMixnode, TryIncreasePledge, TryDecreasePledge, PushPledgeChange,
       TryRemoveMixnode, TryUpdateMixnodeCostParams, TryWithdrawOperatorReward,
       TryDelegateToMixnode, TryRemoveDelegationFromMixnode, epochVars
  <2>7. ASSUME OwnerStep PROVE Forward
    BY Zenon, <2>1, <2>4, <2>7 DEF OwnerStep, TryUpdateActiveSetSize, TryUpdateRewardingParams, epochVars
  <2>8. ASSUME ReconcileStep PROVE Forward
    BY Zenon, <2>1, <2>5, <2>8 DEF ReconcileStep, TryReconcileEpochEvents, ContinueReconciliation,
       FinishReconciliation
  <2>9. ASSUME TryBeginEpochTransition \/ RewardStep \/ AssignStep \/ BlockTime
        PROVE  UNCHANGED interval
    BY Zenon, <2>9 DEF TryBeginEpochTransition, RewardStep, TryRewardMixnode, AssignStep,
       AssignMixnodeLayer, BlockTime, epochVars
  <2>10. CASE UNCHANGED vars
    BY Zenon, <2>1, <2>10 DEF vars, epochVars
  <2> QED
    BY Zenon, <1>1, <2>1, <2>3, <2>6, <2>7, <2>8, <2>9, <2>10 DEF Next, AdvanceStep
<1>2. TypeInv /\ [Next]_vars =>
        [LET moved(f) == interval'[f] # interval[f]
         IN  moved("id") \/ moved("current_epoch_id") =>
               \/ interval'.id > interval.id
               \/ /\ interval'.id = interval.id
                  /\ interval'.current_epoch_id > interval.current_epoch_id]_vars
  BY Zenon, <1>1
<1> QED
  BY <1>2, TypeInvariant, PTL DEF Spec, EpochNamesFresh

-------------------------------------------------------------------------------
(* How a step changes the nodes.                                              *)

\* Only marks of a bond change: its layer, or that it leaves or a change is pending.
BondsKept ==
    /\ UNCHANGED <<lastMixId, rewarding, delegations>>
    /\ \A m \in MixId : bonds'[m].owner = bonds[m].owner /\ bonds'[m].pledge = bonds[m].pledge

Withdrawn(m, r) ==
    /\ rewarding' = [rewarding EXCEPT ![m] = r] /\ r \in Details
    /\ m \in Bonded /\ r.operator = bonds[m].pledge /\ r.operator <= rewarding[m].operator
    /\ r.unique_delegations = rewarding[m].unique_delegations
    /\ r.stored = rewarding[m].stored
    /\ r.last_rewarded_epoch = rewarding[m].last_rewarded_epoch

\* The event that is executed.
Executed(e) ==
    /\ epochEvents # <<>> /\ e = Head(epochEvents)
    /\ epochEvents' = Tail(epochEvents)
    /\ UNCHANGED <<epochState, interval, rewardedSet>>
    /\ \/ e.kind = "Delegate" /\ Delegate(e.mix_id, e.owner)
       \/ e.kind = "Undelegate" /\ Undelegate(e.mix_id, e.owner)
       \/ e.kind = "UnbondMixnode" /\ UnbondMixnode(e.mix_id)
       \/ e.kind = "PledgeMore" /\ IncreasePledge(e.mix_id, e.amount)
       \/ e.kind = "DecreasePledge" /\ DecreasePledge(e.mix_id, e.amount)

\* Every step that changes a node is one of these.
LEMMA NodeKinds ==
    ASSUME TypeInv, [Next]_vars
    PROVE  \/ BondsKept
           \/ \E o \in Owner, pledge \in MinimumPledge .. MaxPledge : TryAddMixnode(o, pledge)
           \/ /\ UNCHANGED <<lastMixId, bonds, delegations>>
              /\ \E m \in MixId, r \in Details : Withdrawn(m, r) \/ RewardKind(m, r)
           \/ \E e \in Event : Executed(e)
<1> USE DEF TypeInv
<1>1. ASSUME UNCHANGED <<lastMixId, rewarding, delegations, bonds>> PROVE BondsKept
  BY Zenon, <1>1 DEF BondsKept
<1>2. ASSUME NEW m \in MixId, NEW x,
             /\ UNCHANGED <<lastMixId, rewarding, delegations>>
             /\ \/ bonds' = [bonds EXCEPT ![m].pledge_change = x]
                \/ bonds' = [bonds EXCEPT ![m].is_unbonding = x]
      PROVE  BondsKept
  BY <1>2 DEF BondsKept, NodeType, Bond
<1>3. ASSUME NEW f, UpdateMixnodeLayers(f), UNCHANGED <<lastMixId, rewarding, delegations>>
      PROVE  BondsKept
  BY Zenon, <1>3 DEF BondsKept, UpdateMixnodeLayers, NodeType, Bond
<1>4. ASSUME NEW m \in MixId, TryWithdrawOperatorReward(m)
      PROVE  /\ UNCHANGED <<lastMixId, bonds, delegations>>
             /\ \E r \in Details : Withdrawn(m, r)
  <2> DEFINE r == [rewarding[m] EXCEPT !.operator = bonds[m].pledge]
  <2>1. rewarding[m] \in Details /\ bonds[m].pledge \in Nat
    BY Zenon DEF NodeType, Bond
  <2>2. /\ r \in Details /\ r.operator = bonds[m].pledge
        /\ r.unique_delegations = rewarding[m].unique_delegations
        /\ r.stored = rewarding[m].stored
        /\ r.last_rewarded_epoch = rewarding[m].last_rewarded_epoch
    BY Zenon, <2>1 DEF Details
  <2>3. rewarding' = [rewarding EXCEPT ![m] = r]
    BY Zenon, <1>4 DEF TryWithdrawOperatorReward, NodeType
  <2> HIDE DEF r
  <2> QED
    BY Zenon, <1>4, <2>2, <2>3 DEF TryWithdrawOperatorReward, Withdrawn
<1>5. ASSUME NEW m \in rewardedSet, NEW performance \in BOOLEAN, NEW share \in {0, 1},
             TryRewardMixnode(m, performance, share)
      PROVE  \/ BondsKept
             \/ /\ UNCHANGED <<lastMixId, bonds, delegations>>
                /\ \E r \in Details : RewardKind(m, r)
  <2>1. UNCHANGED <<lastMixId, bonds, delegations>>
    BY Zenon, <1>5 DEF TryRewardMixnode
  <2>2. m \in MixId
    BY Zenon DEF ParamType
  <2> QED
    BY Zenon, <1>1, <1>5, <2>1, <2>2, RewardKinds
<1>6. ASSUME NEW b, PerformPendingAction(b)
      PROVE  BondsKept \/ \E e \in Event : Executed(e)
  <2>1. CASE UNCHANGED nodeVars
    BY Zenon, <1>1, <2>1 DEF nodeVars
  <2>2. CASE ~UNCHANGED nodeVars
    <3>1. /\ epochEvents # <<>> /\ ExecuteEpochEvent(Head(epochEvents))
          /\ epochEvents' = Tail(epochEvents) /\ UNCHANGED <<interval, epochState, rewardedSet>>
      BY Zenon, <1>6, <2>2 DEF PerformPendingAction
    <3>2. Head(epochEvents) \in Event
      BY Zenon, <3>1, Popped DEF QueueType
    <3> QED
      BY Zenon, <2>2, <3>1, <3>2 DEF ExecuteEpochEvent, Executed
  <2> QED
    BY Zenon, <2>1, <2>2
<1>7. ASSUME UserStep PROVE
           \/ BondsKept
           \/ \E o \in Owner, pledge \in MinimumPledge .. MaxPledge : TryAddMixnode(o, pledge)
           \/ /\ UNCHANGED <<lastMixId, bonds, delegations>>
              /\ \E m \in MixId, r \in Details : Withdrawn(m, r)
  <2>1. ASSUME NEW m \in MixId, NEW amount,
               TryIncreasePledge(m, amount) \/ TryDecreasePledge(m, amount)
        PROVE  BondsKept
    <3>1. bonds' = [bonds EXCEPT ![m].pledge_change = TRUE]
          /\ UNCHANGED <<lastMixId, rewarding, delegations>>
      BY Zenon, <2>1 DEF TryIncreasePledge, TryDecreasePledge, PushPledgeChange
    <3> QED
      BY Zenon, <1>2, <3>1
  <2>2. ASSUME NEW m \in MixId, TryRemoveMixnode(m) PROVE BondsKept
    <3>1. bonds' = [bonds EXCEPT ![m].is_unbonding = TRUE]
          /\ UNCHANGED <<lastMixId, rewarding, delegations>>
      BY Zenon, <2>2 DEF TryRemoveMixnode
    <3> QED
      BY Zenon, <1>2, <3>1
  <2>3. ASSUME NEW m \in MixId, NEW d,
               \/ TryUpdateMixnodeCostParams(m) \/ TryDelegateToMixnode(m, d)
               \/ TryRemoveDelegationFromMixnode(m, d)
        PROVE  BondsKept
    BY Zenon, <1>1, <2>3 DEF TryUpdateMixnodeCostParams, TryDelegateToMixnode,
       TryRemoveDelegationFromMixnode, nodeVars
  <2> QED
    BY Zenon, <1>4, <1>7, <2>1, <2>2, <2>3 DEF UserStep
<1>8. ASSUME OwnerStep \/ TryBeginEpochTransition \/ BlockTime PROVE BondsKept
  BY Zenon, <1>1, <1>8 DEF OwnerStep, TryUpdateActiveSetSize, TryUpdateRewardingParams,
     TryUpdateIntervalConfig, TryBeginEpochTransition, BlockTime, nodeVars
<1>9. ASSUME AdvanceStep \/ AssignStep PROVE BondsKept
  BY Zenon, <1>3, <1>9 DEF AdvanceStep, TryAdvanceEpoch, AssignStep, AssignMixnodeLayer
<1>10. ASSUME ReconcileStep PROVE BondsKept \/ \E e \in Event : Executed(e)
  BY Zenon, <1>1, <1>6, <1>10 DEF ReconcileStep, TryReconcileEpochEvents, ContinueReconciliation,
     FinishReconciliation, nodeVars
<1>11. ASSUME RewardStep PROVE
             \/ BondsKept
             \/ /\ UNCHANGED <<lastMixId, bonds, delegations>>
                /\ \E m \in MixId, r \in Details : RewardKind(m, r)
  BY Zenon, <1>5, <1>11 DEF RewardStep, ParamType
<1>12. CASE UNCHANGED vars
  BY Zenon, <1>1, <1>12 DEF vars, nodeVars
<1> QED
  BY Zenon, <1>7, <1>8, <1>9, <1>10, <1>11, <1>12 DEF Next

-------------------------------------------------------------------------------
(* Pledges and delegations.                                                   *)

\* A withdrawal, which pays out what the operator has beyond its pledge, never panics
\* with "seems slashing has occurred".
LEMMA PledgeStep ==
    ASSUME TypeInv, TypeInv', PledgeCovered, [Next]_vars
    PROVE  PledgeCovered'
<1> USE DEF TypeInv
<1>1. /\ \A m \in MixId : bonds[m].pledge \in Nat /\ rewarding[m].operator \in Nat
      /\ \A m \in MixId : bonds'[m].pledge \in Nat /\ rewarding'[m].operator \in Nat
      /\ rewarding \in [MixId -> Details] /\ bonds \in [MixId -> Bond]
  BY Zenon DEF NodeType, Bond, Details
<1>2. CASE BondsKept
  BY Zenon, <1>2 DEF BondsKept, PledgeCovered, Bonded
<1>3. ASSUME NEW o \in Owner, NEW pledge \in MinimumPledge .. MaxPledge, TryAddMixnode(o, pledge)
      PROVE  PledgeCovered'
  <2>1. PICK b \in Bond, r \in Details :
           /\ lastMixId + 1 \in MixId
           /\ bonds' = [bonds EXCEPT ![lastMixId + 1] = b]
           /\ rewarding' = [rewarding EXCEPT ![lastMixId + 1] = r]
           /\ b.pledge = r.operator
    BY Zenon, <1>3, AddKinds
  <2> QED
    BY <1>1, <2>1 DEF PledgeCovered, Bonded
<1>4. ASSUME UNCHANGED bonds, NEW m \in MixId, NEW r \in Details,
             rewarding' = [rewarding EXCEPT ![m] = r],
             m \in Bonded => r.operator >= bonds[m].pledge \/ r.operator >= rewarding[m].operator
      PROVE  PledgeCovered'
  <2>1. r.operator \in Nat
    BY Zenon DEF Details
  <2> QED
    BY <1>1, <1>4, <2>1 DEF PledgeCovered, Bonded
<1>5. ASSUME NEW m \in MixId, NEW r \in Details, Withdrawn(m, r) \/ RewardKind(m, r),
             UNCHANGED bonds
      PROVE  PledgeCovered'
  <2>1. /\ rewarding' = [rewarding EXCEPT ![m] = r]
        /\ m \in Bonded => r.operator >= bonds[m].pledge \/ r.operator >= rewarding[m].operator
    BY <1>1, <1>5 DEF Withdrawn, RewardKind, Details
  <2> QED
    BY Zenon, <1>4, <1>5, <2>1
<1>6. ASSUME NEW e \in Event, Executed(e) PROVE PledgeCovered'
  <2>1. CASE Delegate(e.mix_id, e.owner)
    <3>1. CASE UNCHANGED nodeVars
      BY Zenon, <1>2, <3>1 DEF BondsKept, nodeVars
    <3>2. CASE ~UNCHANGED nodeVars
      <4>1. e.mix_id \in MixId /\ UNCHANGED bonds
        BY Zenon, <2>1, <3>2, DelegateKinds
      <4>2. PICK r \in Details : /\ rewarding' = [rewarding EXCEPT ![e.mix_id] = r]
                                 /\ r.operator >= rewarding[e.mix_id].operator
        BY Zenon, <2>1, <3>2, DelegateKinds
      <4> QED
        BY Zenon, <1>4, <4>1, <4>2
    <3> QED
      BY Zenon, <3>1, <3>2
  <2>2. CASE Undelegate(e.mix_id, e.owner)
    BY Zenon, <1>2, <1>4, <2>2, UndelegateKinds DEF BondsKept, nodeVars
  <2>3. CASE UnbondMixnode(e.mix_id)
    <3>1. PICK r \in Details : rewarding' = [rewarding EXCEPT ![e.mix_id] = r]
      BY Zenon, <2>3, UnbondType
    <3>2. e.mix_id \in MixId /\ bonds' = [bonds EXCEPT ![e.mix_id] = NoBond]
      BY Zenon, <2>3, UnbondType
    <3> QED
      BY Zenon, <1>1, <3>1, <3>2 DEF PledgeCovered, Bonded, NoBond
  <2>4. CASE IncreasePledge(e.mix_id, e.amount) \/ DecreasePledge(e.mix_id, e.amount)
    <3>1. e.amount \in Nat
      BY Zenon DEF Event
    <3>2. PICK b \in Bond, r \in Details : PledgeChanged(e.mix_id, b, r)
      BY Zenon, <2>4, <3>1, PledgeKinds
    <3>3. b.pledge \in Nat /\ r.operator \in Nat
      BY Zenon DEF Bond, Details
    <3> QED
      BY <1>1, <3>2, <3>3 DEF PledgeCovered, Bonded, PledgeChanged
  <2> QED
    BY Zenon, <1>6, <2>1, <2>2, <2>3, <2>4 DEF Executed
<1> QED
  BY Zenon, <1>2, <1>3, <1>5, <1>6, NodeKinds

\* The operator of a bonded node has at least its pledge, whatever is pledged, earned,
\* withdrawn and delegated in between.
THEOREM PledgeCoveredHolds == Spec => []PledgeCovered
<1>1. Init => PledgeCovered
  BY DEF Init, PledgeCovered, Bonded, NoBond, NoRewarding
<1> QED
  BY <1>1, PledgeStep, TypeInvariant, PTL DEF Spec

Held(m) == {d \in Delegator : <<m, d>> \in delegations}

\* DelegationsCounted with what makes it inductive: ids above the counter are unused.
CountInv ==
    /\ \A m \in MixId : m \in Bonded \/ Held(m) # {} => m <= lastMixId /\ rewarding[m].stored
    /\ \A m \in MixId : rewarding[m].unique_delegations = Cardinality(Held(m))

\* The delegators of a node are finitely many.
LEMMA HeldFinite ==
    ASSUME NEW m
    PROVE  /\ IsFiniteSet(Held(m)) /\ Cardinality(Held(m)) \in Nat
           /\ (Cardinality(Held(m)) = 0) = (Held(m) = {})
<1>1. Held(m) \in SUBSET Delegator
  BY Zenon DEF Held
<1>2. IsFiniteSet(Held(m))
  BY Zenon, <1>1, ConstantsAssumption, FS_Subset
<1> QED
  BY Zenon, <1>2, FS_CardinalityType, FS_EmptySet

\* Every step keeps the counts.
LEMMA CountStep ==
    ASSUME TypeInv, TypeInv', CountInv, [Next]_vars
    PROVE  CountInv'
<1> USE DEF TypeInv
<1>0. /\ rewarding \in [MixId -> Details] /\ bonds \in [MixId -> Bond] /\ lastMixId \in Nat
      /\ \A m \in MixId : m \in Nat
  BY ConstantsAssumption DEF NodeType, MixId
<1>1. ASSUME UNCHANGED <<lastMixId, delegations>>,
             \A m \in MixId : /\ rewarding'[m].unique_delegations = rewarding[m].unique_delegations
                              /\ m \in Bonded' => m \in Bonded
                              /\ (m \in Bonded \/ Held(m) # {}) /\ rewarding[m].stored =>
                                    \/ rewarding'[m].stored
                                    \/ m \notin Bonded' /\ Held(m) = {}
      PROVE  CountInv'
  <2>1. \A m : Held(m)' = Held(m)
    BY Zenon, <1>1 DEF Held
  <2> QED
    BY Zenon, <1>1, <2>1 DEF CountInv
<1>2. CASE BondsKept
  <2>1. \A m \in MixId : m \in Bonded' <=> m \in Bonded
    BY Zenon, <1>2 DEF BondsKept, Bonded
  <2> QED
    BY Zenon, <1>1, <1>2, <2>1 DEF BondsKept
<1>3. ASSUME NEW o \in Owner, NEW pledge \in MinimumPledge .. MaxPledge, TryAddMixnode(o, pledge)
      PROVE  CountInv'
  <2>1. PICK n \in MixId : n = lastMixId + 1
    BY Zenon, <1>3, AddKinds
  <2>2. PICK b \in Bond, r \in Details :
           /\ lastMixId' = n
           /\ bonds' = [bonds EXCEPT ![n] = b]
           /\ rewarding' = [rewarding EXCEPT ![n] = r]
           /\ r.stored /\ r.unique_delegations = 0
    BY Zenon, <1>3, <2>1, AddKinds
  <2>3. \A m : Held(m)' = Held(m)
    BY Zenon, <1>3 DEF TryAddMixnode, Held
  <2>4. Held(n) = {} /\ Cardinality(Held(n)) = 0
    BY <1>0, <2>1, HeldFinite DEF CountInv
  <2>5. \A m \in MixId : m # n => (m \in Bonded' <=> m \in Bonded)
    BY Zenon, <1>0, <2>2 DEF Bonded
  <2>6. \A m \in MixId : rewarding'[m].unique_delegations = Cardinality(Held(m)')
    BY Zenon, <1>0, <2>2, <2>3, <2>4 DEF CountInv
  <2>7. \A m \in MixId : m \in Bonded' \/ Held(m)' # {} => m <= lastMixId' /\ rewarding'[m].stored
    BY <1>0, <2>1, <2>2, <2>3, <2>4, <2>5 DEF CountInv
  <2> QED
    BY Zenon, <2>6, <2>7 DEF CountInv
<1>4. ASSUME UNCHANGED <<lastMixId, bonds, delegations>>, NEW m \in MixId, NEW r \in Details,
             Withdrawn(m, r) \/ RewardKind(m, r)
      PROVE  CountInv'
  <2>1. /\ rewarding' = [rewarding EXCEPT ![m] = r]
        /\ r.unique_delegations = rewarding[m].unique_delegations /\ r.stored = rewarding[m].stored
    BY Zenon, <1>4 DEF Withdrawn, RewardKind
  <2>2. Bonded' = Bonded
    BY Zenon, <1>4 DEF Bonded
  <2> QED
    BY Zenon, <1>0, <1>1, <1>4, <2>1, <2>2
<1>5. ASSUME NEW e \in Event, Executed(e) PROVE CountInv'
  <2> DEFINE m == e.mix_id
             d == e.owner
  <2>1. ASSUME /\ m \in MixId /\ UNCHANGED <<lastMixId, bonds, layers>>
               /\ m \in Bonded \/ Held(m) # {},
               NEW r \in Details,
               /\ rewarding' = [rewarding EXCEPT ![m] = r]
               /\ r.stored = rewarding[m].stored
               /\ r.unique_delegations = Cardinality(Held(m)')
               /\ \A n : n # m => Held(n)' = Held(n)
        PROVE  CountInv'
    <3>1. Bonded' = Bonded
      BY Zenon, <2>1 DEF Bonded
    <3>2. \A n \in MixId : n # m => rewarding'[n] = rewarding[n]
      BY Zenon, <1>0, <2>1
    <3>3. rewarding'[m] = r
      BY Zenon, <1>0, <2>1
    <3> QED
      BY <2>1, <3>1, <3>2, <3>3 DEF CountInv
  <2>2. CASE e.kind = "Delegate" /\ Delegate(m, d)
    <3>1. CASE UNCHANGED nodeVars
      <4>1. Bonded' = Bonded
        BY Zenon, <3>1 DEF Bonded, nodeVars
      <4> QED
        BY Zenon, <1>1, <3>1, <4>1 DEF nodeVars
    <3>2. CASE ~UNCHANGED nodeVars
      <4>1. /\ m \in Bonded /\ m \in MixId /\ UNCHANGED <<lastMixId, bonds, layers>>
            /\ delegations' = delegations \union {<<m, d>>}
        BY Zenon, <2>2, <3>2, DelegateKinds
      <4>2. PICK r \in Details :
               /\ rewarding' = [rewarding EXCEPT ![m] = r]
               /\ r.unique_delegations = IF <<m, d>> \in delegations
                                         THEN rewarding[m].unique_delegations
                                         ELSE rewarding[m].unique_delegations + 1
               /\ r.stored = rewarding[m].stored
        BY Zenon, <2>2, <3>2, DelegateKinds
      <4>3. d \in Delegator
        BY <1>5, <2>2, Popped DEF Executed, QueueType
      <4>4. Held(m)' = Held(m) \union {d} /\ \A n : n # m => Held(n)' = Held(n)
        BY Zenon, <4>1, <4>3 DEF Held
      <4>5. r.unique_delegations = Cardinality(Held(m)')
        <5>1. rewarding[m].unique_delegations = Cardinality(Held(m))
          BY Zenon, <4>1 DEF CountInv
        <5>2. (d \in Held(m)) = (<<m, d>> \in delegations)
          BY <4>3 DEF Held
        <5>3. Cardinality(Held(m) \union {d}) = IF d \in Held(m) THEN Cardinality(Held(m))
                                                ELSE Cardinality(Held(m)) + 1
          BY Zenon, HeldFinite, FS_AddElement
        <5> QED
          BY Zenon, <4>2, <4>4, <5>1, <5>2, <5>3
      <4> QED
        BY Zenon, <2>1, <4>1, <4>2, <4>4, <4>5
    <3> QED
      BY Zenon, <3>1, <3>2
  <2>3. CASE Undelegate(m, d)
    <3>1. CASE UNCHANGED nodeVars
      <4>1. Bonded' = Bonded
        BY Zenon, <3>1 DEF Bonded, nodeVars
      <4> QED
        BY Zenon, <1>1, <3>1, <4>1 DEF nodeVars
    <3>2. CASE ~UNCHANGED nodeVars
      <4>1. /\ <<m, d>> \in delegations /\ m \in MixId /\ UNCHANGED <<lastMixId, bonds, layers>>
            /\ delegations' = delegations \ {<<m, d>>}
        BY Zenon, <2>3, <3>2, UndelegateKinds
      <4>2. PICK r \in Details :
               /\ rewarding' = [rewarding EXCEPT ![m] = r]
               /\ r.unique_delegations = rewarding[m].unique_delegations - 1
               /\ r.stored = rewarding[m].stored
        BY Zenon, <2>3, <3>2, UndelegateKinds
      <4>3. d \in Delegator /\ d \in Held(m)
        BY Zenon, <4>1 DEF NodeType, Held
      <4>4. Held(m)' = Held(m) \ {d} /\ \A n : n # m => Held(n)' = Held(n)
        BY Zenon, <4>1 DEF Held
      <4>5. r.unique_delegations = Cardinality(Held(m)')
        <5>1. rewarding[m].unique_delegations = Cardinality(Held(m))
          BY Zenon, <4>1 DEF CountInv
        <5>2. Cardinality(Held(m) \ {d}) = Cardinality(Held(m)) - 1
          BY Zenon, <4>3, HeldFinite, FS_RemoveElement
        <5> QED
          BY Zenon, <4>2, <4>4, <5>1, <5>2
      <4> QED
        BY Zenon, <2>1, <4>1, <4>2, <4>3, <4>4, <4>5
    <3> QED
      BY Zenon, <3>1, <3>2
  <2>4. CASE UnbondMixnode(m)
    <3>1. PICK r \in Details :
             /\ rewarding' = [rewarding EXCEPT ![m] = r]
             /\ r.unique_delegations = rewarding[m].unique_delegations
             /\ r.unique_delegations # 0 => r.stored
      BY Zenon, <2>4, UnbondType
    <3>2. /\ m \in MixId /\ bonds' = [bonds EXCEPT ![m] = NoBond]
          /\ UNCHANGED <<lastMixId, delegations>>
      BY Zenon, <2>4, UnbondType
    <3>3. m \notin Bonded' /\ \A n \in MixId : n # m => (n \in Bonded' <=> n \in Bonded)
      BY Zenon, <1>0, <3>2 DEF Bonded, NoBond
    <3>4. r.unique_delegations = 0 => Held(m) = {}
      BY Zenon, <3>1, <3>2, HeldFinite DEF CountInv
    <3>5. rewarding'[m] = r /\ \A n \in MixId : n # m => rewarding'[n] = rewarding[n]
      BY Zenon, <1>0, <3>1, <3>2
    <3> QED
      BY Zenon, <1>1, <3>1, <3>2, <3>3, <3>4, <3>5
  <2>5. CASE IncreasePledge(m, e.amount) \/ DecreasePledge(m, e.amount)
    <3>1. e.amount \in Nat
      BY Zenon DEF Event
    <3>2. PICK b \in Bond, r \in Details : PledgeChanged(m, b, r)
      BY Zenon, <2>5, <3>1, PledgeKinds
    <3>3. \A n \in MixId : n \in Bonded' <=> n \in Bonded
      BY Zenon, <1>0, <3>2 DEF Bonded, PledgeChanged
    <3>4. rewarding'[m] = r /\ \A n \in MixId : n # m => rewarding'[n] = rewarding[n]
      BY Zenon, <1>0, <3>2 DEF PledgeChanged
    <3> QED
      BY Zenon, <1>1, <3>2, <3>3, <3>4 DEF PledgeChanged
  <2> QED
    BY Zenon, <1>5, <2>2, <2>3, <2>4, <2>5 DEF Executed
<1> QED
  BY Zenon, <1>2, <1>3, <1>4, <1>5, NodeKinds

\* CountInv holds throughout.
LEMMA CountInvariant == Spec => []CountInv
<1>1. Init => CountInv
  <2> SUFFICES ASSUME Init PROVE CountInv
    BY Zenon
  <2>1. Bonded = {}
    BY Zenon DEF Init, Bonded, NoBond
  <2>2. \A m : Held(m) = {}
    BY Zenon DEF Init, Held
  <2>3. \A m \in MixId : rewarding[m].unique_delegations = 0
    BY Zenon DEF Init, NoRewarding
  <2> QED
    BY Zenon, <2>1, <2>2, <2>3, FS_EmptySet DEF CountInv
<1> QED
  BY <1>1, CountStep, TypeInvariant, PTL DEF Spec

\* unique_delegations counts the stored delegations, and undelegate never finds the
\* rewarding details of a delegation gone, however nodes come and go.
THEOREM DelegationsCountedHolds == Spec => []DelegationsCounted
<1>1. CountInv => DelegationsCounted
  BY Zenon DEF CountInv, DelegationsCounted, Held
<1> QED
  BY <1>1, CountInvariant, PTL

-------------------------------------------------------------------------------
(* The events that wait for a bond.                                           *)

BondKind == {"UnbondMixnode", "PledgeMore", "DecreasePledge"}

\* What the execution of e will check; that the operator has the tokens follows from
\* PledgeCovered.
Executable(e) ==
    /\ e.mix_id \in Bonded
    /\ IF e.kind = "UnbondMixnode"
       THEN bonds[e.mix_id].is_unbonding /\ ~bonds[e.mix_id].pledge_change
       ELSE bonds[e.mix_id].pledge_change
    /\ e.kind = "DecreasePledge" => bonds[e.mix_id].pledge >= MinimumPledge + e.amount

WaitInv ==
    /\ \A i \in 1 .. Len(epochEvents) :
          epochEvents[i].kind \in BondKind => Executable(epochEvents[i])
    /\ \A i, j \in 1 .. Len(epochEvents) :
          /\ epochEvents[i].kind \in BondKind /\ epochEvents[j].kind \in BondKind
          /\ epochEvents[i].mix_id = epochEvents[j].mix_id
          => i = j

SameBond(m) ==
    m \in Bonded => /\ m \in Bonded'
                    /\ bonds'[m].is_unbonding = bonds[m].is_unbonding
                    /\ bonds'[m].pledge_change = bonds[m].pledge_change
                    /\ bonds'[m].pledge = bonds[m].pledge

\* An event is left where it was, or one place nearer to its execution, with its bond
\* as it was; or it is new, and the only one of its node.
LEMMA WaitFrame ==
    ASSUME TypeInv, TypeInv', WaitInv, NEW k \in {0, 1},
           \A i \in 1 .. Len(epochEvents') : epochEvents'[i].kind \in BondKind =>
              \/ /\ i + k \in 1 .. Len(epochEvents)
                 /\ epochEvents'[i] = epochEvents[i + k]
                 /\ SameBond(epochEvents[i + k].mix_id)
              \/ /\ Executable(epochEvents[i])'
                 /\ \A j \in 1 .. Len(epochEvents') :
                       /\ epochEvents'[j].kind \in BondKind
                       /\ epochEvents'[j].mix_id = epochEvents'[i].mix_id
                       => j = i
    PROVE  WaitInv'
<1>1. ASSUME NEW i \in 1 .. Len(epochEvents'), epochEvents'[i].kind \in BondKind
      PROVE  Executable(epochEvents[i])'
  BY <1>1 DEF WaitInv, SameBond, Executable
<1>2. ASSUME NEW i \in 1 .. Len(epochEvents'), NEW j \in 1 .. Len(epochEvents'),
             epochEvents'[i].kind \in BondKind, epochEvents'[j].kind \in BondKind,
             epochEvents'[i].mix_id = epochEvents'[j].mix_id
      PROVE  i = j
  <2>1. CASE /\ i + k \in 1 .. Len(epochEvents) /\ epochEvents'[i] = epochEvents[i + k]
             /\ j + k \in 1 .. Len(epochEvents) /\ epochEvents'[j] = epochEvents[j + k]
    <3>1. i + k = j + k
      BY Zenon, <1>2, <2>1 DEF WaitInv
    <3>2. i \in Int /\ j \in Int /\ k \in Int
      BY DEF TypeInv, QueueType
    <3> QED
      BY <3>1, <3>2
  <2> QED
    BY Zenon, <1>2, <2>1
<1> QED
  BY Zenon, <1>1, <1>2 DEF WaitInv

\* A step that leaves the queue alone and the bonds but for their layers.
LEMMA WaitQuiet ==
    ASSUME TypeInv, TypeInv', WaitInv, UNCHANGED epochEvents, \A m \in MixId : SameBond(m)
    PROVE  WaitInv'
<1>1. \A i \in 1 .. Len(epochEvents) : i + 0 = i
  BY DEF TypeInv, QueueType
<1>2. \A i \in 1 .. Len(epochEvents) :
         epochEvents[i].kind \in BondKind => epochEvents[i].mix_id \in MixId
  BY Zenon DEF WaitInv, Executable, Bonded
<1>3. \A i \in 1 .. Len(epochEvents') : epochEvents'[i].kind \in BondKind =>
         /\ i + 0 \in 1 .. Len(epochEvents) /\ epochEvents'[i] = epochEvents[i + 0]
         /\ SameBond(epochEvents[i + 0].mix_id)
  BY Zenon, <1>1, <1>2
<1> QED
  BY <1>3, WaitFrame

\* A push of an event, for a bond that has none if it is an event of a bond.
LEMMA WaitPush ==
    ASSUME TypeInv, TypeInv', WaitInv, NEW e \in Event, PushNewEpochEvent(e),
           \A n \in MixId : n # e.mix_id \/ e.kind \notin BondKind => SameBond(n),
           e.kind \in BondKind =>
              /\ \A i \in 1 .. Len(epochEvents) :
                    epochEvents[i].kind \in BondKind => epochEvents[i].mix_id # e.mix_id
              /\ \A x : x = e => Executable(x)'
    PROVE  WaitInv'
<1>1. epochEvents' = Append(epochEvents, e) /\ epochEvents \in Seq(Event)
  BY Zenon DEF PushNewEpochEvent, TypeInv, QueueType
<1>2. /\ Len(epochEvents) \in Nat /\ Len(epochEvents') = Len(epochEvents) + 1
      /\ \A i \in 1 .. Len(epochEvents) : epochEvents'[i] = epochEvents[i] /\ i + 0 = i
      /\ epochEvents'[Len(epochEvents) + 1] = e
      /\ \A i \in 1 .. Len(epochEvents') : i \in 1 .. Len(epochEvents) \/ i = Len(epochEvents) + 1
  <2>1. PICK q, r : q = epochEvents /\ r = epochEvents'
    BY Zenon
  <2>2. r = Append(q, e) /\ q \in Seq(Event)
    BY Zenon, <1>1, <2>1
  <2>3. /\ Len(q) \in Nat /\ Len(r) = Len(q) + 1 /\ r[Len(q) + 1] = e
        /\ \A i \in 1 .. Len(q) : r[i] = q[i]
        /\ \A i \in 1 .. Len(r) : i \in 1 .. Len(q) \/ i = Len(q) + 1
    BY <2>2, Pushed
  <2>4. \A i \in 1 .. Len(q) : i + 0 = i
    BY <2>3
  <2> QED
    BY Zenon, <2>1, <2>3, <2>4
<1>3. \A i \in 1 .. Len(epochEvents) :
         epochEvents[i].kind \in BondKind => epochEvents[i].mix_id \in MixId
  BY Zenon DEF WaitInv, Executable, Bonded
<1>4. ASSUME NEW i \in 1 .. Len(epochEvents'), epochEvents'[i].kind \in BondKind
      PROVE  \/ /\ i + 0 \in 1 .. Len(epochEvents)
                /\ epochEvents'[i] = epochEvents[i + 0]
                /\ SameBond(epochEvents[i + 0].mix_id)
             \/ /\ Executable(epochEvents[i])'
                /\ \A j \in 1 .. Len(epochEvents') :
                      /\ epochEvents'[j].kind \in BondKind
                      /\ epochEvents'[j].mix_id = epochEvents'[i].mix_id
                      => j = i
  <2>1. CASE i \in 1 .. Len(epochEvents)
    BY Zenon, <1>2, <1>3, <1>4, <2>1
  <2>2. CASE i = Len(epochEvents) + 1
    BY Zenon, <1>2, <1>4, <2>2
  <2> QED
    BY Zenon, <1>2, <2>1, <2>2
<1> QED
  BY Zenon, <1>4, WaitFrame

\* Every step keeps the waiting events executable.
LEMMA WaitStep ==
    ASSUME TypeInv, TypeInv', CountInv, WaitInv, [Next]_vars
    PROVE  WaitInv'
<1>0. bonds \in [MixId -> Bond] /\ bonds' \in [MixId -> Bond] /\ epochEvents \in Seq(Event)
  BY Zenon DEF TypeInv, NodeType, QueueType
<1>1. ASSUME UNCHANGED bonds PROVE \A m \in MixId : SameBond(m)
  BY Zenon, <1>1 DEF SameBond, Bonded
<1>2. ASSUME NEW f, UpdateMixnodeLayers(f) PROVE \A m \in MixId : SameBond(m)
  BY Zenon, <1>0, <1>2 DEF UpdateMixnodeLayers, SameBond, Bonded, Bond
<1>3. ASSUME NEW o \in Owner, NEW pledge \in MinimumPledge .. MaxPledge, TryAddMixnode(o, pledge)
      PROVE  WaitInv'
  <2>1. PICK n \in MixId : n = lastMixId + 1
    BY Zenon, <1>3, AddKinds DEF TypeInv
  <2>2. PICK b \in Bond : bonds' = [bonds EXCEPT ![n] = b]
    BY Zenon, <1>3, <2>1, AddKinds DEF TypeInv
  <2>3. n \notin Bonded
    <3>1. lastMixId \in Nat
      BY ConstantsAssumption DEF TypeInv, NodeType
    <3> QED
      BY <2>1, <3>1 DEF CountInv
  <2>4. \A m \in MixId : SameBond(m)
    BY Zenon, <1>0, <2>2, <2>3 DEF SameBond, Bonded
  <2>5. UNCHANGED epochEvents
    BY Zenon, <1>3 DEF TryAddMixnode, queueVars
  <2> QED
    BY Zenon, <2>4, <2>5, WaitQuiet
<1>4. ASSUME NEW m \in MixId, NEW amount \in 1 .. MaxPledge,
             TryIncreasePledge(m, amount) \/ TryDecreasePledge(m, amount)
      PROVE  WaitInv'
  <2>1. PICK kind \in {"PledgeMore", "DecreasePledge"} :
           /\ CanChangePledge(m) /\ PushPledgeChange(m, EpochEvent(kind, m, NoOwner, amount))
           /\ kind = "DecreasePledge" => bonds[m].pledge >= MinimumPledge + amount
    BY Zenon, <1>4 DEF TryIncreasePledge, TryDecreasePledge
  <2>2. PICK e \in Event : e = EpochEvent(kind, m, NoOwner, amount)
    <3>1. m \in Nat /\ amount \in Nat /\ kind \in EventKind
      BY ConstantsAssumption DEF MixId, EventKind
    <3> QED
      BY Zenon, <3>1, EventFields
  <2>3. e.kind = kind /\ e.mix_id = m /\ e.amount = amount
    BY Zenon, <2>2 DEF EpochEvent
  <2>4. /\ PushNewEpochEvent(e) /\ bonds' = [bonds EXCEPT ![m].pledge_change = TRUE]
        /\ m \in Bonded /\ ~bonds[m].is_unbonding /\ ~bonds[m].pledge_change
    BY Zenon, <2>1, <2>2 DEF PushPledgeChange, CanChangePledge
  <2>5. /\ \A n \in MixId : n # m => SameBond(n)
        /\ m \in Bonded' /\ bonds'[m].pledge_change /\ bonds'[m].pledge = bonds[m].pledge
    BY Zenon, <1>0, <2>4 DEF SameBond, Bonded, Bond
  <2>6. \A x : x = e => Executable(x)'
    BY Zenon, <2>1, <2>3, <2>5 DEF Executable
  <2>7. \A i \in 1 .. Len(epochEvents) :
           epochEvents[i].kind \in BondKind => epochEvents[i].mix_id # m
    BY Zenon, <2>4 DEF WaitInv, Executable
  <2>8. e.kind \in BondKind
    BY Zenon, <2>3 DEF BondKind
  <2> QED
    BY Zenon, <2>3, <2>4, <2>5, <2>6, <2>7, <2>8, WaitPush
<1>5. ASSUME NEW m \in MixId, TryRemoveMixnode(m) PROVE WaitInv'
  <2>1. PICK e \in Event : e = EpochEvent("UnbondMixnode", m, NoOwner, 0)
    <3>1. m \in Nat /\ "UnbondMixnode" \in EventKind
      BY ConstantsAssumption DEF MixId, EventKind
    <3> QED
      BY Zenon, <3>1, EventFields
  <2>2. e.kind = "UnbondMixnode" /\ e.mix_id = m
    BY Zenon, <2>1 DEF EpochEvent
  <2>3. /\ PushNewEpochEvent(e) /\ bonds' = [bonds EXCEPT ![m].is_unbonding = TRUE]
        /\ m \in Bonded /\ ~bonds[m].is_unbonding /\ ~bonds[m].pledge_change
    BY Zenon, <1>5, <2>1 DEF TryRemoveMixnode, CanChangePledge
  <2>4. /\ \A n \in MixId : n # m => SameBond(n)
        /\ m \in Bonded' /\ bonds'[m].is_unbonding /\ ~bonds'[m].pledge_change
    BY Zenon, <1>0, <2>3 DEF SameBond, Bonded, Bond
  <2>5. \A x : x = e => Executable(x)'
    BY Zenon, <2>2, <2>4 DEF Executable
  <2>6. \A i \in 1 .. Len(epochEvents) :
           epochEvents[i].kind \in BondKind => epochEvents[i].mix_id # m
    BY Zenon, <2>3 DEF WaitInv, Executable
  <2>7. e.kind \in BondKind
    BY Zenon, <2>2 DEF BondKind
  <2> QED
    BY Zenon, <2>2, <2>3, <2>4, <2>5, <2>6, <2>7, WaitPush
<1>6. ASSUME UNCHANGED bonds,
             NEW kind \in {"Delegate", "Undelegate", "UpdateActiveSetSize"}, NEW m \in Nat,
             NEW d \in Delegator \union {NoOwner}, NEW n \in Nat,
             PushNewEpochEvent(EpochEvent(kind, m, d, n))
      PROVE  WaitInv'
  <2>1. PICK e \in Event : e = EpochEvent(kind, m, d, n)
    BY EventFields DEF EventKind
  <2>2. e.kind = kind
    BY Zenon, <2>1 DEF EpochEvent
  <2>3. e.kind \notin BondKind
    BY Zenon, <2>2 DEF BondKind
  <2> QED
    BY Zenon, <1>1, <1>6, <2>1, <2>3, WaitPush
<1>7. ASSUME NEW b, PerformPendingAction(b) PROVE WaitInv'
  <2>1. CASE /\ epochEvents # <<>> /\ ExecuteEpochEvent(Head(epochEvents))
             /\ epochEvents' = Tail(epochEvents)
    <3>1. /\ Head(epochEvents) \in Event /\ Head(epochEvents) = epochEvents[1]
          /\ Len(epochEvents) \in Nat /\ Len(epochEvents) >= 1
          /\ \A i \in 1 .. Len(epochEvents') : /\ i + 1 \in 1 .. Len(epochEvents)
                                               /\ epochEvents'[i] = epochEvents[i + 1]
      BY Zenon, <1>0, <2>1, Popped
    <3>2. PICK e \in Event : e = Head(epochEvents)
      BY Zenon, <3>1
    <3>3. \A n \in MixId : (e.kind \in BondKind /\ n = e.mix_id) \/ SameBond(n)
      <4>1. CASE UNCHANGED bonds
        BY Zenon, <1>1, <4>1
      <4>2. CASE e.kind = "Delegate" /\ Delegate(e.mix_id, e.owner)
        <5>1. UNCHANGED bonds
          BY Zenon, <4>2 DEF Delegate, nodeVars
        <5> QED
          BY Zenon, <4>1, <5>1
      <4>3. CASE e.kind = "Undelegate" /\ Undelegate(e.mix_id, e.owner)
        <5>1. UNCHANGED bonds
          BY Zenon, <4>3 DEF Undelegate, nodeVars
        <5> QED
          BY Zenon, <4>1, <5>1
      <4>4. ASSUME e.kind \in BondKind, NEW c, bonds' = [bonds EXCEPT ![e.mix_id] = c]
            PROVE  \A n \in MixId : n = e.mix_id \/ SameBond(n)
        BY Zenon, <1>0, <4>4 DEF SameBond, Bonded
      <4>5. CASE e.kind = "UnbondMixnode" /\ UnbondMixnode(e.mix_id)
        <5>1. bonds' = [bonds EXCEPT ![e.mix_id] = NoBond] /\ e.kind \in BondKind
          BY Zenon, <4>5 DEF UnbondMixnode, CleanupPostUnbondMixnodeStorage, BondKind
        <5> QED
          BY Zenon, <4>4, <5>1
      <4>6. CASE /\ e.kind \in {"PledgeMore", "DecreasePledge"}
                 /\ IncreasePledge(e.mix_id, e.amount) \/ DecreasePledge(e.mix_id, e.amount)
        <5>1. e.amount \in Nat /\ e.kind \in BondKind
          BY Zenon, <4>6 DEF Event, BondKind
        <5>2. \E c \in Bond : bonds' = [bonds EXCEPT ![e.mix_id] = c]
          BY Zenon, <4>6, <5>1, PledgeKinds DEF PledgeChanged, TypeInv
        <5> QED
          BY Zenon, <4>4, <5>1, <5>2
      <4> QED
        BY Zenon, <2>1, <3>2, <4>1, <4>2, <4>3, <4>5, <4>6 DEF ExecuteEpochEvent, nodeVars
    <3>4. ASSUME NEW i \in 1 .. Len(epochEvents'), epochEvents'[i].kind \in BondKind
          PROVE  /\ i + 1 \in 1 .. Len(epochEvents) /\ epochEvents'[i] = epochEvents[i + 1]
                 /\ SameBond(epochEvents[i + 1].mix_id)
      <4>1. i + 1 \in 1 .. Len(epochEvents) /\ epochEvents'[i] = epochEvents[i + 1]
        BY Zenon, <3>1
      <4>2. epochEvents[i + 1].mix_id \in MixId
        BY Zenon, <3>4, <4>1 DEF WaitInv, Executable, Bonded
      <4>3. 1 \in 1 .. Len(epochEvents) /\ i + 1 # 1
        BY <3>1, <4>1
      <4>4. e.kind \in BondKind => e.mix_id # epochEvents[i + 1].mix_id
        BY <3>1, <3>2, <3>4, <4>1, <4>3 DEF WaitInv
      <4> QED
        BY Zenon, <3>3, <4>1, <4>2, <4>4
    <3> QED
      BY Zenon, <3>4, WaitFrame
  <2>2. CASE UNCHANGED <<epochEvents, bonds>>
    BY Zenon, <1>1, <2>2, WaitQuiet
  <2> QED
    BY Zenon, <1>7, <2>1, <2>2 DEF PerformPendingAction, nodeVars
<1>8. ASSUME UNCHANGED <<epochEvents, bonds>> PROVE WaitInv'
  BY Zenon, <1>1, <1>8, WaitQuiet
<1>9. ASSUME UserStep PROVE WaitInv'
  <2>1. ASSUME NEW m \in MixId, NEW d \in Delegator,
               TryDelegateToMixnode(m, d) \/ TryRemoveDelegationFromMixnode(m, d)
        PROVE  WaitInv'
    <3>1. m \in Nat
      BY ConstantsAssumption DEF MixId
    <3>2. UNCHANGED bonds /\ \E kind \in {"Delegate", "Undelegate"} :
             PushNewEpochEvent(EpochEvent(kind, m, d, 0))
      BY Zenon, <2>1 DEF TryDelegateToMixnode, TryRemoveDelegationFromMixnode, nodeVars
    <3> QED
      BY Zenon, <1>6, <3>1, <3>2
  <2>2. ASSUME NEW m \in MixId, TryUpdateMixnodeCostParams(m) \/ TryWithdrawOperatorReward(m)
        PROVE  WaitInv'
    BY Zenon, <1>8, <2>2 DEF TryUpdateMixnodeCostParams, TryWithdrawOperatorReward,
       PushNewIntervalEvent, nodeVars, queueVars
  <2> QED
    BY Zenon, <1>3, <1>4, <1>5, <1>9, <2>1, <2>2 DEF UserStep
<1>10. ASSUME OwnerStep PROVE WaitInv'
  <2>1. ASSUME NEW size \in ActiveSetSizes, NEW force, TryUpdateActiveSetSize(size, force)
        PROVE  WaitInv'
    <3>1. UNCHANGED bonds
      BY Zenon, <2>1 DEF TryUpdateActiveSetSize, nodeVars
    <3>2. \/ UNCHANGED epochEvents
          \/ PushNewEpochEvent(EpochEvent("UpdateActiveSetSize", 0, NoOwner, size))
      BY Zenon, <2>1 DEF TryUpdateActiveSetSize, queueVars
    <3>3. size \in Nat
      BY Zenon, ConstantsAssumption
    <3> QED
      BY Zenon, <1>6, <1>8, <3>1, <3>2, <3>3
  <2>2. ASSUME NEW x, NEW force, TryUpdateRewardingParams(x, force) \/ TryUpdateIntervalConfig(x, force)
        PROVE  WaitInv'
    BY Zenon, <1>8, <2>2 DEF TryUpdateRewardingParams, TryUpdateIntervalConfig, PushNewIntervalEvent,
       nodeVars, queueVars
  <2> QED
    BY Zenon, <1>10, <2>1, <2>2 DEF OwnerStep
<1>11. ASSUME TryBeginEpochTransition \/ RewardStep \/ BlockTime \/ FinishReconciliation
       PROVE  WaitInv'
  BY Zenon, <1>8, <1>11 DEF TryBeginEpochTransition, RewardStep, TryRewardMixnode, BlockTime,
     FinishReconciliation, nodeVars, queueVars
<1>12. ASSUME AdvanceStep \/ AssignStep PROVE WaitInv'
  BY Zenon, <1>2, <1>12, WaitQuiet DEF AdvanceStep, TryAdvanceEpoch, AssignStep, AssignMixnodeLayer,
     queueVars
<1>13. ASSUME TryReconcileEpochEvents \/ ContinueReconciliation PROVE WaitInv'
  BY Zenon, <1>7, <1>8, <1>13 DEF TryReconcileEpochEvents, ContinueReconciliation, nodeVars, queueVars
<1>14. CASE UNCHANGED vars
  BY Zenon, <1>8, <1>14 DEF vars, nodeVars, queueVars
<1> QED
  BY Zenon, <1>9, <1>10, <1>11, <1>12, <1>13, <1>14 DEF Next, ReconcileStep

\* WaitInv holds throughout.
LEMMA WaitInvariant == Spec => []WaitInv
<1>1. Init => WaitInv
  BY DEF Init, WaitInv
<1> QED
  BY <1>1, WaitStep, TypeInvariant, CountInvariant, PTL DEF Spec

\* unbond_mixnode, increase_pledge and decrease_pledge find, whenever they are executed,
\* what was checked when their event was pushed.
THEOREM BondEventsExecutableHolds == Spec => []BondEventsExecutable
<1>1. TypeInv /\ WaitInv /\ CountInv /\ PledgeCovered => BondEventsExecutable
  <2> SUFFICES ASSUME TypeInv, WaitInv, CountInv, PledgeCovered, NEW m \in MixId
               PROVE  /\ Cardinality(BondEvent(m)) <= 1
                      /\ \A i \in BondEvent(m) :
                           /\ m \in Bonded /\ rewarding[m].stored
                           /\ IF epochEvents[i].kind = "UnbondMixnode"
                              THEN bonds[m].is_unbonding /\ ~bonds[m].pledge_change
                              ELSE bonds[m].pledge_change
                           /\ epochEvents[i].kind = "DecreasePledge" =>
                                /\ bonds[m].pledge >= MinimumPledge + epochEvents[i].amount
                                /\ rewarding[m].operator >= epochEvents[i].amount
    BY Zenon DEF BondEventsExecutable
  <2>1. DOMAIN epochEvents = 1 .. Len(epochEvents)
    BY DEF TypeInv, QueueType
  <2>2. \A i, j \in BondEvent(m) : i = j
    BY Zenon, <2>1 DEF BondEvent, WaitInv, BondKind
  <2>3. Cardinality(BondEvent(m)) <= 1
    <3>1. CASE BondEvent(m) = {}
      BY <3>1, FS_EmptySet
    <3>2. CASE BondEvent(m) # {}
      <4>1. PICK i : BondEvent(m) = {i}
        BY Zenon, <2>2, <3>2
      <4>2. Cardinality(BondEvent(m)) = 1
        BY Zenon, <4>1, FS_Singleton
      <4> QED
        BY <4>2
    <3> QED
      BY Zenon, <3>1, <3>2
  <2>4. ASSUME NEW i \in BondEvent(m)
        PROVE  /\ m \in Bonded /\ rewarding[m].stored
               /\ IF epochEvents[i].kind = "UnbondMixnode"
                  THEN bonds[m].is_unbonding /\ ~bonds[m].pledge_change
                  ELSE bonds[m].pledge_change
               /\ epochEvents[i].kind = "DecreasePledge" =>
                    /\ bonds[m].pledge >= MinimumPledge + epochEvents[i].amount
                    /\ rewarding[m].operator >= epochEvents[i].amount
    <3>1. Executable(epochEvents[i]) /\ epochEvents[i].mix_id = m /\ i \in 1 .. Len(epochEvents)
      BY Zenon, <2>1 DEF BondEvent, WaitInv, BondKind
    <3>2. /\ epochEvents[i].amount \in Nat /\ bonds[m].pledge \in Nat
          /\ rewarding[m].operator \in Nat /\ MinimumPledge \in Nat
      <4>1. epochEvents[i] \in Event
        BY <3>1 DEF TypeInv, QueueType
      <4>2. bonds[m] \in Bond /\ rewarding[m] \in Details
        BY Zenon DEF TypeInv, NodeType
      <4> QED
        BY Zenon, <4>1, <4>2, ConstantsAssumption DEF Event, Bond, Details
    <3>3. m \in Bonded /\ rewarding[m].stored /\ rewarding[m].operator >= bonds[m].pledge
      BY Zenon, <3>1 DEF Executable, CountInv, PledgeCovered
    <3> QED
      BY <3>1, <3>2, <3>3 DEF Executable
  <2> QED
    BY Zenon, <2>3, <2>4
<1> QED
  BY <1>1, TypeInvariant, WaitInvariant, CountInvariant, PledgeCoveredHolds, PTL

-------------------------------------------------------------------------------
(* The rewarding of an epoch.                                                 *)

\* NotYetRewarded with what makes it inductive: events are executed only after the
\* rewarding, nobody was rewarded in an epoch to come, and a new node is not in the
\* rewarded set.
RewardInv ==
    /\ reconciling # "none" => epochState.state = "ReconcilingEvents"
    /\ \A m \in rewardedSet : m <= lastMixId
    /\ \A m \in MixId : rewarding[m].last_rewarded_epoch <= interval.total_elapsed_epochs
    /\ NotYetRewarded

\* A step of the same epoch after which only nodes are to be rewarded that were so before.
LEMMA RewardFrame ==
    ASSUME TypeInv, TypeInv', RewardInv, lastMixId <= lastMixId', UNCHANGED rewardedSet,
           interval'.total_elapsed_epochs = interval.total_elapsed_epochs,
           reconciling' # "none" => epochState'.state = "ReconcilingEvents",
           \A m \in MixId :
              rewarding'[m].last_rewarded_epoch <= interval.total_elapsed_epochs,
           \A m \in RewardedLater' :
              StillBonded(m)' => /\ m \in RewardedLater /\ StillBonded(m)
                                 /\ rewarding'[m].last_rewarded_epoch =
                                       rewarding[m].last_rewarded_epoch
    PROVE  RewardInv'
<1>1. \A m \in rewardedSet' : m <= lastMixId'
  <2>1. lastMixId \in Int /\ lastMixId' \in Int /\ \A m \in rewardedSet : m \in Int
    BY ConstantsAssumption DEF TypeInv, NodeType, ParamType, MixId
  <2> QED
    BY <2>1 DEF RewardInv
<1>2. NotYetRewarded'
  BY Zenon DEF RewardInv, NotYetRewarded
<1> QED
  BY Zenon, <1>1, <1>2 DEF RewardInv

\* Every step keeps RewardInv.
LEMMA RewardInvStep ==
    ASSUME TypeInv, TypeInv', CountInv, RewardInv, [Next]_vars
    PROVE  RewardInv'
<1>0. /\ rewarding \in [MixId -> Details] /\ rewarding' \in [MixId -> Details]
      /\ rewardedSet \in SUBSET MixId /\ lastMixId \in Nat /\ lastMixId' \in Nat
      /\ interval.total_elapsed_epochs \in Nat
      /\ \A m \in MixId : m \in Nat /\ rewarding[m].last_rewarded_epoch \in Nat
  <2>1. rewarding \in [MixId -> Details] /\ rewarding' \in [MixId -> Details]
    BY Zenon DEF TypeInv, NodeType
  <2>2. rewardedSet \in SUBSET MixId /\ interval.total_elapsed_epochs \in Nat
    BY Zenon DEF TypeInv, ParamType, IntervalType, Interval
  <2>3. lastMixId \in Nat /\ lastMixId' \in Nat /\ \A m \in MixId : m \in Nat
    BY ConstantsAssumption DEF TypeInv, NodeType, MixId
  <2>4. \A m \in MixId : rewarding[m].last_rewarded_epoch \in Nat
    BY Zenon, <2>1 DEF Details
  <2> QED
    BY Zenon, <2>1, <2>2, <2>3, <2>4
<1>1. ASSUME UNCHANGED <<epochState, reconciling, rewardedSet, rewarding, lastMixId>>,
             interval'.total_elapsed_epochs = interval.total_elapsed_epochs
      PROVE  RewardInv'
  <2>1. RewardedLater' = RewardedLater /\ \A m : StillBonded(m)' = StillBonded(m)
    BY Zenon, <1>1 DEF RewardedLater, StillBonded
  <2> QED
    BY <1>0, <1>1, <2>1, RewardFrame DEF RewardInv
<1>2. ASSUME NEW o \in Owner, NEW pledge \in MinimumPledge .. MaxPledge, TryAddMixnode(o, pledge)
      PROVE  RewardInv'
  <2>1. PICK n \in MixId : n = lastMixId + 1
    BY Zenon, <1>2, AddKinds DEF TypeInv
  <2>2. PICK r \in Details :
           /\ lastMixId' = n
           /\ rewarding' = [rewarding EXCEPT ![n] = r]
           /\ r.last_rewarded_epoch = interval.total_elapsed_epochs
    BY Zenon, <1>2, <2>1, AddKinds DEF TypeInv
  <2>3. UNCHANGED <<epochState, reconciling, rewardedSet, interval>>
    BY Zenon, <1>2 DEF TryAddMixnode, epochVars
  <2>4. n \notin rewardedSet
    BY <1>0, <2>1 DEF RewardInv
  <2>5. RewardedLater' = RewardedLater /\ RewardedLater \subseteq rewardedSet
    BY Zenon, <2>3 DEF RewardedLater
  <2>6. \A m \in MixId : m # n => /\ rewarding'[m] = rewarding[m]
                                  /\ StillBonded(m)' = StillBonded(m)
    BY Zenon, <1>0, <2>2 DEF StillBonded
  <2>7. \A m \in MixId : rewarding'[m].last_rewarded_epoch <= interval.total_elapsed_epochs
    BY <1>0, <2>2 DEF RewardInv
  <2>8. lastMixId <= lastMixId'
    BY <1>0, <2>1, <2>2
  <2>9. \A m \in RewardedLater' :
           StillBonded(m)' => /\ m \in RewardedLater /\ StillBonded(m)
                              /\ rewarding'[m].last_rewarded_epoch =
                                    rewarding[m].last_rewarded_epoch
    BY Zenon, <1>0, <2>4, <2>5, <2>6
  <2> QED
    BY Zenon, <2>3, <2>7, <2>8, <2>9, RewardFrame DEF RewardInv
<1>3. ASSUME NEW m \in MixId, TryWithdrawOperatorReward(m) PROVE RewardInv'
  <2>1. UNCHANGED <<epochState, reconciling, rewardedSet, interval, lastMixId>>
    BY Zenon, <1>3 DEF TryWithdrawOperatorReward, epochVars
  <2>2. /\ rewarding' = [rewarding EXCEPT ![m].operator = bonds[m].pledge]
        /\ bonds[m].pledge <= rewarding[m].operator
        /\ bonds[m].pledge \in Nat /\ rewarding[m].operator \in Nat
    BY Zenon, <1>0, <1>3 DEF TryWithdrawOperatorReward, TypeInv, NodeType, Bond, Details
  <2>3. \A k \in MixId : /\ rewarding'[k].last_rewarded_epoch = rewarding[k].last_rewarded_epoch
                         /\ StillBonded(k)' => StillBonded(k)
    BY <1>0, <2>2 DEF StillBonded, Details
  <2>4. RewardedLater' = RewardedLater /\ RewardedLater \subseteq MixId
    BY Zenon, <1>0, <2>1 DEF RewardedLater
  <2> QED
    BY <1>0, <2>1, <2>3, <2>4, RewardFrame DEF RewardInv
<1>4. ASSUME TryBeginEpochTransition PROVE RewardInv'
  <2>1. /\ UNCHANGED <<reconciling, rewardedSet, interval, lastMixId, rewarding>>
        /\ reconciling = "none" /\ epochState.state = "InProgress"
    BY Zenon, <1>4 DEF TryBeginEpochTransition, nodeVars, Tx, EpochInProgress
  <2>2. RewardedLater' \subseteq RewardedLater
    BY Zenon, <2>1 DEF RewardedLater
  <2>3. \A m : StillBonded(m)' = StillBonded(m)
    BY Zenon, <2>1 DEF StillBonded
  <2> QED
    BY <1>0, <2>1, <2>2, <2>3, RewardFrame DEF RewardInv
<1>5. ASSUME NEW m \in rewardedSet, NEW performance \in BOOLEAN, NEW share \in {0, 1},
             TryRewardMixnode(m, performance, share)
      PROVE  RewardInv'
  <2>1. /\ UNCHANGED <<reconciling, rewardedSet, interval, lastMixId>> /\ reconciling = "none"
        /\ epochState.state = "Rewarding" /\ m > epochState.last_rewarded
        /\ epochState' = IF m = epochState.final_node_id THEN ReconcilingEvents
                         ELSE [epochState EXCEPT !.last_rewarded = m]
    BY Zenon, <1>5 DEF TryRewardMixnode, UpdateLastRewarded, Tx
  <2>2. m \in MixId /\ m \in Nat
    BY Zenon, <1>0
  <2>3. /\ \A k \in MixId : k # m => rewarding'[k] = rewarding[k]
        /\ \/ rewarding'[m].last_rewarded_epoch = rewarding[m].last_rewarded_epoch
           \/ rewarding'[m].last_rewarded_epoch = interval.total_elapsed_epochs
    BY Zenon, <1>0, <1>5, <2>2, RewardKinds DEF RewardKind, TypeInv
  <2>4. \A k \in MixId : rewarding'[k].last_rewarded_epoch <= interval.total_elapsed_epochs
    BY <1>0, <2>2, <2>3 DEF RewardInv
  <2>5. \A k \in RewardedLater' : k \in RewardedLater /\ k # m /\ k \in MixId
    <3>1. epochState.last_rewarded \in Nat /\ epochState \in Status
      BY Zenon DEF TypeInv, EpochType, Status
    <3>2. CASE m = epochState.final_node_id
      <4>1. epochState'.state = "ReconcilingEvents"
        BY Zenon, <2>1, <3>2 DEF ReconcilingEvents, InProgress
      <4> QED
        BY Zenon, <4>1 DEF RewardedLater
    <3>3. CASE m # epochState.final_node_id
      <4>1. epochState'.state = "Rewarding" /\ epochState'.last_rewarded = m
        BY Zenon, <2>1, <3>1, <3>3 DEF Status
      <4> QED
        BY <1>0, <2>1, <2>2, <3>1, <4>1 DEF RewardedLater
    <3> QED
      BY Zenon, <3>2, <3>3
  <2>6. \A k \in RewardedLater' :
           StillBonded(k)' => /\ k \in RewardedLater /\ StillBonded(k)
                              /\ rewarding'[k].last_rewarded_epoch =
                                    rewarding[k].last_rewarded_epoch
    BY Zenon, <2>3, <2>5 DEF StillBonded
  <2> QED
    BY <1>0, <2>1, <2>4, <2>6, RewardFrame DEF RewardInv
<1>6. ASSUME NEW b, PerformPendingAction(b), epochState.state = "ReconcilingEvents"
      PROVE  RewardInv'
  <2>1. UNCHANGED <<epochState, rewardedSet>>
    BY Zenon, <1>6 DEF PerformPendingAction
  <2>2. RewardedLater' = {}
    BY Zenon, <1>6, <2>1 DEF RewardedLater
  <2>3. /\ lastMixId' = lastMixId
        /\ interval'.total_elapsed_epochs = interval.total_elapsed_epochs
        /\ \A m \in MixId :
              rewarding'[m].last_rewarded_epoch <= rewarding[m].last_rewarded_epoch
    <3>1. CASE /\ epochEvents # <<>> /\ ExecuteEpochEvent(Head(epochEvents))
               /\ UNCHANGED interval
      <4>1. PICK e \in Event : e = Head(epochEvents)
        BY Zenon, <3>1, Popped DEF TypeInv, QueueType
      <4>2. ASSUME UNCHANGED lastMixId, NEW m \in MixId, NEW r \in Details,
                   /\ rewarding' = [rewarding EXCEPT ![m] = r]
                   /\ r.last_rewarded_epoch <= rewarding[m].last_rewarded_epoch
            PROVE  \A k \in MixId :
                      rewarding'[k].last_rewarded_epoch <= rewarding[k].last_rewarded_epoch
        BY <1>0, <4>2
      <4>3. CASE UNCHANGED nodeVars
        BY <1>0, <3>1, <4>3 DEF nodeVars
      <4>4. CASE Delegate(e.mix_id, e.owner) /\ ~UNCHANGED nodeVars
        <5>1. e.mix_id \in MixId /\ UNCHANGED lastMixId
          BY Zenon, <4>4, DelegateKinds DEF TypeInv
        <5>2. PICK r \in Details : /\ rewarding' = [rewarding EXCEPT ![e.mix_id] = r]
                                   /\ r.last_rewarded_epoch = rewarding[e.mix_id].last_rewarded_epoch
          BY Zenon, <4>4, DelegateKinds DEF TypeInv
        <5> QED
          BY <1>0, <3>1, <4>2, <5>1, <5>2
      <4>5. CASE Undelegate(e.mix_id, e.owner) /\ ~UNCHANGED nodeVars
        <5>1. e.mix_id \in MixId /\ UNCHANGED lastMixId
          BY Zenon, <4>5, UndelegateKinds DEF TypeInv
        <5>2. PICK r \in Details : /\ rewarding' = [rewarding EXCEPT ![e.mix_id] = r]
                                   /\ r.last_rewarded_epoch = rewarding[e.mix_id].last_rewarded_epoch
          BY Zenon, <4>5, UndelegateKinds DEF TypeInv
        <5> QED
          BY <1>0, <3>1, <4>2, <5>1, <5>2
      <4>6. CASE UnbondMixnode(e.mix_id)
        <5>1. e.mix_id \in MixId /\ UNCHANGED lastMixId
          BY Zenon, <4>6, UnbondType DEF TypeInv
        <5>2. PICK r \in Details : /\ rewarding' = [rewarding EXCEPT ![e.mix_id] = r]
                                   /\ r.last_rewarded_epoch <= rewarding[e.mix_id].last_rewarded_epoch
          BY Zenon, <4>6, UnbondType DEF TypeInv
        <5> QED
          BY Zenon, <3>1, <4>2, <5>1, <5>2
      <4>7. CASE IncreasePledge(e.mix_id, e.amount) \/ DecreasePledge(e.mix_id, e.amount)
        <5>1. e.amount \in Nat
          BY Zenon DEF Event
        <5>2. PICK r \in Details : /\ rewarding' = [rewarding EXCEPT ![e.mix_id] = r]
                                   /\ r.last_rewarded_epoch = rewarding[e.mix_id].last_rewarded_epoch
                                   /\ e.mix_id \in MixId /\ UNCHANGED lastMixId
          BY Zenon, <4>7, <5>1, PledgeKinds DEF PledgeChanged, TypeInv
        <5> QED
          BY <1>0, <3>1, <4>2, <5>2
      <4> QED
        BY Zenon, <3>1, <4>1, <4>3, <4>4, <4>5, <4>6, <4>7 DEF ExecuteEpochEvent
    <3>2. CASE /\ intervalEvents # <<>> /\ ExecuteIntervalEvent(Head(intervalEvents))
               /\ UNCHANGED nodeVars
      <4>1. lastMixId' = lastMixId
            /\ \A m \in MixId :
                  rewarding'[m].last_rewarded_epoch <= rewarding[m].last_rewarded_epoch
        BY <1>0, <3>2 DEF nodeVars
      <4>2. CASE UNCHANGED interval
        BY Zenon, <4>1, <4>2
      <4>3. CASE /\ Head(intervalEvents).kind = "UpdateIntervalConfig"
                 /\ ChangeIntervalConfig(Head(intervalEvents).amount)
        <5>1. /\ Head(intervalEvents) \in Event /\ Head(intervalEvents) = intervalEvents[1]
              /\ Len(intervalEvents) >= 1 /\ Len(intervalEvents) \in Nat
          BY Zenon, <3>2, Popped DEF TypeInv, QueueType
        <5>2. intervalEvents[1].amount # 0
          BY <4>3, <5>1 DEF TypeInv, QueueType
        <5>3. Head(intervalEvents).amount \in Nat \ {0}
          BY Zenon, <5>1, <5>2 DEF Event
        <5> QED
          BY Zenon, <4>1, <4>3, <5>3, ConfigType DEF ChangeIntervalConfig, TypeInv
      <4> QED
        BY Zenon, <3>2, <4>2, <4>3 DEF ExecuteIntervalEvent
    <3> QED
      BY Zenon, <1>6, <3>1, <3>2 DEF PerformPendingAction
  <2>4. \A m \in MixId : rewarding'[m].last_rewarded_epoch <= interval.total_elapsed_epochs
    <3>1. \A m \in MixId : rewarding'[m].last_rewarded_epoch \in Nat
      BY Zenon, <1>0 DEF Details
    <3> QED
      BY <1>0, <2>3, <3>1 DEF RewardInv
  <2> QED
    BY <1>0, <1>6, <2>1, <2>2, <2>3, <2>4, RewardFrame
<1>7. ASSUME epochState' = AdvancingEpoch, reconciling' = "none",
             UNCHANGED <<interval, nodeVars, rewardedSet>>
      PROVE  RewardInv'
  <2>1. RewardedLater' = {}
    BY Zenon, <1>7 DEF RewardedLater, AdvancingEpoch, InProgress
  <2> QED
    BY <1>0, <1>7, <2>1, RewardFrame DEF RewardInv, nodeVars
<1>8. ASSUME ReconcileStep PROVE RewardInv'
  <2>1. CASE TryReconcileEpochEvents
    <3>1. epochState.state = "ReconcilingEvents" /\ reconciling = "none"
      BY Zenon, <2>1 DEF TryReconcileEpochEvents, Tx
    <3> QED
      BY Zenon, <1>6, <1>7, <2>1, <3>1 DEF TryReconcileEpochEvents
  <2>2. CASE ContinueReconciliation
    BY Zenon, <1>6, <2>2 DEF ContinueReconciliation, Tx, RewardInv
  <2>3. CASE FinishReconciliation
    <3>1. CASE UNCHANGED epochState
      <4>1. /\ UNCHANGED <<interval, rewarding, lastMixId, rewardedSet>> /\ reconciling' = "none"
        BY Zenon, <2>3 DEF FinishReconciliation, nodeVars
      <4>2. RewardedLater' = RewardedLater /\ \A m : StillBonded(m)' = StillBonded(m)
        BY Zenon, <3>1, <4>1 DEF RewardedLater, StillBonded
      <4> QED
        BY <1>0, <4>1, <4>2, RewardFrame DEF RewardInv
    <3> QED
      BY Zenon, <1>7, <2>3, <3>1 DEF FinishReconciliation
  <2> QED
    BY Zenon, <1>8, <2>1, <2>2, <2>3 DEF ReconcileStep
<1>9. ASSUME NEW f \in Assignments, NEW size, TryAdvanceEpoch(f, size) PROVE RewardInv'
  <2>1. /\ rewardedSet' = DOMAIN f /\ UNCHANGED <<lastMixId, rewarding, reconciling>>
        /\ reconciling = "none" /\ interval' = AdvanceEpoch(interval)
    BY Zenon, <1>9 DEF TryAdvanceEpoch, Tx
  <2>2. interval'.total_elapsed_epochs = interval.total_elapsed_epochs + 1
    BY Zenon, <2>1, AdvanceType DEF TypeInv
  <2>3. DOMAIN f \subseteq Bonded /\ DOMAIN f \subseteq MixId
    BY Zenon, AssignmentType DEF TypeInv
  <2>4. \A m \in rewardedSet' : m <= lastMixId'
    BY Zenon, <2>1, <2>3 DEF CountInv
  <2>5. \A m \in MixId : rewarding'[m].last_rewarded_epoch < interval'.total_elapsed_epochs
    BY <1>0, <2>1, <2>2 DEF RewardInv
  <2>6. \A m \in MixId : rewarding'[m].last_rewarded_epoch <= interval'.total_elapsed_epochs
    BY <1>0, <2>1, <2>2, <2>5
  <2>7. NotYetRewarded'
    BY Zenon, <2>1, <2>3, <2>5 DEF NotYetRewarded, RewardedLater
  <2> QED
    BY Zenon, <2>1, <2>4, <2>6, <2>7 DEF RewardInv
<1>10. ASSUME UserStep PROVE RewardInv'
  <2>1. ASSUME NEW m \in MixId, NEW amount, NEW d,
               \/ TryIncreasePledge(m, amount) \/ TryDecreasePledge(m, amount)
               \/ TryRemoveMixnode(m) \/ TryUpdateMixnodeCostParams(m)
               \/ TryDelegateToMixnode(m, d) \/ TryRemoveDelegationFromMixnode(m, d)
        PROVE  RewardInv'
    <3>1. UNCHANGED <<epochState, reconciling, rewardedSet, rewarding, lastMixId, interval>>
      BY Zenon, <2>1 DEF TryIncreasePledge, TryDecreasePledge, PushPledgeChange, TryRemoveMixnode,
         TryUpdateMixnodeCostParams, TryDelegateToMixnode, TryRemoveDelegationFromMixnode,
         epochVars, nodeVars
    <3> QED
      BY Zenon, <1>1, <3>1
  <2> QED
    BY Zenon, <1>2, <1>3, <1>10, <2>1 DEF UserStep
<1>11. ASSUME OwnerStep PROVE RewardInv'
  <2>1. UNCHANGED <<epochState, reconciling, rewardedSet, rewarding, lastMixId>>
    BY Zenon, <1>11 DEF OwnerStep, TryUpdateActiveSetSize, TryUpdateRewardingParams,
       TryUpdateIntervalConfig, epochVars, nodeVars
  <2>2. interval'.total_elapsed_epochs = interval.total_elapsed_epochs
    <3>1. CASE UNCHANGED interval
      BY Zenon, <3>1
    <3>2. ASSUME NEW epochs \in IntervalLengths, NEW force, TryUpdateIntervalConfig(epochs, force)
          PROVE  interval'.total_elapsed_epochs = interval.total_elapsed_epochs
      <4>1. epochs \in Nat \ {0}
        BY Zenon, <3>2, ConstantsAssumption DEF TryUpdateIntervalConfig
      <4> QED
        BY <3>1, <3>2, <4>1, ConfigType DEF TryUpdateIntervalConfig, ChangeIntervalConfig, TypeInv
    <3> QED
      BY Zenon, <1>11, <3>1, <3>2 DEF OwnerStep, TryUpdateActiveSetSize, TryUpdateRewardingParams,
         epochVars
  <2> QED
    BY Zenon, <1>1, <2>1, <2>2
<1>12. ASSUME AssignStep \/ BlockTime \/ UNCHANGED vars PROVE RewardInv'
  <2>1. UNCHANGED <<epochState, reconciling, rewardedSet, rewarding, lastMixId, interval>>
    BY Zenon, <1>12 DEF AssignStep, AssignMixnodeLayer, BlockTime, vars, epochVars, nodeVars
  <2> QED
    BY Zenon, <1>1, <2>1
<1> QED
  BY Zenon, <1>4, <1>5, <1>8, <1>9, <1>10, <1>11, <1>12 DEF Next, RewardStep, AdvanceStep

\* RewardInv holds throughout.
LEMMA RewardInvariant == Spec => []RewardInv
<1>1. Init => RewardInv
  BY DEF Init, RewardInv, NotYetRewarded, RewardedLater, NoRewarding
<1> QED
  BY <1>1, RewardInvStep, TypeInvariant, CountInvariant, PTL DEF Spec

\* try_reward_mixnode never meets a node it has rewarded in this epoch: it checks that
\* once more behind the order of the ids, and its error would stop the transition.
THEOREM NotYetRewardedHolds == Spec => []NotYetRewarded
<1>1. RewardInv => NotYetRewarded
  BY Zenon DEF RewardInv
<1> QED
  BY <1>1, RewardInvariant, PTL

-------------------------------------------------------------------------------
(* No event is left behind.                                                   *)

NoConfigEvent ==
    \A i \in 1 .. Len(intervalEvents) : intervalEvents[i].kind # "UpdateIntervalConfig"

LastEpoch == interval.current_epoch_id = interval.epochs_in_interval - 1

\* What the reconciliation has established when the epoch may be advanced, and what it
\* knows of the interval while it runs.
RollInv ==
    /\ NoConfigEvent
    /\ epochState.state = "AdvancingEpoch" =>
          epochEvents = <<>> /\ (LastEpoch => intervalEvents = <<>>)
    /\ reconciling = "interval running" => ~LastEpoch

\* While the contract owner leaves the interval's configuration as it is, every step
\* keeps RollInv.
LEMMA RollStep ==
    ASSUME IntervalLengths = {}, TypeInv, TypeInv', RewardInv, RollInv, [Next]_vars
    PROVE  RollInv'
<1>0. intervalEvents \in Seq(Event) /\ epochEvents \in Seq(Event)
  BY Zenon DEF TypeInv, QueueType
<1>1. ASSUME UNCHANGED <<interval, epochState, reconciling, epochEvents, intervalEvents>>
      PROVE  RollInv'
  BY Zenon, <1>1 DEF RollInv, NoConfigEvent, LastEpoch
<1>2. ASSUME UNCHANGED <<interval, epochState, reconciling, intervalEvents>>,
             epochState.state = "InProgress"
      PROVE  RollInv'
  BY Zenon, <1>2 DEF RollInv, NoConfigEvent, LastEpoch
<1>3. ASSUME UNCHANGED <<interval, epochState, reconciling>>, epochState.state = "InProgress",
             NEW kind \in EventKind, NEW m \in Nat, NEW n \in Nat, kind # "UpdateIntervalConfig",
             PushNewIntervalEvent(EpochEvent(kind, m, NoOwner, n))
      PROVE  RollInv'
  <2>1. PICK e \in Event : e = EpochEvent(kind, m, NoOwner, n) /\ e.kind = kind
    BY EventFields
  <2>2. intervalEvents' = Append(intervalEvents, e)
    BY Zenon, <1>3, <2>1 DEF PushNewIntervalEvent
  <2>3. \A i \in 1 .. Len(intervalEvents') : intervalEvents'[i].kind # "UpdateIntervalConfig"
    <3>1. \A i \in 1 .. Len(intervalEvents) : intervalEvents[i].kind # "UpdateIntervalConfig"
      BY Zenon DEF RollInv, NoConfigEvent
    <3>2. e.kind # "UpdateIntervalConfig"
      BY Zenon, <1>3, <2>1
    <3> DEFINE q == Append(intervalEvents, e)
    <3>3. /\ \A i \in 1 .. Len(intervalEvents) : q[i] = intervalEvents[i]
          /\ q[Len(intervalEvents) + 1] = e
          /\ \A i \in 1 .. Len(q) : i \in 1 .. Len(intervalEvents) \/ i = Len(intervalEvents) + 1
      BY Zenon, <1>0, Pushed
    <3> HIDE DEF q
    <3>4. \A i \in 1 .. Len(q) : q[i].kind # "UpdateIntervalConfig"
      BY Zenon, <3>1, <3>2, <3>3
    <3> QED
      BY Zenon, <2>2, <3>4 DEF q
  <2> QED
    BY Zenon, <1>3, <2>3 DEF RollInv, NoConfigEvent, LastEpoch
<1>4. ASSUME UserStep PROVE RollInv'
  <2>1. ASSUME NEW o, NEW pledge, NEW m, TryAddMixnode(o, pledge) \/ TryWithdrawOperatorReward(m)
        PROVE  RollInv'
    BY Zenon, <1>1, <2>1 DEF TryAddMixnode, TryWithdrawOperatorReward, epochVars, queueVars
  <2>2. ASSUME NEW m, NEW amount, NEW d,
               \/ TryIncreasePledge(m, amount) \/ TryDecreasePledge(m, amount)
               \/ TryRemoveMixnode(m) \/ TryDelegateToMixnode(m, d)
               \/ TryRemoveDelegationFromMixnode(m, d)
        PROVE  RollInv'
    BY Zenon, <1>2, <2>2 DEF TryIncreasePledge, TryDecreasePledge, PushPledgeChange, CanChangePledge,
       TryRemoveMixnode, TryDelegateToMixnode, TryRemoveDelegationFromMixnode,
       PushNewEpochEvent, EpochInProgress, epochVars
  <2>3. ASSUME NEW m \in MixId, TryUpdateMixnodeCostParams(m) PROVE RollInv'
    <3>1. m \in Nat /\ "ChangeMixCostParams" \in EventKind
      BY ConstantsAssumption DEF MixId, EventKind
    <3> QED
      BY Zenon, <1>3, <2>3, <3>1 DEF TryUpdateMixnodeCostParams, EpochInProgress, epochVars
  <2> QED
    BY Zenon, <1>4, <2>1, <2>2, <2>3 DEF UserStep
<1>5. ASSUME OwnerStep PROVE RollInv'
  <2>1. ASSUME NEW size, NEW force, TryUpdateActiveSetSize(size, force) PROVE RollInv'
    <3>1. CASE UNCHANGED queueVars
      BY Zenon, <1>1, <2>1, <3>1 DEF TryUpdateActiveSetSize, epochVars, queueVars
    <3> QED
      BY Zenon, <1>2, <2>1, <3>1 DEF TryUpdateActiveSetSize, PushNewEpochEvent, EpochInProgress,
         epochVars
  <2>2. ASSUME NEW size \in RewardedSetSizes, NEW force, TryUpdateRewardingParams(size, force)
        PROVE  RollInv'
    <3>1. CASE UNCHANGED queueVars
      BY Zenon, <1>1, <2>2, <3>1 DEF TryUpdateRewardingParams, epochVars, queueVars
    <3>2. size \in Nat /\ "UpdateRewardingParams" \in EventKind
      BY Zenon, ConstantsAssumption DEF EventKind
    <3> QED
      BY Zenon, <1>3, <2>2, <3>1, <3>2 DEF TryUpdateRewardingParams, EpochInProgress, epochVars
  <2> QED
    BY Zenon, <1>5, <2>1, <2>2 DEF OwnerStep
<1>6. ASSUME NEW b, PerformPendingAction(b), epochState.state = "ReconcilingEvents",
             ~b => ~LastEpoch
      PROVE  RollInv'
  <2>1. /\ UNCHANGED epochState
        /\ reconciling' = IF b THEN "interval over" ELSE "interval running"
    BY Zenon, <1>6 DEF PerformPendingAction
  <2>2. UNCHANGED interval
    <3>1. ASSUME intervalEvents # <<>>, Head(intervalEvents).kind = "UpdateIntervalConfig"
          PROVE  FALSE
      <4>1. Head(intervalEvents) = intervalEvents[1] /\ Len(intervalEvents) >= 1
            /\ Len(intervalEvents) \in Nat
        BY Zenon, <1>0, <3>1, Popped
      <4>2. 1 \in 1 .. Len(intervalEvents)
        BY <4>1
      <4> QED
        BY Zenon, <3>1, <4>1, <4>2 DEF RollInv, NoConfigEvent
    <3> QED
      BY Zenon, <1>6, <3>1 DEF PerformPendingAction, ExecuteIntervalEvent
  <2>3. \A i \in 1 .. Len(intervalEvents') : intervalEvents'[i].kind # "UpdateIntervalConfig"
    <3>1. CASE UNCHANGED intervalEvents
      BY Zenon, <3>1 DEF RollInv, NoConfigEvent
    <3>2. CASE intervalEvents # <<>> /\ intervalEvents' = Tail(intervalEvents)
      BY ZenonT(40), <1>0, <3>2, Popped DEF RollInv, NoConfigEvent
    <3> QED
      BY Zenon, <1>6, <3>1, <3>2 DEF PerformPendingAction
  <2> QED
    BY Zenon, <1>6, <2>1, <2>2, <2>3 DEF RollInv, NoConfigEvent, LastEpoch
<1>7. ASSUME TryReconcileEpochEvents PROVE RollInv'
  <2>1. ~IsCurrentIntervalOver => ~LastEpoch
    <3>1. elapsed >= 1 /\ elapsed \in Nat
      BY <1>7, ConstantsAssumption DEF TryReconcileEpochEvents, IsCurrentEpochOver, TypeInv,
         IntervalType
    <3>2. interval.epochs_in_interval \in Nat /\ interval.current_epoch_id \in Nat
      BY Zenon DEF TypeInv, IntervalType, Interval
    <3> QED
      BY <3>1, <3>2 DEF IsCurrentIntervalOver, LastEpoch
  <2>2. CASE NothingPending(IsCurrentIntervalOver)
    <3>1. /\ epochState' = AdvancingEpoch /\ epochEvents = <<>>
          /\ UNCHANGED <<interval, reconciling, epochEvents, intervalEvents>>
          /\ reconciling = "none"
          /\ LastEpoch => intervalEvents = <<>>
      BY Zenon, <1>7, <2>1, <2>2 DEF TryReconcileEpochEvents, NothingPending, queueVars, Tx
    <3> QED
      BY Zenon, <3>1 DEF RollInv, NoConfigEvent, LastEpoch
  <2>3. CASE ~NothingPending(IsCurrentIntervalOver)
    BY Zenon, <1>6, <1>7, <2>1, <2>3 DEF TryReconcileEpochEvents
  <2> QED
    BY Zenon, <2>2, <2>3
<1>8. ASSUME ContinueReconciliation PROVE RollInv'
  <2>1. epochState.state = "ReconcilingEvents" /\ reconciling # "none"
    BY Zenon, <1>8 DEF ContinueReconciliation, Tx, RewardInv
  <2>2. reconciling # "interval over" => ~LastEpoch
    BY Zenon, <2>1 DEF RollInv, TypeInv, EpochType
  <2> QED
    BY Zenon, <1>6, <1>8, <2>1, <2>2 DEF ContinueReconciliation
<1>9. ASSUME FinishReconciliation PROVE RollInv'
  <2>1. /\ reconciling # "none" /\ reconciling' = "none"
        /\ UNCHANGED <<interval, epochEvents, intervalEvents>>
        /\ epochState.state = "ReconcilingEvents"
    BY Zenon, <1>9 DEF FinishReconciliation, Tx, queueVars, RewardInv
  <2>2. reconciling # "interval over" => ~LastEpoch
    BY Zenon, <2>1 DEF RollInv, TypeInv, EpochType
  <2>3. CASE NothingPending(reconciling = "interval over")
    <3>1. epochEvents = <<>> /\ (LastEpoch => intervalEvents = <<>>)
      BY Zenon, <2>2, <2>3 DEF NothingPending
    <3> QED
      BY Zenon, <2>1, <3>1 DEF RollInv, NoConfigEvent, LastEpoch
  <2>4. CASE UNCHANGED epochState
    BY Zenon, <2>1, <2>4 DEF RollInv, NoConfigEvent, LastEpoch
  <2> QED
    BY Zenon, <1>9, <2>3, <2>4 DEF FinishReconciliation
<1>10. ASSUME TryBeginEpochTransition \/ RewardStep PROVE RollInv'
  <2>1. /\ UNCHANGED <<interval, reconciling, epochEvents, intervalEvents>>
    BY Zenon, <1>10 DEF TryBeginEpochTransition, RewardStep, TryRewardMixnode, queueVars
  <2>2. epochState'.state # "AdvancingEpoch"
    <3>1. ReconcilingEvents.state = "ReconcilingEvents"
      BY Zenon DEF ReconcilingEvents, InProgress
    <3>2. CASE TryBeginEpochTransition
      BY Zenon, <3>1, <3>2 DEF TryBeginEpochTransition
    <3>3. ASSUME NEW m, UpdateLastRewarded(m) PROVE epochState'.state # "AdvancingEpoch"
      BY Zenon, <3>1, <3>3 DEF UpdateLastRewarded, TypeInv, EpochType, Status
    <3> QED
      BY Zenon, <1>10, <3>2, <3>3 DEF RewardStep, TryRewardMixnode
  <2> QED
    BY Zenon, <2>1, <2>2 DEF RollInv, NoConfigEvent, LastEpoch
<1>11. ASSUME AdvanceStep PROVE RollInv'
  <2>1. /\ UNCHANGED <<reconciling, intervalEvents>> /\ reconciling = "none"
        /\ epochState'.state = "InProgress"
    <3>1. PICK f \in Assignments, size \in ActiveSetSizes \union {InitParams.active} :
              TryAdvanceEpoch(f, size)
      BY Zenon, <1>11 DEF AdvanceStep
    <3>2. epochState' = InProgress /\ UNCHANGED <<reconciling, queueVars>> /\ Tx
      BY Zenon, <3>1 DEF TryAdvanceEpoch
    <3> QED
      BY Zenon, <3>2 DEF Tx, InProgress, queueVars
  <2> QED
    BY Zenon, <2>1 DEF RollInv, NoConfigEvent
<1>12. ASSUME AssignStep \/ BlockTime \/ UNCHANGED vars PROVE RollInv'
  BY Zenon, <1>1, <1>12 DEF AssignStep, AssignMixnodeLayer, BlockTime, vars, epochVars, queueVars
<1> QED
  BY Zenon, <1>4, <1>5, <1>7, <1>8, <1>9, <1>10, <1>11, <1>12 DEF Next, ReconcileStep

\* "We roll into new epoch / interval with up to date state with no pending actions",
\* as long as the owner does not change the length of the interval in between.
THEOREM RollsUpToDateHolds ==
    ASSUME IntervalLengths = {}
    PROVE  Spec => RollsUpToDate
<1>1. Init => RollInv
  BY DEF Init, RollInv, NoConfigEvent, InProgress
<1>2. TypeInv /\ RollInv /\ [Next]_vars =>
        [interval'.total_elapsed_epochs # interval.total_elapsed_epochs =>
            /\ epochEvents = <<>>
            /\ interval'.id # interval.id => intervalEvents = <<>>]_vars
  <2> SUFFICES ASSUME TypeInv, RollInv, Next,
                      interval'.total_elapsed_epochs # interval.total_elapsed_epochs
               PROVE  /\ epochEvents = <<>>
                      /\ interval'.id # interval.id => intervalEvents = <<>>
    BY Zenon
  <2>1. CASE AdvanceStep
    <3>1. epochState.state = "AdvancingEpoch" /\ interval' = AdvanceEpoch(interval)
      BY Zenon, <2>1 DEF AdvanceStep, TryAdvanceEpoch
    <3>2. interval'.id # interval.id => LastEpoch
      BY Zenon, <3>1, AdvanceType DEF TypeInv, LastEpoch
    <3> QED
      BY Zenon, <3>1, <3>2 DEF RollInv
  <2>2. CASE ~AdvanceStep
    <3>1. ASSUME NEW b, PerformPendingAction(b) PROVE UNCHANGED interval
      <4>1. ASSUME intervalEvents # <<>>, Head(intervalEvents).kind = "UpdateIntervalConfig"
            PROVE  FALSE
        <5>1. Head(intervalEvents) = intervalEvents[1] /\ Len(intervalEvents) >= 1
              /\ Len(intervalEvents) \in Nat
          BY Zenon, <4>1, Popped DEF TypeInv, QueueType
        <5>2. 1 \in 1 .. Len(intervalEvents)
          BY <5>1
        <5> QED
          BY Zenon, <4>1, <5>1, <5>2 DEF RollInv, NoConfigEvent
      <4> QED
        BY Zenon, <3>1, <4>1 DEF PerformPendingAction, ExecuteIntervalEvent
    <3>2. ASSUME UserStep \/ OwnerStep PROVE UNCHANGED interval
      BY Zenon, <3>2 DEF UserStep, TryAddMixnode, TryIncreasePledge, TryDecreasePledge, PushPledgeChange,
         TryRemoveMixnode, TryUpdateMixnodeCostParams, TryWithdrawOperatorReward,
         TryDelegateToMixnode, TryRemoveDelegationFromMixnode, OwnerStep,
         TryUpdateActiveSetSize, TryUpdateRewardingParams, epochVars
    <3>3. ASSUME TryBeginEpochTransition \/ RewardStep \/ AssignStep \/ BlockTime
          PROVE  UNCHANGED interval
      BY Zenon, <3>3 DEF TryBeginEpochTransition, RewardStep, TryRewardMixnode, AssignStep,
         AssignMixnodeLayer, BlockTime, epochVars
    <3>4. ASSUME ReconcileStep PROVE UNCHANGED interval
      BY Zenon, <3>1, <3>4 DEF ReconcileStep, TryReconcileEpochEvents, ContinueReconciliation,
         FinishReconciliation
    <3> QED
      BY Zenon, <2>2, <3>2, <3>3, <3>4 DEF Next
  <2> QED
    BY Zenon, <2>1, <2>2
<1>3. TypeInv /\ TypeInv' /\ RewardInv /\ RollInv /\ [Next]_vars => RollInv'
  BY Zenon, RollStep
<1> QED
  BY <1>1, <1>2, <1>3, TypeInvariant, RewardInvariant, PTL DEF Spec, RollsUpToDate

==============================================================================
