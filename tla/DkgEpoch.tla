------------------------------ MODULE DkgEpoch ------------------------------
(***************************************************************************)
(* The coconut DKG contract (contracts/coconut-dkg) and the part of the    *)
(* multisig contract it uses (contracts/multisig/cw3-flex-multisig).  The  *)
(* contract steps a key generation through its states; the members of the  *)
(* group register, send their dealings, send the verification key share    *)
(* derived from everybody's dealings, vote on each other's shares in the   *)
(* multisig and have the proposals that passed executed, which marks the   *)
(* shares verified.  An action is one accepted transaction: a transaction  *)
(* the contract refuses changes nothing.                                   *)
(*                                                                         *)
(* The storage maps of the contract are keyed by the epoch id.  The model  *)
(* keeps the current epoch's part of each and, in previous, what is read   *)
(* of the epoch before it.  Time is the flag late: the deadline of the     *)
(* current state has passed.                                               *)
(*                                                                         *)
(* A key is known by its epoch and the set of dealers whose dealings it    *)
(* was derived from: two shares of an epoch fit together when they were    *)
(* derived from the same dealings, and that is what a voter checks.        *)
(***************************************************************************)
EXTENDS Integers, FiniteSets, Sequences

CONSTANTS
    Dealer,         \* the nym-apis that may become members of the group
    Index,          \* the dealing indices, 0 .. key_size - 1
    Chunk,          \* the chunk indices of one dealing
    None,           \* stands for Rust's None
    Environments    \* the scenarios: see EnvironmentsAssumption

ASSUME EnvironmentsAssumption ==
    \A x \in Environments :
        /\ x.group \in (SUBSET Dealer) \ {{}}
        /\ x.faulty \in SUBSET x.group
        /\ x.slow \in SUBSET x.group
        /\ {x.stuck, x.crashes, x.last} \subseteq Nat
        /\ x.admin \subseteq {"reset", "resharing"}

\* try_submit_dealings_metadata refuses metadata without chunks
ASSUME ContractAssumption ==
    /\ IsFiniteSet(Dealer)
    /\ IsFiniteSet(Index)
    /\ Chunk # {}

ASSUME NoneAssumption ==
    /\ None \notin Nat
    /\ \A S \in (SUBSET Dealer) \cup (SUBSET Chunk) : S # None
    /\ None \notin [epoch_id : Nat, from : SUBSET Dealer]
    /\ None \notin [key : [epoch_id : Nat, from : SUBSET Dealer],
                    verified : BOOLEAN]

VARIABLES
    env,            \* the scenario of this behaviour, never changed
    epoch,          \* CURRENT_EPOCH, with its StateProgress
    threshold,      \* THRESHOLD
    dealers,        \* the dealers of the current epoch
    dealings,       \* per dealer: the secret dealt and the chunks received
    vkShares,       \* per dealer: the committed share
    previous,       \* dealers and shares of the previous epoch
    proposals       \* PROPOSALS and BALLOTS of the multisig, by id

chain == <<env, epoch, threshold, dealers, dealings, vkShares, previous,
           proposals>>

-----------------------------------------------------------------------------

EpochStates == <<"WaitingInitialisation", "PublicKeySubmission",
    "DealingExchange", "VerificationKeySubmission",
    "VerificationKeyValidation", "VerificationKeyFinalization", "InProgress">>

EpochNew(state, id, resharing) ==
    [state |-> state, epoch_id |-> id, resharing |-> resharing, late |-> FALSE,
     registered_dealers |-> 0, registered_resharing_dealers |-> 0,
     submitted_dealings |-> 0, submitted_key_shares |-> 0, verified_keys |-> 0]

\* EpochState::next; a finished exchange has no next state and stays as it is
EpochStateNext(state) ==
    IF state = "InProgress" THEN state
    ELSE EpochStates[1 + (CHOOSE j \in 1..6 : EpochStates[j] = state)]

NoDealings == [secret |-> None, parts |-> [i \in Index |-> None]]

Complete(d) == \A i \in Index : dealings[d].parts[i] = Chunk

Shared == {d \in Dealer : vkShares[d] # None}
Verified == {d \in Shared : vkShares[d].verified}

\* the weight of "yes" a proposal needs: 67 % of the group, each of whose
\* members has weight one, rounded up
MultisigThreshold == (67 * Cardinality(env.group) + 99) \div 100
\* the weight of "no" it survives: the other 33 %, rounded up as well
MultisigVeto == (33 * Cardinality(env.group) + 99) \div 100

Init ==
    /\ env \in Environments
    /\ epoch = EpochNew("WaitingInitialisation", 0, FALSE)
    /\ threshold = None
    /\ dealers = {}
    /\ dealings = [d \in Dealer |-> NoDealings]
    /\ vkShares = [d \in Dealer |-> None]
    /\ previous = [dealers |-> {}, vkShares |-> [d \in Dealer |-> None]]
    /\ proposals = <<>>

-----------------------------------------------------------------------------
(* The epoch *)

\* the end of the time a state is given
DeadlinePasses ==
    /\ epoch.state # "WaitingInitialisation"
    /\ ~epoch.late
    /\ epoch' = [epoch EXCEPT !.late = TRUE]
    /\ UNCHANGED <<env, threshold, dealers, dealings, vkShares, previous,
                   proposals>>

CheckStateCompletion ==
    \/ /\ epoch.state = "DealingExchange"
       /\ epoch.submitted_dealings = Cardinality(Index) *
            (IF epoch.resharing THEN epoch.registered_resharing_dealers
                                ELSE epoch.registered_dealers)
    \/ /\ epoch.state = "VerificationKeySubmission"
       /\ epoch.submitted_key_shares = epoch.registered_dealers
    \/ /\ epoch.state = "VerificationKeyFinalization"
       /\ epoch.verified_keys = epoch.submitted_key_shares

EnsureCanAdvanceState ==
    /\ epoch.state # "WaitingInitialisation"
    /\ CheckStateCompletion \/ epoch.late

\* reset_dkg_state with Epoch::next_reset or Epoch::next_resharing: every map
\* is read under the new epoch id from here on
NextEpoch(resharing) ==
    /\ epoch.epoch_id < env.last
    /\ epoch' = EpochNew("PublicKeySubmission", epoch.epoch_id + 1, resharing)
    /\ threshold' = None
    /\ previous' = [dealers |-> dealers, vkShares |-> vkShares]
    /\ dealers' = {}
    /\ dealings' = [d \in Dealer |-> NoDealings]
    /\ vkShares' = [d \in Dealer |-> None]
    /\ UNCHANGED <<env, proposals>>

TryAdvanceEpochState ==
    LET next == EpochStateNext(epoch.state) IN
    /\ EnsureCanAdvanceState
    /\ \/ /\ next = "InProgress"
          /\ epoch.verified_keys < threshold
          /\ NextEpoch(FALSE)
       \/ /\ next = "InProgress" => epoch.verified_keys >= threshold
          /\ epoch' = [epoch EXCEPT !.state = next, !.late = FALSE]
          /\ threshold' = IF next = "DealingExchange"
                          THEN (2 * epoch.registered_dealers + 3 - 1) \div 3
                          ELSE threshold
          /\ UNCHANGED <<env, dealers, dealings, vkShares, previous,
                         proposals>>

TryInitiateDkg ==
    /\ epoch.state = "WaitingInitialisation"
    /\ epoch' = EpochNew("PublicKeySubmission", 0, FALSE)
    /\ UNCHANGED <<env, threshold, dealers, dealings, vkShares, previous,
                   proposals>>

TryTriggerReset ==
    /\ "reset" \in env.admin
    /\ epoch.state = "InProgress"
    /\ NextEpoch(FALSE)

TryTriggerResharing ==
    /\ "resharing" \in env.admin
    /\ epoch.state = "InProgress"
    /\ NextEpoch(TRUE)

-----------------------------------------------------------------------------
(* The transactions of the dealers *)

CheckEpochState(state, resharing) ==
    /\ epoch.state = state
    /\ epoch.resharing = resharing

TryAddDealer(d, resharing) ==
    /\ CheckEpochState("PublicKeySubmission", resharing)
    /\ d \in env.group
    /\ d \notin dealers
    /\ dealers' = dealers \cup {d}
    /\ epoch' = [epoch EXCEPT
            !.registered_dealers = @ + 1,
            !.registered_resharing_dealers =
                IF resharing /\ d \in previous.dealers THEN @ + 1 ELSE @]
    /\ UNCHANGED <<env, threshold, dealings, vkShares, previous, proposals>>

EnsurePermission(d, resharing) ==
    /\ CheckEpochState("DealingExchange", resharing)
    /\ d \in dealers
    /\ resharing => d \in previous.dealers

TrySubmitDealingsMetadata(d, i, resharing, secret) ==
    /\ EnsurePermission(d, resharing)
    /\ dealings[d].parts[i] = None
    /\ dealings' = [dealings EXCEPT ![d].parts[i] = {}, ![d].secret = secret]
    /\ UNCHANGED <<env, epoch, threshold, dealers, vkShares, previous,
                   proposals>>

\* mutant: every chunk counts as a dealing
TryCommitDealingsChunkEach(d, i, c) ==
    /\ dealings[d].parts[i] # None
    /\ c \notin dealings[d].parts[i]
    /\ dealings' = [dealings EXCEPT ![d].parts[i] = @ \cup {c}]
    /\ epoch' = [epoch EXCEPT !.submitted_dealings = @ + 1]
    /\ UNCHANGED <<env, threshold, dealers, vkShares, previous, proposals>>

\* asks only for the metadata: a chunk may arrive in any later state
TryCommitDealingsChunk(d, i, c) ==
    /\ dealings[d].parts[i] # None
    /\ c \notin dealings[d].parts[i]
    /\ dealings' = [dealings EXCEPT ![d].parts[i] = @ \cup {c}]
    /\ epoch' = [epoch EXCEPT !.submitted_dealings =
                    IF dealings'[d].parts[i] = Chunk THEN @ + 1 ELSE @]
    /\ UNCHANGED <<env, threshold, dealers, vkShares, previous, proposals>>

\* the message to the multisig, to_cosmos_msg, names the owner and the kind of
\* exchange but not the epoch
TryCommitVerificationKeyShare(d, resharing, key) ==
    /\ CheckEpochState("VerificationKeySubmission", resharing)
    /\ d \in dealers
    /\ vkShares[d] = None
    /\ vkShares' = [vkShares EXCEPT ![d] = [key |-> key, verified |-> FALSE]]
    /\ epoch' = [epoch EXCEPT !.submitted_key_shares = @ + 1]
    /\ proposals' = Append(proposals,
            [owner |-> d, resharing |-> resharing, status |-> "Open",
             yes |-> {}, no |-> {}])
    /\ UNCHANGED <<env, threshold, dealers, dealings, previous>>

\* cw3's Proposal::update_status: the first of the two outcomes is final; a
\* proposal may get neither
UpdateStatus(p) ==
    [p EXCEPT !.status =
        IF @ # "Open" THEN @
        ELSE IF Cardinality(p.yes) >= MultisigThreshold THEN "Passed"
        ELSE IF Cardinality(p.no) > MultisigVeto
             THEN "Rejected" ELSE "Open"]

ExecuteVote(d, id, vote) ==
    LET p == proposals[id] IN
    /\ p.status \in {"Open", "Passed", "Rejected"}
    /\ d \in env.group \ (p.yes \cup p.no)
    /\ proposals' = [proposals EXCEPT ![id] = UpdateStatus(
            IF vote THEN [p EXCEPT !.yes = @ \cup {d}]
                    ELSE [p EXCEPT !.no = @ \cup {d}])]
    /\ UNCHANGED <<env, epoch, threshold, dealers, dealings, vkShares,
                   previous>>

TryVerifyVerificationKeyShare(owner, resharing) ==
    /\ CheckEpochState("VerificationKeyFinalization", resharing)
    /\ vkShares[owner] # None
    /\ vkShares' = [vkShares EXCEPT ![owner].verified = TRUE]
    /\ epoch' = [epoch EXCEPT !.verified_keys = @ + 1]

\* the message of the proposal runs in the same transaction
ExecuteExecute(id) ==
    /\ proposals[id].status = "Passed"
    /\ TryVerifyVerificationKeyShare(proposals[id].owner,
                                     proposals[id].resharing)
    /\ proposals' = [proposals EXCEPT ![id].status = "Executed"]
    /\ UNCHANGED <<env, threshold, dealers, dealings, previous>>

=============================================================================
