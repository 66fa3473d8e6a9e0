--------------------------- MODULE DkgController ---------------------------
(***************************************************************************)
(* The DKG controllers of the nym-apis (nym-api/src/coconut/dkg) together  *)
(* with the contracts of DkgEpoch.  A controller polls the contract and    *)
(* runs the handler of the state it finds.  Each handler may be cut short  *)
(* at every transaction it sends and is run again at the next poll, from   *)
(* what it kept in memory, or, after a crash, from what it kept on disk.   *)
(*                                                                         *)
(* Faults: a transaction may get stuck in the mempool, so that the handler *)
(* fails and the transaction is executed later or never; a nym-api may     *)
(* crash and start again; a query may fail after the handler has changed   *)
(* its state.  An account's transactions carry sequence numbers, so a      *)
(* stuck transaction is dead once another of the same account has gone     *)
(* through.                                                                *)
(***************************************************************************)
EXTENDS DkgEpoch

VARIABLES
    mem,        \* per nym-api: the DkgState of the last epoch it initialised
    disk,       \* the same, as last persisted
    key,        \* the coconut keypair in memory, or None
    keyFile,    \* the coconut keypair on disk, or None
    valid,      \* KeyPair::valid: the keypair may issue credentials
    pc,         \* what the handler is in the middle of
    mempool,    \* per nym-api: the stuck transaction, or None
    faults      \* the stuck transactions and crashes still to come

local == <<mem, disk, key, keyFile, valid, pc>>
vars == <<chain, local, mempool, faults>>

-----------------------------------------------------------------------------

NoVotes == [p \in {} |-> TRUE]

\* DkgState::default, with the epoch it is stored under.  cached: the dealers
\* have been stored by set_dealers; generated: None, or the key whose secret
\* the generated dealings share, None being a fresh secret
DkgStateDefault(id) ==
    [epoch_id |-> id, registered |-> FALSE, cached |-> FALSE,
     generated |-> None, dealt |-> FALSE, derived |-> "none",
     partials |-> None, proposal |-> 0, votes |-> NoVotes,
     validated |-> FALSE, finalized |-> FALSE]

ControllerInit ==
    /\ Init
    /\ mem = [n \in Dealer |-> DkgStateDefault(None)]
    /\ disk = mem
    /\ key = [n \in Dealer |-> None]
    /\ keyFile = key
    /\ valid = [n \in Dealer |-> FALSE]
    /\ pc = [n \in Dealer |-> "idle"]
    /\ mempool = [n \in Dealer |-> None]
    /\ faults = [stuck |-> env.stuck, crashes |-> env.crashes]

\* handle_epoch_state: the handler of this state runs; every handler but the
\* first fails without the DkgState of the current epoch
Polls(n, state) ==
    /\ n \in env.group
    /\ pc[n] = "idle"
    /\ epoch.state = state
    /\ state # "PublicKeySubmission" => mem[n].epoch_id = epoch.epoch_id

Execute(n, tx) ==
    \/ tx.op = "register" /\ TryAddDealer(n, tx.resharing)
    \/ tx.op = "metadata"
       /\ TrySubmitDealingsMetadata(n, tx.index, tx.resharing, tx.secret)
    \/ tx.op = "chunk" /\ TryCommitDealingsChunk(n, tx.index, tx.chunk)
    \/ tx.op = "share" /\ TryCommitVerificationKeyShare(n, tx.resharing, tx.key)
    \/ tx.op = "vote" /\ ExecuteVote(n, tx.id, tx.vote)
    \/ tx.op = "execute" /\ ExecuteExecute(tx.id)

\* the transaction is executed and the handler learns of it
Send(n, tx) ==
    /\ Execute(n, tx)
    /\ mempool' = [mempool EXCEPT ![n] = None]
    /\ UNCHANGED faults

\* the transaction is broadcast but the handler gets an error
GetsStuck(n, tx) ==
    /\ n \in env.faulty
    /\ faults.stuck > 0
    /\ faults' = [faults EXCEPT !.stuck = @ - 1]
    /\ mempool' = [mempool EXCEPT ![n] = tx]
    /\ UNCHANGED chain

\* a step of a handler that sends nothing
NoTx == UNCHANGED <<chain, mempool, faults>>

Remember(n, m) == mem' = [mem EXCEPT ![n] = m] /\ UNCHANGED disk
\* ... and persist_state
Persist(n, m) == mem' = [mem EXCEPT ![n] = m] /\ disk' = [disk EXCEPT ![n] = m]
At(n, l) == pc' = [pc EXCEPT ![n] = l]

-----------------------------------------------------------------------------
(* public_key_submission *)


PublicKeySubmission(n) ==
    LET m == IF mem[n].epoch_id = epoch.epoch_id THEN mem[n]
             ELSE DkgStateDefault(epoch.epoch_id)
        done == [m EXCEPT !.registered = TRUE]
        tx == [op |-> "register", resharing |-> epoch.resharing]
    IN
    /\ Polls(n, "PublicKeySubmission")
    /\ ~m.registered
    /\ valid' = [valid EXCEPT ![n] = FALSE]
    /\ \/ n \in dealers /\ NoTx /\ Persist(n, done)
       \/ n \notin dealers /\ Send(n, tx) /\ Persist(n, done)
       \/ n \notin dealers /\ GetsStuck(n, tx) /\ Remember(n, m)
    /\ UNCHANGED <<key, keyFile, pc>>

-----------------------------------------------------------------------------
(* dealing_exchange *)

DealingExchangeDue(n) ==
    /\ Polls(n, "DealingExchange")
    /\ mem[n].registered
    /\ ~mem[n].dealt

\* what the dealings are to share: handle_resharing_with_prior_key lets only
\* a key of the previous epoch be shared again
SecretToDeal(n) ==
    IF ~epoch.resharing THEN [key |-> None]
    ELSE IF /\ key[n] # None
            /\ n \in previous.dealers
            /\ key[n].epoch_id = epoch.epoch_id - 1
         THEN [key |-> key[n]]
         ELSE None

\* up to the first transaction, or up to archiving the prior key
GenerateDealings(n) ==
    LET m == [mem[n] EXCEPT !.cached = TRUE, !.generated = SecretToDeal(n)] IN
    /\ DealingExchangeDue(n)
    /\ mem[n].generated = None
    /\ ~mem[n].cached
    /\ \/ key[n] # None /\ Persist(n, m) /\ At(n, "archiving")
       \/ key[n] = None /\ m.generated # None /\ Persist(n, m) /\ At(n, "dealing")
       \/ /\ key[n] = None /\ m.generated = None
          /\ Persist(n, [m EXCEPT !.dealt = TRUE])
          /\ UNCHANGED pc
    /\ key' = [key EXCEPT ![n] = None]
    /\ NoTx
    /\ UNCHANGED <<keyFile, valid>>

ArchiveKey(n) ==
    /\ pc[n] = "archiving"
    /\ keyFile' = [keyFile EXCEPT ![n] = None]
    /\ IF mem[n].generated = None
       THEN Persist(n, [mem[n] EXCEPT !.dealt = TRUE]) /\ At(n, "idle")
       ELSE At(n, "dealing") /\ UNCHANGED <<mem, disk>>
    /\ NoTx
    /\ UNCHANGED <<key, valid>>

\* a query fails between set_dealers and the end of generate_dealings, before
\* or after the keypair has been taken
GenerateDealingsFails(n) ==
    /\ n \in env.faulty
    /\ faults.stuck > 0
    /\ faults' = [faults EXCEPT !.stuck = @ - 1]
    /\ DealingExchangeDue(n)
    /\ mem[n].generated = None
    /\ ~mem[n].cached
    /\ Remember(n, [mem[n] EXCEPT !.cached = TRUE])
    /\ \/ key' = [key EXCEPT ![n] = None]
       \/ UNCHANGED key
    /\ UNCHANGED <<chain, mempool, keyFile, valid, pc>>

ResubmitPregeneratedDealings(n) ==
    /\ DealingExchangeDue(n)
    /\ mem[n].generated # None
    /\ At(n, "dealing")
    /\ NoTx
    /\ UNCHANGED <<mem, disk, key, keyFile, valid>>

\* the transactions that the next missing piece of the dealings takes
DealingTxs(n) ==
    {[op |-> "metadata", index |-> i, resharing |-> epoch.resharing,
      secret |-> mem[n].generated] :
        i \in {j \in Index : dealings[n].parts[j] = None}}
    \cup
    {[op |-> "chunk", index |-> ic[1], chunk |-> ic[2]] :
        ic \in {jd \in Index \X Chunk :
                    /\ dealings[n].parts[jd[1]] # None
                    /\ jd[2] \notin dealings[n].parts[jd[1]]}}

SubmitDealing(n) ==
    /\ pc[n] = "dealing"
    /\ mem[n].epoch_id = epoch.epoch_id
    /\ \E tx \in DealingTxs(n) :
        \/ Send(n, tx) /\ UNCHANGED pc
        \/ GetsStuck(n, tx) /\ At(n, "idle")
    /\ UNCHANGED <<mem, disk, key, keyFile, valid>>

\* the exchange has moved on: the next metadata is refused
SubmitDealingRefused(n) ==
    /\ pc[n] = "dealing"
    /\ \/ mem[n].epoch_id # epoch.epoch_id
       \/ /\ ~EnsurePermission(n, epoch.resharing)
          /\ \E i \in Index : dealings[n].parts[i] = None
    /\ At(n, "idle")
    /\ NoTx
    /\ UNCHANGED <<mem, disk, key, keyFile, valid>>

DealingsSubmitted(n) ==
    /\ pc[n] = "dealing"
    /\ mem[n].epoch_id = epoch.epoch_id
    /\ Complete(n)
    /\ Persist(n, [mem[n] EXCEPT !.dealt = TRUE])
    /\ At(n, "idle")
    /\ NoTx
    /\ UNCHANGED <<key, keyFile, valid>>

-----------------------------------------------------------------------------
(* verification_key_submission *)

VerificationKeySubmissionDue(n) ==
    /\ Polls(n, "VerificationKeySubmission")
    /\ mem[n].derived = "none"
    /\ mem[n].dealt

\* get_validation_proposals: the highest open proposal of the owner, of any
\* epoch, or 0
ValidationProposal(owner) ==
    LET open == {p \in 1..Len(proposals) :
                    /\ proposals[p].owner = owner
                    /\ proposals[p].status = "Open"}
    IN  IF open = {} THEN 0 ELSE CHOOSE p \in open : \A q \in open : q <= p

\* mutant: the ids of the multisig are taken to start from zero
CompleteWithProposalFromZero(n, p) ==
    Persist(n, [mem[n] EXCEPT !.derived = "ok", !.proposal = p - 1])

CompleteWithProposal(n, p) ==
    Persist(n, [mem[n] EXCEPT !.derived = "ok", !.proposal = p])

\* maybe_recover_proposal_id
RecoverProposalId(n) ==
    /\ VerificationKeySubmissionDue(n)
    /\ vkShares[n] # None
    /\ ValidationProposal(n) # 0
    /\ CompleteWithProposal(n, ValidationProposal(n))
    /\ NoTx
    /\ UNCHANGED <<key, keyFile, valid, pc>>

\* maybe_submit_already_generated_keys; a key of another epoch is an error
SubmitAlreadyGeneratedKeys(n) ==
    LET tx == [op |-> "share", resharing |-> epoch.resharing, key |-> key[n]] IN
    /\ VerificationKeySubmissionDue(n)
    /\ vkShares[n] = None
    /\ key[n] # None
    /\ key[n].epoch_id = epoch.epoch_id
    /\ \/ Send(n, tx) /\ CompleteWithProposal(n, Len(proposals'))
       \/ GetsStuck(n, tx) /\ UNCHANGED <<mem, disk>>
    /\ UNCHANGED <<key, keyFile, valid, pc>>

\* get_valid_dealings: in a resharing, only of dealers whose share of the
\* previous epoch was verified, and sharing the key of that share
ValidDealers ==
    {d \in dealers :
        /\ Complete(d)
        /\ epoch.resharing =>
            /\ previous.vkShares[d] # None
            /\ previous.vkShares[d].verified
            /\ dealings[d].secret.key = previous.vkShares[d].key}

\* derive_partial_keypair
DerivedKey(from) == [epoch_id |-> epoch.epoch_id, from |-> from]

\* mutant: the key is not persisted before it is submitted
DerivePartialKeypairUnsaved(n) ==
    /\ VerificationKeySubmissionDue(n)
    /\ vkShares[n] = None
    /\ key[n] = None
    /\ \/ /\ ValidDealers = {} \/ Cardinality(ValidDealers) < threshold
          /\ Persist(n, [mem[n] EXCEPT !.derived = "failed"])
          /\ UNCHANGED pc
       \/ /\ ValidDealers # {} /\ Cardinality(ValidDealers) >= threshold
          /\ Remember(n, [mem[n] EXCEPT !.partials = ValidDealers])
          /\ At(n, "submitting")
    /\ NoTx
    /\ UNCHANGED <<key, keyFile, valid>>

DerivePartialKeypair(n) ==
    /\ VerificationKeySubmissionDue(n)
    /\ vkShares[n] = None
    /\ key[n] = None
    /\ \/ /\ ValidDealers = {} \/ Cardinality(ValidDealers) < threshold
          /\ Persist(n, [mem[n] EXCEPT !.derived = "failed"])
          /\ UNCHANGED <<keyFile, pc>>
       \/ /\ ValidDealers # {} /\ Cardinality(ValidDealers) >= threshold
          /\ Remember(n, [mem[n] EXCEPT !.partials = ValidDealers])
          /\ keyFile' = [keyFile EXCEPT ![n] = DerivedKey(ValidDealers)]
          /\ At(n, "submitting")
    /\ NoTx
    /\ UNCHANGED <<key, valid>>

\* the keypair reaches the memory only after the transaction has succeeded
SubmitPartialVerificationKey(n) ==
    LET derived == DerivedKey(mem[n].partials)
        tx == [op |-> "share", resharing |-> epoch.resharing, key |-> derived]
    IN
    /\ pc[n] = "submitting"
    /\ \/ /\ Send(n, tx)
          /\ key' = [key EXCEPT ![n] = derived]
          /\ CompleteWithProposal(n, Len(proposals'))
       \/ GetsStuck(n, tx) /\ UNCHANGED <<mem, disk, key>>
       \/ /\ \/ epoch.state # "VerificationKeySubmission"
             \/ n \notin dealers
             \/ vkShares[n] # None
          /\ NoTx
          /\ UNCHANGED <<mem, disk, key>>
    /\ At(n, "idle")
    /\ UNCHANGED <<keyFile, valid>>

-----------------------------------------------------------------------------
(* verification_key_validation *)

\* mutant: any key of this epoch is accepted
VerifyShareEpoch(n, owner) == vkShares[owner].key.epoch_id = epoch.epoch_id

\* verify_share: the share was derived from the dealings we used ourselves;
\* a node that no longer has the partial keys it derived rejects every share
VerifyShare(n, owner) == mem[n].partials = vkShares[owner].key.from

GenerateVotes(n) ==
    LET owners == {o \in Shared :
                    /\ ValidationProposal(o) # 0
                    /\ o = n \/ ~vkShares[o].verified}
        owner(p) == proposals[p].owner
    IN  [p \in {ValidationProposal(o) : o \in owners} |->
            owner(p) = n \/ VerifyShare(n, owner(p))]

\* the votes are generated once and kept in memory, and sent or sent again
VerificationKeyValidation(n) ==
    /\ Polls(n, "VerificationKeyValidation")
    /\ ~mem[n].validated
    /\ mem[n].derived = "ok"
    /\ Remember(n, [mem[n] EXCEPT !.votes =
                        IF @ = NoVotes THEN GenerateVotes(n) ELSE @])
    /\ At(n, "voting")
    /\ NoTx
    /\ UNCHANGED <<key, keyFile, valid>>

VotesDue(n) ==
    {p \in DOMAIN mem[n].votes : n \notin proposals[p].yes \cup proposals[p].no}

VoteVerificationKeyShare(n) ==
    /\ pc[n] = "voting"
    /\ \E p \in VotesDue(n) :
        LET tx == [op |-> "vote", id |-> p, vote |-> mem[n].votes[p]] IN
        \/ Send(n, tx) /\ UNCHANGED pc
        \/ GetsStuck(n, tx) /\ At(n, "idle")
        \/ proposals[p].status = "Executed" /\ NoTx /\ At(n, "idle")
    /\ UNCHANGED <<mem, disk, key, keyFile, valid>>

VotesSubmitted(n) ==
    /\ pc[n] = "voting"
    /\ VotesDue(n) = {}
    /\ Persist(n, [mem[n] EXCEPT !.validated = TRUE])
    /\ At(n, "idle")
    /\ NoTx
    /\ UNCHANGED <<key, keyFile, valid>>

-----------------------------------------------------------------------------
(* verification_key_finalization *)

VerificationKeyFinalization(n) ==
    LET status == proposals[mem[n].proposal].status
        done == [mem[n] EXCEPT !.finalized = TRUE]
        tx == [op |-> "execute", id |-> mem[n].proposal]
        validate == valid' = [valid EXCEPT ![n] = TRUE]
    IN
    /\ Polls(n, "VerificationKeyFinalization")
    /\ ~mem[n].finalized
    /\ mem[n].validated
    /\ \/ status = "Rejected" /\ NoTx /\ Remember(n, done) /\ UNCHANGED valid
       \/ status = "Passed" /\ Send(n, tx) /\ Persist(n, done) /\ validate
       \/ status = "Passed" /\ GetsStuck(n, tx) /\ UNCHANGED <<mem, disk, valid>>
       \/ status = "Executed" /\ NoTx /\ Persist(n, done) /\ validate
    /\ UNCHANGED <<key, keyFile, pc>>

-----------------------------------------------------------------------------
(* The end of a poll, time, faults *)

\* the handler of the current state returns Ok, without which the poll ends
HandlerSucceeds(n) ==
    LET m == mem[n] IN
    /\ n \in env.group
    /\ pc[n] = "idle"
    /\ \/ epoch.state = "InProgress"
       \/ /\ m.epoch_id = epoch.epoch_id
          /\ \/ epoch.state = "PublicKeySubmission" /\ m.registered
             \/ epoch.state = "DealingExchange" /\ m.dealt
             \/ /\ epoch.state = "VerificationKeySubmission"
                /\ m.derived = "failed" \/ (m.derived = "ok" /\ key[n] # None)
             \/ epoch.state = "VerificationKeyValidation" /\ m.validated
             \/ epoch.state = "VerificationKeyFinalization" /\ m.finalized

\* there is something the handler of the current state has still to do
Busy(n) ==
    LET m == mem[n] IN
    \/ pc[n] # "idle"
    \/ /\ epoch.state = "PublicKeySubmission"
       /\ m.epoch_id # epoch.epoch_id \/ ~m.registered
    \/ epoch.state = "DealingExchange" /\ ~m.dealt
    \/ epoch.state = "VerificationKeySubmission" /\ m.derived = "none"
    \/ /\ epoch.state = "VerificationKeyValidation"
       /\ m.derived = "ok" /\ ~m.validated
    \/ /\ epoch.state = "VerificationKeyFinalization"
       /\ m.validated /\ ~m.finalized
       /\ proposals[m.proposal].status # "Open"

\* no state ends while a member that is not slow still works in it
Timely == \A n \in env.group \ env.slow : ~Busy(n)

AdvanceDkgState(n) ==
    /\ HandlerSucceeds(n)
    /\ Timely
    /\ TryAdvanceEpochState
    /\ UNCHANGED <<local, mempool, faults>>

TimePasses ==
    /\ Timely
    /\ DeadlinePasses
    /\ UNCHANGED <<local, mempool, faults>>

Admin ==
    /\ TryInitiateDkg \/ TryTriggerReset \/ TryTriggerResharing
    /\ UNCHANGED <<local, mempool, faults>>

StuckTxExecutes(n) ==
    /\ mempool[n] # None
    /\ Execute(n, mempool[n])
    /\ mempool' = [mempool EXCEPT ![n] = None]
    /\ UNCHANGED <<local, faults>>

\* can_validate_coconut_keys
CanValidateCoconutKeys(n) ==
    /\ keyFile[n] # None
    /\ keyFile[n].epoch_id = epoch.epoch_id
    /\ epoch.state \in {"InProgress", "VerificationKeyFinalization"}

\* the process starts from its files
Restart(n) ==
    /\ mem' = [mem EXCEPT ![n] = disk[n]]
    /\ key' = [key EXCEPT ![n] = keyFile[n]]
    /\ valid' = [valid EXCEPT ![n] = CanValidateCoconutKeys(n)]
    /\ At(n, "idle")
    /\ UNCHANGED <<disk, keyFile, chain, mempool>>

Crash(n) ==
    /\ n \in env.faulty
    /\ faults.crashes > 0
    /\ faults' = [faults EXCEPT !.crashes = @ - 1]
    /\ Restart(n)

\* set_dealers asserts that the dealers were not stored before: the process
\* is aborted
SetDealersPanics(n) ==
    /\ DealingExchangeDue(n)
    /\ mem[n].generated = None
    /\ mem[n].cached
    /\ Restart(n)
    /\ UNCHANGED faults

Handlers(n) ==
    \/ PublicKeySubmission(n)
    \/ GenerateDealings(n)
    \/ ArchiveKey(n)
    \/ GenerateDealingsFails(n)
    \/ SetDealersPanics(n)
    \/ ResubmitPregeneratedDealings(n)
    \/ SubmitDealing(n)
    \/ SubmitDealingRefused(n)
    \/ DealingsSubmitted(n)
    \/ RecoverProposalId(n)
    \/ SubmitAlreadyGeneratedKeys(n)
    \/ DerivePartialKeypair(n)
    \/ SubmitPartialVerificationKey(n)
    \/ VerificationKeyValidation(n)
    \/ VoteVerificationKeyShare(n)
    \/ VotesSubmitted(n)
    \/ VerificationKeyFinalization(n)
    \/ AdvanceDkgState(n)

SystemStep == TimePasses \/ \E n \in Dealer : Handlers(n)

Next ==
    \/ SystemStep
    \/ Admin
    \/ \E n \in Dealer : StuckTxExecutes(n) \/ Crash(n)

Spec == ControllerInit /\ [][Next]_vars /\ WF_vars(SystemStep)

-----------------------------------------------------------------------------

\* Type correctness: the contract's epoch, the members' handlers and the ids
\* of the proposals that the members keep, which are ids the multisig gave out.
TypeOK ==
    /\ epoch.state \in {EpochStates[i] : i \in 1..7}
    /\ epoch.epoch_id \in 0..env.last
    /\ dealers \subseteq env.group
    /\ \A p \in 1..Len(proposals) :
        proposals[p].status \in {"Open", "Passed", "Rejected", "Executed"}
    /\ \A n \in Dealer :
        /\ mem[n].derived \in {"none", "ok", "failed"}
        /\ pc[n] \in {"idle", "archiving", "dealing", "submitting", "voting"}
        /\ mem[n].derived = "ok" => mem[n].proposal \in 1..Len(proposals)
        /\ DOMAIN mem[n].votes \subseteq 1..Len(proposals)

\* The counters of StateProgress, which decide when a state is complete and
\* whether the exchange is started over, agree with what the contract has
\* stored.  verified_keys is raised by every executed proposal without looking
\* at the share (try_verify_verification_key_share), so it is right only as
\* long as the members execute no proposal of an older epoch, although
\* proposals are not tied to epochs and stay in the multisig.
ProgressMatchesStorage ==
    /\ epoch.registered_dealers = Cardinality(dealers)
    /\ epoch.registered_resharing_dealers =
        IF epoch.resharing THEN Cardinality(dealers \cap previous.dealers) ELSE 0
    /\ epoch.submitted_dealings = Cardinality(
        {di \in Dealer \X Index : dealings[di[1]].parts[di[2]] = Chunk})
    /\ epoch.submitted_key_shares = Cardinality(Shared)
    /\ epoch.verified_keys = Cardinality(Verified)

\* The verified keys of an epoch were derived from the same dealings, so that
\* they are shares of one key, as far as they are the keys their owners kept.
\* try_commit_dealings_chunk accepts chunks after the exchange of dealings has
\* ended, and members that derive their key before and after such a chunk get
\* keys that do not fit: it is the votes on the shares that keep one of the
\* two kinds from being verified.  A member votes for its own share unseen,
\* and maybe_recover_proposal_id does not compare the share it finds with the
\* key on disk: of a member whose stuck share was executed after it had
\* derived its key anew, the share may be verified with those of both kinds.
VerifiedKeysAgree ==
    \A d1, d2 \in {d \in Verified : keyFile[d] = vkShares[d].key} :
        vkShares[d1].key.from = vkShares[d2].key.from

\* A member whose share is in the contract has a key of this epoch on disk,
\* whatever crashed or got lost (verification_key_submission persists the
\* keypair before it sends the share, and a key of an older epoch is never
\* sent).
KeyPersisted ==
    \A n \in Shared :
        keyFile[n] # None /\ keyFile[n].epoch_id = epoch.epoch_id

\* Every member's key is verified and on its disk.
Completed ==
    /\ epoch.state = "InProgress"
    /\ Verified = env.group
    /\ \A n \in env.group : keyFile[n] = vkShares[n].key

\* The member has submitted its share, and has lost the partial keys it would
\* compare the others' shares with.
LostPartials(n) ==
    /\ mem[n].epoch_id = epoch.epoch_id
    /\ mem[n].derived = "ok"
    /\ mem[n].partials = None


=============================================================================
