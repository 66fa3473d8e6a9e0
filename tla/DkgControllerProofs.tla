------------------------ MODULE DkgControllerProofs ------------------------
(***************************************************************************)
(* Proofs about DkgController: the counters of the contract match its      *)
(* storage, a member whose share is in the contract has a key on disk, and *)
(* the verified keys fit together.                                         *)
(***************************************************************************)
EXTENDS DkgControllerSteps

\* Time for the leaves that expand much.
USE SMTT(30), ZenonT(30)

-----------------------------------------------------------------------------
(* The handlers with their transactions.                                   *)

\* The transaction a member registers with.
LEMMA RegisterStep ==
    ASSUME IInv, NEW n \in Dealer, PublicKeySubmission(n)
    PROVE  IInv'
<1> SUFFICES ASSUME TypeInv, DkgInv PROVE TypeInv' /\ DkgInv'
  BY Zenon DEF IInv
<1>1. PICK m : m = StartOf(n)
  BY Zenon
<1>2. PICK done : done = [m EXCEPT !.registered = TRUE]
  BY ZenonT(30)
<1>3. PICK tx : tx = [op |-> "register", resharing |-> epoch.resharing]
  BY ZenonT(30)
<1>4. /\ Polls(n, "PublicKeySubmission") /\ ~m.registered /\ UNCHANGED <<key, keyFile, pc>>
      /\ \/ n \in dealers /\ NoTx /\ Persist(n, done)
         \/ n \notin dealers /\ Send(n, tx) /\ Persist(n, done)
         \/ n \notin dealers /\ GetsStuck(n, tx) /\ Remember(n, m)
  BY Zenon, <1>1, <1>2, <1>3 DEF PublicKeySubmission, StartOf
<1>5. CASE n \in dealers /\ NoTx /\ Persist(n, done)
  BY <1>1, <1>2, <1>4, <1>5, FindsRegisteredStep DEF IInv
<1>6. CASE n \notin dealers /\ GetsStuck(n, tx) /\ Remember(n, m)
  BY <1>1, <1>3, <1>4, <1>6, RegistrationStuckStep DEF IInv
<1>7. CASE n \notin dealers /\ Send(n, tx) /\ Persist(n, done)
  <2>1. /\ MemType(m) /\ Ordered(m) /\ m.epoch_id = epoch.epoch_id
        /\ ~m.dealt /\ m.derived = "none" /\ m.partials = None
        /\ DOMAIN m.votes \subseteq DOMAIN mem[n].votes
        /\ \A p \in DOMAIN m.votes : m.votes[p] = mem[n].votes[p]
        /\ ~(Current(mem[n]) /\ mem[n].dealt)
    BY <1>1, <1>4, StartState DEF IInv
  <2>2. /\ MemType(done) /\ done.registered /\ done.epoch_id = m.epoch_id /\ done.dealt = m.dealt
        /\ done.derived = m.derived /\ done.partials = m.partials /\ done.votes = m.votes
        /\ done.validated = m.validated /\ done.proposal = m.proposal
    BY ZenonT(30), <1>2, <2>1 DEF MemType
  <2>3. TryAddDealer(n, epoch.resharing)
    BY Zenon, <1>3, <1>7 DEF Send, Execute
  <2>4. /\ Only(n) /\ mem'[n] = done /\ disk'[n] = done /\ key'[n] = key[n] /\ keyFile'[n] = keyFile[n]
        /\ pc'[n] = "idle" /\ mempool'[n] = None
    BY ZenonT(30), <1>4, <1>7 DEF TypeInv, NodeType, Shaped, Only, Keeps, Persist, Send, Polls
  <2>5. /\ UNCHANGED <<env, vkShares, proposals>> /\ dealers' = dealers \cup {n}
    BY Zenon, <2>3 DEF TryAddDealer
  <2>6. epoch'.epoch_id = epoch.epoch_id
    <3>1. PICK x, y : epoch' = [epoch EXCEPT !.registered_dealers = x, !.registered_resharing_dealers = y]
      BY ZenonT(30), <2>3 DEF TryAddDealer
    <3> QED
      BY Zenon, <3>1 DEF TypeInv, ChainType, Epochs
  <2>7. Keyed(n) /\ LocalType(n)
    BY Zenon DEF DkgInv, NodeInv, Node, TypeInv, NodeType
  <2>8. LocalType(n)'
    BY <2>2, <2>4, <2>7 DEF LocalType, Labels, MemType
  <2>9. Tracked(n)'
    BY Zenon, <2>1, <2>2, <2>4, <2>5, <2>6 DEF Tracked, Ordered, Current
  <2>10. UnderWay(n)' /\ Keyed(n)' /\ Stuck(n)'
    BY Zenon, <2>4, <2>6, <2>7 DEF UnderWay, Keyed, Stuck, HasKey
  <2>11. \A p \in 1..Len(proposals) :
             (Votes(n, p)' => Votes(n, p)) /\ (VotesYes(n, p)' => VotesYes(n, p))
    BY <2>1, <2>2, <2>4, <2>5 DEF Votes, VotesYes
  <2> QED
    BY <2>3, <2>4, <2>8, <2>9, <2>10, <2>11, RegisterTxStep DEF IInv, Node
<1> QED
  BY <1>4, <1>5, <1>6, <1>7

\* Metadata and chunks, sent or stuck.
LEMMA SubmitDealingStep ==
    ASSUME IInv, NEW n \in Dealer, SubmitDealing(n)
    PROVE  IInv'
<1> SUFFICES ASSUME TypeInv, DkgInv PROVE TypeInv' /\ DkgInv'
  BY Zenon DEF IInv
<1>1. UNCHANGED <<mem, disk, key, keyFile>> /\ pc[n] = "dealing"
  BY Zenon DEF SubmitDealing
<1>2. PICK tx \in DealingTxs(n) : \/ Send(n, tx) /\ UNCHANGED pc
                                  \/ GetsStuck(n, tx) /\ At(n, "idle")
  BY Zenon DEF SubmitDealing
<1>3. \/ tx.op = "metadata" /\ tx.index \in Index
      \/ tx.op = "chunk" /\ tx.index \in Index /\ tx.chunk \in Chunk
  BY DEF DealingTxs
<1>4. CASE Send(n, tx) /\ UNCHANGED pc
  <2>1. AllKeep
    BY Zenon, <1>1, <1>4 DEF AllKeep, Keeps, TypeInv, NodeType, Shaped, Send
  <2>2. CASE TrySubmitDealingsMetadata(n, tx.index, tx.resharing, tx.secret) /\ tx.op = "metadata"
    <3>1. ChainType' /\ ProgressMatchesStorage'
      BY Zenon, <1>3, <2>2, MetadataChain DEF TypeInv, DkgInv
    <3> QED
      BY Zenon, <2>1, <2>2, <3>1, DealingTxStep DEF IInv, TrySubmitDealingsMetadata
  <2>3. CASE TryCommitDealingsChunk(n, tx.index, tx.chunk) /\ tx.op = "chunk"
    <3>1. ChainType' /\ ProgressMatchesStorage'
      BY Zenon, <1>3, <2>3, ChunkChain DEF TypeInv, DkgInv
    <3>2. PICK x : epoch' = [epoch EXCEPT !.submitted_dealings = x]
      BY ZenonT(30), <2>3 DEF TryCommitDealingsChunk
    <3>3. epoch'.epoch_id = epoch.epoch_id /\ epoch'.state = epoch.state
      BY Zenon, <3>2 DEF TypeInv, ChainType, Epochs
    <3> QED
      BY Zenon, <2>1, <2>3, <3>1, <3>3, DealingTxStep DEF IInv, TryCommitDealingsChunk
  <2> QED
    BY Zenon, <1>3, <1>4, <2>2, <2>3 DEF Send, Execute
<1>5. CASE GetsStuck(n, tx) /\ At(n, "idle")
  <2>1. Only(n) /\ pc'[n] = "idle" /\ mempool'[n] = tx /\ UNCHANGED chain
    BY ZenonT(30), <1>1, <1>5 DEF Only, Keeps, TypeInv, NodeType, Shaped, GetsStuck, At
  <2>2. TxType(tx)
    BY Zenon, <1>3 DEF TxType
  <2> QED
    BY <1>1, <1>3, <2>1, <2>2, StopStep DEF IInv
<1> QED
  BY Zenon, <1>2, <1>4, <1>5

\* A vote, sent or stuck.
LEMMA VoteStep ==
    ASSUME IInv, NEW n \in Dealer, VoteVerificationKeyShare(n)
    PROVE  IInv'
<1> SUFFICES ASSUME TypeInv, DkgInv PROVE TypeInv' /\ DkgInv'
  BY Zenon DEF IInv
<1>1. UNCHANGED <<mem, disk, key, keyFile>>
  BY Zenon DEF VoteVerificationKeyShare
<1>2. PICK p \in VotesDue(n) :
         LET tx == [op |-> "vote", id |-> p, vote |-> mem[n].votes[p]] IN
         \/ Send(n, tx) /\ UNCHANGED pc
         \/ GetsStuck(n, tx) /\ At(n, "idle")
         \/ proposals[p].status = "Executed" /\ NoTx /\ At(n, "idle")
  BY Zenon DEF VoteVerificationKeyShare
<1>3. PICK tx : tx = [op |-> "vote", id |-> p, vote |-> mem[n].votes[p]]
  BY ZenonT(30)
<1>4. \/ Send(n, tx) /\ UNCHANGED pc
      \/ GetsStuck(n, tx) /\ At(n, "idle")
      \/ NoTx /\ At(n, "idle")
  BY Zenon, <1>2, <1>3
<1>5. /\ p \in DOMAIN mem[n].votes /\ p \in 1..Len(proposals) /\ mem[n].votes[p] \in BOOLEAN
      /\ tx.op = "vote" /\ tx.id = p /\ tx.vote = mem[n].votes[p]
  <2>1. Ordered(mem[n]) /\ MemType(mem[n])
    BY Zenon DEF DkgInv, NodeInv, Node, Tracked, TypeInv, NodeType, LocalType
  <2> QED
    BY Zenon, <1>3, <2>1 DEF VotesDue, Ordered, MemType
<1>6. CASE Send(n, tx) /\ UNCHANGED pc
  <2>1. AllKeep
    BY Zenon, <1>1, <1>6 DEF AllKeep, Keeps, TypeInv, NodeType, Shaped, Send
  <2>2. ExecuteVote(n, p, mem[n].votes[p])
    BY Zenon, <1>5, <1>6 DEF Send, Execute
  <2>3. Votes(n, p) /\ (mem[n].votes[p] => VotesYes(n, p))
    BY Zenon, <1>5 DEF Votes, VotesYes
  <2> QED
    BY Zenon, <1>5, <2>1, <2>2, <2>3, VoteTxStep DEF IInv
<1>7. CASE GetsStuck(n, tx) /\ At(n, "idle")
  <2>1. Only(n) /\ pc'[n] = "idle" /\ mempool'[n] = tx /\ UNCHANGED chain
    BY ZenonT(30), <1>1, <1>7 DEF Only, Keeps, TypeInv, NodeType, Shaped, GetsStuck, At
  <2>2. TxType(tx)
    BY Zenon, <1>5 DEF TxType
  <2> QED
    BY Zenon, <1>1, <1>5, <2>1, <2>2, StopStep DEF IInv
<1>8. CASE NoTx /\ At(n, "idle")
  <2>1. Only(n) /\ pc'[n] = "idle" /\ mempool'[n] = mempool[n] /\ UNCHANGED chain
    BY Zenon, <1>1, <1>8 DEF Only, Keeps, TypeInv, NodeType, Shaped, NoTx, At
  <2> QED
    BY <1>1, <2>1, StopStep DEF IInv
<1> QED
  BY Zenon, <1>4, <1>6, <1>7, <1>8

\* The sender of a share learns of its proposal.
LEMMA ShareSent ==
    ASSUME IInv, NEW n \in Dealer, NEW r, NEW k \in Keys,
           TryCommitVerificationKeyShare(n, r, k),
           Only(n), Current(mem[n]), mem[n].dealt, HasKey(n),
           NEW x, x = [mem[n] EXCEPT !.derived = "ok", !.proposal = Len(proposals')],
           mem'[n] = x, disk'[n] = x, keyFile'[n] = keyFile[n], pc'[n] = "idle", mempool'[n] = None,
           key'[n] \in {key[n], DerivedKey(mem[n].partials)}, key'[n] \in Keys
    PROVE  IInv'
<1> SUFFICES ASSUME TypeInv, DkgInv PROVE TypeInv' /\ DkgInv'
  BY Zenon DEF IInv
<1>1. /\ epoch'.epoch_id = epoch.epoch_id /\ UNCHANGED <<env, dealers>>
      /\ n \in dealers /\ vkShares'[n] = [key |-> k, verified |-> FALSE] /\ n \in Shared'
      /\ Len(proposals) \in Nat /\ Len(proposals') = Len(proposals) + 1
      /\ \A p \in 1..Len(proposals) : proposals'[p] = proposals[p]
      /\ proposals'[Len(proposals) + 1].owner = n
  BY Zenon, ShareChain DEF TypeInv, DkgInv
<1>2. PICK l \in Nat : l = Len(proposals')
  BY <1>1
<1>3. l \in 1..Len(proposals') /\ 1..Len(proposals) \subseteq 1..Len(proposals')
  BY <1>1, <1>2
<1>4. IsLast(l, n)'
  BY <1>1, <1>2 DEF IsLast
<1>5. LocalType(n) /\ Tracked(n) /\ Keyed(n)
  BY Zenon DEF DkgInv, NodeInv, Node, TypeInv, NodeType
<1>6. MemType(mem[n]) /\ Ordered(mem[n])
  BY Zenon, <1>5 DEF LocalType, Tracked
<1>7. /\ MemType(x) /\ x.epoch_id = mem[n].epoch_id /\ x.registered = mem[n].registered
      /\ x.dealt = mem[n].dealt /\ x.derived = "ok" /\ x.proposal = l
      /\ x.partials = mem[n].partials /\ x.votes = mem[n].votes /\ x.validated = mem[n].validated
  <2>1. x = [mem[n] EXCEPT !.derived = "ok", !.proposal = l]
    BY Zenon, <1>2
  <2>2. MemType(mem[n]) /\ l \in Nat
    BY Zenon, <1>6
  <2> QED
    BY ONLY ZenonT(30), <2>1, <2>2 DEF MemType
<1>8. LocalType(n)'
  BY <1>5, <1>7 DEF LocalType, Labels, MemType
<1>9. Ordered(x)'
  BY Zenon, <1>1, <1>3, <1>6, <1>7 DEF Ordered
<1>10. HasKey(n)' /\ Dealt(n)'
  BY <1>1, <1>7 DEF HasKey, Dealt, Current
<1>11. Tracked(n)'
  <2>1. vkShares'[n] # None
    BY ZenonT(30), <1>1 DEF Shared
  <2> QED
    BY <1>1, <1>4, <1>5, <1>6, <1>7, <1>9, <1>10, <2>1 DEF Tracked, Current, IsLast, Ordered
<1>12. Keyed(n)'
  <2>1. key'[n].epoch_id <= epoch.epoch_id
    <3>1. CASE key'[n] = key[n]
      BY Zenon, <1>5, <3>1, NoneAssumption DEF Keyed, Keys
    <3>2. CASE key'[n] = DerivedKey(mem[n].partials)
      BY <3>2 DEF DerivedKey, TypeInv, ChainType, Epochs
    <3> QED
      BY Zenon, <3>1, <3>2
  <2> QED
    BY Zenon, <1>1, <1>5, <1>10, <2>1 DEF Keyed
<1>13. UnderWay(n)' /\ Stuck(n)'
  BY Zenon DEF UnderWay, Stuck
<1>14. \A p : Votes(n, p)' => Votes(n, p)
  BY Zenon, <1>7 DEF Votes
<1> QED
  BY <1>8, <1>10, <1>11, <1>12, <1>13, <1>14, ShareTxStep DEF IInv, Node

\* maybe_submit_already_generated_keys
LEMMA SubmitGeneratedStep ==
    ASSUME IInv, NEW n \in Dealer, SubmitAlreadyGeneratedKeys(n)
    PROVE  IInv'
<1> SUFFICES ASSUME TypeInv, DkgInv PROVE TypeInv' /\ DkgInv'
  BY Zenon DEF IInv
<1>1. PICK tx : tx = [op |-> "share", resharing |-> epoch.resharing, key |-> key[n]]
  BY ZenonT(30)
<1>2. tx.op = "share" /\ tx.resharing = epoch.resharing /\ tx.key = key[n]
  BY Zenon, <1>1
<1>3. /\ Current(mem[n]) /\ mem[n].dealt /\ pc[n] = "idle" /\ key[n] # None /\ key[n].epoch_id = epoch.epoch_id
      /\ UNCHANGED <<key, keyFile, pc>>
      /\ \/ Send(n, tx) /\ CompleteWithProposal(n, Len(proposals'))
         \/ GetsStuck(n, tx) /\ UNCHANGED <<mem, disk>>
  BY Zenon, <1>1 DEF SubmitAlreadyGeneratedKeys, VerificationKeySubmissionDue, Polls, Current
<1>4. key[n] \in Keys /\ HasKey(n) /\ Tracked(n) /\ Shaped /\ epoch.resharing \in BOOLEAN
  BY Zenon, <1>3 DEF TypeInv, ChainType, Epochs, NodeType, LocalType, DkgInv, NodeInv, Node, Keyed
<1>5. CASE Send(n, tx) /\ CompleteWithProposal(n, Len(proposals'))
  <2>1. PICK x : x = [mem[n] EXCEPT !.derived = "ok", !.proposal = Len(proposals')]
    BY Zenon
  <2>2. TryCommitVerificationKeyShare(n, epoch.resharing, key[n])
    BY Zenon, <1>2, <1>5 DEF Send, Execute
  <2>3. mem'[n] = x /\ disk'[n] = x /\ mempool'[n] = None /\ pc'[n] = "idle"
    BY Zenon, <1>3, <1>4, <1>5, <2>1 DEF CompleteWithProposal, Persist, Shaped, Send
  <2>4. Only(n)
    BY ZenonT(30), <1>3, <1>4, <1>5 DEF CompleteWithProposal, Persist, Shaped, Send, Only, Keeps
  <2> QED
    BY ZenonT(30), <1>3, <1>4, <2>1, <2>2, <2>3, <2>4, ShareSent DEF IInv
<1>6. CASE GetsStuck(n, tx) /\ UNCHANGED <<mem, disk>>
  <2>1. Only(n) /\ mempool'[n] = tx /\ UNCHANGED chain
    BY ZenonT(30), <1>3, <1>4, <1>6 DEF Only, Keeps, Shaped, GetsStuck
  <2>2. TxType(tx)
    BY Zenon, <1>2, <1>4 DEF TxType
  <2>3. n \in dealers => Dealt(n)
    BY Zenon, <1>3, <1>4 DEF Dealt
  <2> QED
    BY <1>2, <1>3, <1>6, <2>1, <2>2, <2>3, StopStep DEF IInv
<1> QED
  BY Zenon, <1>3, <1>5, <1>6

\* The share of the key just derived.
LEMMA SubmitPartialStep ==
    ASSUME IInv, NEW n \in Dealer, SubmitPartialVerificationKey(n)
    PROVE  IInv'
<1> SUFFICES ASSUME TypeInv, DkgInv PROVE TypeInv' /\ DkgInv'
  BY Zenon DEF IInv
<1>1. PICK k : k = DerivedKey(mem[n].partials)
  BY Zenon
<1>2. PICK tx : tx = [op |-> "share", resharing |-> epoch.resharing, key |-> k]
  BY ZenonT(30)
<1>3. tx.op = "share" /\ tx.resharing = epoch.resharing /\ tx.key = k
  BY Zenon, <1>2
<1>4. /\ pc[n] = "submitting" /\ At(n, "idle") /\ UNCHANGED keyFile
      /\ \/ Send(n, tx) /\ key' = [key EXCEPT ![n] = k] /\ CompleteWithProposal(n, Len(proposals'))
         \/ GetsStuck(n, tx) /\ UNCHANGED <<mem, disk, key>>
         \/ NoTx /\ UNCHANGED <<mem, disk, key>>
  BY Zenon, <1>1, <1>2 DEF SubmitPartialVerificationKey
<1>5. /\ Tracked(n) /\ UnderWay(n) /\ Shaped /\ epoch.resharing \in BOOLEAN /\ epoch.epoch_id \in Nat
      /\ MemType(mem[n])
  BY Zenon DEF TypeInv, ChainType, Epochs, NodeType, LocalType, DkgInv, NodeInv, Node
<1>6. /\ mem[n].dealt /\ mem[n].partials # None /\ mem[n].partials \in SUBSET Dealer
      /\ n \in dealers => Current(mem[n]) /\ HasKey(n)
  BY Zenon, <1>4, <1>5 DEF UnderWay, Tracked, MemType
<1>7. k \in Keys
  BY Zenon, <1>1, <1>5, <1>6 DEF DerivedKey, Keys
<1>8. CASE Send(n, tx) /\ key' = [key EXCEPT ![n] = k] /\ CompleteWithProposal(n, Len(proposals'))
  <2>1. PICK x : x = [mem[n] EXCEPT !.derived = "ok", !.proposal = Len(proposals')]
    BY Zenon
  <2>2. TryCommitVerificationKeyShare(n, epoch.resharing, k) /\ n \in dealers
    BY Zenon, <1>3, <1>8 DEF Send, Execute, TryCommitVerificationKeyShare
  <2>3. mem'[n] = x /\ disk'[n] = x /\ mempool'[n] = None /\ pc'[n] = "idle" /\ key'[n] = k
    BY <1>4, <1>5, <1>8, <2>1 DEF CompleteWithProposal, Persist, Shaped, Send, At
  <2>4. Only(n)
    BY ZenonT(30), <1>4, <1>5, <1>8 DEF CompleteWithProposal, Persist, Shaped, Send, Only, Keeps, At
  <2> QED
    BY ZenonT(30), <1>1, <1>4, <1>6, <1>7, <2>1, <2>2, <2>3, <2>4, ShareSent DEF IInv
<1>9. CASE GetsStuck(n, tx) /\ UNCHANGED <<mem, disk, key>>
  <2>1. Only(n) /\ mempool'[n] = tx /\ UNCHANGED chain /\ pc'[n] = "idle"
    BY ZenonT(30), <1>4, <1>5, <1>9 DEF Only, Keeps, Shaped, GetsStuck, At
  <2>2. TxType(tx)
    BY Zenon, <1>3, <1>5, <1>7 DEF TxType
  <2>3. n \in dealers => Dealt(n)
    BY Zenon, <1>6 DEF Dealt
  <2> QED
    BY <1>3, <1>4, <1>9, <2>1, <2>2, <2>3, StopStep DEF IInv
<1>10. CASE NoTx /\ UNCHANGED <<mem, disk, key>>
  <2>1. Only(n) /\ mempool'[n] = mempool[n] /\ UNCHANGED chain /\ pc'[n] = "idle"
    BY Zenon, <1>4, <1>5, <1>10 DEF Only, Keeps, Shaped, NoTx, At
  <2> QED
    BY Zenon, <1>4, <1>10, <2>1, StopStep DEF IInv
<1> QED
  BY <1>4, <1>8, <1>9, <1>10

\* verification_key_finalization: the proposal is the last one of the member.
LEMMA FinalizationStep ==
    ASSUME IInv, NEW n \in Dealer, VerificationKeyFinalization(n)
    PROVE  IInv'
<1> SUFFICES ASSUME TypeInv, DkgInv PROVE TypeInv' /\ DkgInv'
  BY Zenon DEF IInv
<1>1. PICK p : p = mem[n].proposal
  BY Zenon
<1>2. PICK x : x = [mem[n] EXCEPT !.finalized = TRUE]
  BY ZenonT(30)
<1>3. PICK tx : tx = [op |-> "execute", id |-> p]
  BY ZenonT(30)
<1>4. /\ Current(mem[n]) /\ mem[n].validated /\ pc[n] = "idle" /\ UNCHANGED <<key, keyFile, pc>>
      /\ \/ NoTx /\ Remember(n, x)
         \/ Send(n, tx) /\ Persist(n, x)
         \/ GetsStuck(n, tx) /\ UNCHANGED <<mem, disk>>
         \/ NoTx /\ Persist(n, x)
  BY Zenon, <1>1, <1>2, <1>3 DEF VerificationKeyFinalization, Polls, Current
<1>5. LocalType(n) /\ Tracked(n) /\ Keyed(n) /\ UnderWay(n) /\ Stuck(n) /\ Shaped
  BY Zenon DEF TypeInv, NodeType, DkgInv, NodeInv, Node
<1>6. MemType(mem[n]) /\ Ordered(mem[n])
  BY Zenon, <1>5 DEF LocalType, Tracked
<1>7. /\ MemType(x) /\ x.epoch_id = mem[n].epoch_id /\ x.registered = mem[n].registered
      /\ x.dealt = mem[n].dealt /\ x.derived = mem[n].derived /\ x.proposal = mem[n].proposal
      /\ x.partials = mem[n].partials /\ x.votes = mem[n].votes /\ x.validated = mem[n].validated
  BY ZenonT(30), <1>2, <1>6 DEF MemType
<1>8. Ordered(x)
  BY Zenon, <1>6, <1>7 DEF Ordered
<1>9. mem[n].derived = "ok" /\ vkShares[n] # None /\ IsLast(p, n) /\ p \in 1..Len(proposals) /\ proposals[p].owner = n
  BY Zenon, <1>1, <1>4, <1>5, <1>6 DEF Ordered, Tracked, IsLast
<1>10. tx.op = "execute" /\ tx.id = p
  BY Zenon, <1>3
<1>11. ASSUME NoTx, Remember(n, x) \/ Persist(n, x) PROVE TypeInv' /\ DkgInv'
  <2>1. /\ mem'[n] = x /\ (disk'[n] = x \/ disk'[n] = disk[n]) /\ pc'[n] = "idle"
        /\ UNCHANGED chain /\ mempool'[n] = mempool[n]
    BY Zenon, <1>4, <1>5, <1>11 DEF Remember, Persist, NoTx, Shaped
  <2>2. Only(n)
    BY Zenon, <1>4, <1>5, <1>11 DEF Remember, Persist, NoTx, Shaped, Only, Keeps
  <2>3. IsLast(x.proposal, n)
    BY Zenon, <1>1, <1>7, <1>9
  <2> QED
    BY Zenon, <1>4, <1>7, <1>8, <1>9, <2>1, <2>2, <2>3, DerivedStep DEF IInv
<1>12. CASE GetsStuck(n, tx) /\ UNCHANGED <<mem, disk>>
  <2>1. Only(n) /\ mempool'[n] = tx /\ UNCHANGED chain
    BY ZenonT(30), <1>4, <1>5, <1>12 DEF Only, Keeps, Shaped, GetsStuck
  <2>2. TxType(tx)
    BY Zenon, <1>9, <1>10 DEF TxType
  <2> QED
    BY <1>4, <1>9, <1>10, <1>12, <2>1, <2>2, StopStep DEF IInv
<1>13. CASE Send(n, tx) /\ Persist(n, x)
  <2>1. ExecuteExecute(p)
    BY Zenon, <1>10, <1>13 DEF Send, Execute
  <2>2. mem'[n] = x /\ disk'[n] = x /\ mempool'[n] = None /\ key' = key /\ keyFile' = keyFile /\ pc'[n] = "idle"
    BY Zenon, <1>4, <1>5, <1>13 DEF Persist, Shaped, Send
  <2>3. Only(n)
    BY ZenonT(30), <1>4, <1>5, <1>13 DEF Persist, Shaped, Send, Only, Keeps
  <2>4. LocalType(n)'
    BY Zenon, <1>5, <1>7, <2>2 DEF LocalType, MemType, Labels
  <2>5. ASSUME SameFor(n) PROVE Node(n)' /\ (Dealt(n) => Dealt(n)')
    <3>1. IsLast(p, n)'
      BY Zenon, <1>9, <2>5, LastStays
    <3>2. Ordered(x)'
      BY <1>7, <1>8, <2>5 DEF Ordered, SameFor
    <3>3. HasKey(n)' <=> HasKey(n)
      BY Zenon, <2>2, <2>5 DEF HasKey, SameFor
    <3>4. Tracked(n)'
      BY ZenonT(60), <1>1, <1>4, <1>5, <1>7, <1>9, <2>2, <2>5, <3>1, <3>2, <3>3 DEF Tracked, Ordered, Current, SameFor, IsLast
    <3>5. UnderWay(n)' /\ Keyed(n)' /\ Stuck(n)'
      BY Zenon, <1>5, <2>2, <2>5, <3>3 DEF UnderWay, Keyed, Stuck, SameFor
    <3> QED
      BY <1>7, <2>2, <2>5, <3>3, <3>4, <3>5 DEF Node, Dealt, Current, SameFor
  <2>6. \A q \in 1..Len(proposals) : VotesYes(n, q)' => VotesYes(n, q) \/ n \in proposals'[q].yes
    BY Zenon, <1>7, <2>2 DEF VotesYes
  <2> QED
    BY <1>9, <2>1, <2>2, <2>3, <2>4, <2>5, <2>6, ExecuteTxStep DEF IInv
<1> QED
  BY <1>4, <1>11, <1>12, <1>13

\* A stuck transaction is executed after all.
LEMMA StuckTxStep ==
    ASSUME IInv, NEW n \in Dealer, StuckTxExecutes(n)
    PROVE  IInv'
<1> SUFFICES ASSUME TypeInv, DkgInv PROVE TypeInv' /\ DkgInv'
  BY Zenon DEF IInv
<1>1. PICK tx : tx = mempool[n]
  BY Zenon
<1>2. tx # None /\ Execute(n, tx) /\ UNCHANGED <<mem, disk, key, keyFile, pc>> /\ mempool'[n] = None
  BY Zenon, <1>1 DEF StuckTxExecutes, local, TypeInv, NodeType, Shaped
<1>3. AllKeep /\ Only(n) /\ Keeps(n)
  BY Zenon, <1>2 DEF StuckTxExecutes, AllKeep, Only, Keeps, TypeInv, NodeType, Shaped
<1>4. TxType(tx) /\ LocalType(n) /\ Tracked(n) /\ UnderWay(n) /\ Keyed(n) /\ Stuck(n)
  BY Zenon, <1>1, <1>2 DEF TypeInv, NodeType, LocalType, DkgInv, NodeInv, Node
<1>5. LocalType(n)'
  <2>1. MemType(mem[n])' /\ MemType(disk[n])'
    BY <1>2, <1>4 DEF LocalType, MemType
  <2>2. /\ key'[n] \in Keys \cup {None} /\ keyFile'[n] \in Keys \cup {None}
        /\ pc'[n] \in Labels /\ mempool'[n] = None
    BY Zenon, <1>2, <1>4 DEF LocalType
  <2> QED
    BY Zenon, <2>1, <2>2 DEF LocalType
<1>6. CASE tx.op = "register" /\ TryAddDealer(n, tx.resharing)
  <2>1. pc[n] = "idle" /\ UNCHANGED <<env, vkShares, proposals>> /\ dealers' = dealers \cup {n}
    BY Zenon, <1>1, <1>2, <1>4, <1>6 DEF Stuck, TryAddDealer
  <2>2. epoch'.epoch_id = epoch.epoch_id
    <3>1. PICK x, y : epoch' = [epoch EXCEPT !.registered_dealers = x, !.registered_resharing_dealers = y]
      BY ZenonT(30), <1>6 DEF TryAddDealer
    <3> QED
      BY Zenon, <3>1 DEF TypeInv, ChainType, Epochs
  <2>3. Tracked(n)'
    BY ZenonT(40), <1>2, <1>4, <2>1, <2>2 DEF Tracked, Ordered, Current, HasKey, IsLast
  <2>4. UnderWay(n)' /\ Keyed(n)' /\ Stuck(n)'
    BY Zenon, <1>2, <1>4, <2>1, <2>2 DEF UnderWay, Keyed, HasKey, Stuck
  <2>5. \A p \in 1..Len(proposals) :
            (Votes(n, p)' => Votes(n, p)) /\ (VotesYes(n, p)' => VotesYes(n, p))
    BY Zenon, <1>2, <2>1 DEF Votes, VotesYes
  <2> QED
    BY Zenon, <1>3, <1>5, <1>6, <2>3, <2>4, <2>5, RegisterTxStep DEF IInv, Node
<1>7. CASE tx.op = "metadata" /\ TrySubmitDealingsMetadata(n, tx.index, tx.resharing, tx.secret)
  <2>1. ChainType' /\ ProgressMatchesStorage'
    BY Zenon, <1>4, <1>7, MetadataChain DEF TypeInv, DkgInv, TxType
  <2> QED
    BY Zenon, <1>3, <1>7, <2>1, DealingTxStep DEF IInv, TrySubmitDealingsMetadata
<1>8. CASE tx.op = "chunk" /\ TryCommitDealingsChunk(n, tx.index, tx.chunk)
  <2>1. ChainType' /\ ProgressMatchesStorage'
    BY Zenon, <1>4, <1>8, ChunkChain DEF TypeInv, DkgInv, TxType
  <2>2. PICK x : epoch' = [epoch EXCEPT !.submitted_dealings = x]
    BY ZenonT(30), <1>8 DEF TryCommitDealingsChunk
  <2>3. epoch'.epoch_id = epoch.epoch_id /\ epoch'.state = epoch.state
    BY Zenon, <2>2 DEF TypeInv, ChainType, Epochs
  <2> QED
    BY <1>3, <1>8, <2>1, <2>3, DealingTxStep DEF IInv, TryCommitDealingsChunk
<1>9. CASE tx.op = "share" /\ TryCommitVerificationKeyShare(n, tx.resharing, tx.key)
  <2>1. tx.key \in Keys
    BY Zenon, <1>4, <1>9 DEF TxType
  <2>2. /\ epoch'.epoch_id = epoch.epoch_id /\ UNCHANGED <<env, dealers>>
        /\ n \in dealers /\ n \notin Shared
        /\ Len(proposals) \in Nat /\ Len(proposals') = Len(proposals) + 1
    BY ZenonT(30), <1>9, <2>1, ShareChain DEF TypeInv, DkgInv
  <2>3. vkShares[n] = None /\ 1..Len(proposals) \subseteq 1..Len(proposals')
    BY <2>2 DEF Shared
  <2>4. Dealt(n)' /\ (HasKey(n)' <=> HasKey(n))
    BY <1>1, <1>2, <1>4, <1>9, <2>2 DEF Stuck, Dealt, HasKey, Current
  <2>5. Tracked(n)'
    <3>1. Ordered(mem[n])' /\ Ordered(disk[n])'
      BY Zenon, <1>2, <1>4, <2>2, <2>3 DEF Tracked, Ordered
    <3> QED
      BY Zenon, <1>2, <1>4, <2>2, <2>3, <2>4, <3>1 DEF Tracked, Current
  <2>6. UnderWay(n)' /\ Keyed(n)' /\ Stuck(n)'
    BY Zenon, <1>2, <1>4, <2>2, <2>4 DEF UnderWay, Keyed, Stuck, Current
  <2>7. \A p : Votes(n, p)' => Votes(n, p)
    BY Zenon, <1>2 DEF Votes
  <2> QED
    BY <1>3, <1>5, <1>9, <2>1, <2>4, <2>5, <2>6, <2>7, ShareTxStep DEF IInv, Node
<1>10. CASE tx.op = "vote" /\ ExecuteVote(n, tx.id, tx.vote)
  <2>1. tx.id \in 1..Len(proposals) /\ tx.vote \in BOOLEAN
    BY Zenon, <1>4, <1>10 DEF TxType
  <2>2. Votes(n, tx.id) /\ (tx.vote => VotesYes(n, tx.id))
    BY Zenon, <1>1, <1>2, <1>10 DEF Votes, VotesYes
  <2> QED
    BY Zenon, <1>3, <1>10, <2>1, <2>2, VoteTxStep DEF IInv
<1>11. CASE tx.op = "execute" /\ ExecuteExecute(tx.id)
  <2>1. /\ tx.id \in 1..Len(proposals) /\ proposals[tx.id].owner = n
        /\ n \in dealers => IsLast(tx.id, n)
    BY Zenon, <1>1, <1>2, <1>4, <1>11 DEF TxType, Stuck
  <2>2. SameFor(n) => Node(n)' /\ (Dealt(n) => Dealt(n)')
    <3>1. SameFor(n) => Node(n)'
      BY Zenon, <1>3, NodeFrame DEF TypeInv, DkgInv, NodeInv
    <3> QED
      BY Zenon, <1>2, <3>1 DEF SameFor, Dealt, HasKey, Current
  <2>3. \A p \in 1..Len(proposals) : VotesYes(n, p)' => VotesYes(n, p) \/ n \in proposals'[p].yes
    BY Zenon, <1>2 DEF VotesYes
  <2> QED
    BY <1>2, <1>3, <1>5, <1>11, <2>1, <2>2, <2>3, ExecuteTxStep DEF IInv
<1> QED
  BY <1>2, <1>6, <1>7, <1>8, <1>9, <1>10, <1>11 DEF Execute

-----------------------------------------------------------------------------
(* The epoch.                                                              *)

\* Before the first exchange nothing has been counted.
WaitInv ==
    epoch.state = "WaitingInitialisation" =>
        /\ epoch = EpochNew("WaitingInitialisation", 0, FALSE)
        /\ \A d \in Dealer, i \in Index : dealings[d].parts[i] = None

\* The exchange goes on to another state, of the same epoch.
LEMMA StateStep ==
    ASSUME IInv, UNCHANGED <<local, mempool>>,
           UNCHANGED <<env, dealers, dealings, vkShares, previous, proposals>>,
           epoch' \in Epochs, epoch'.epoch_id = epoch.epoch_id, epoch'.resharing = epoch.resharing,
           epoch'.registered_dealers = epoch.registered_dealers,
           epoch'.registered_resharing_dealers = epoch.registered_resharing_dealers,
           epoch'.submitted_dealings = epoch.submitted_dealings,
           epoch'.submitted_key_shares = epoch.submitted_key_shares,
           epoch'.verified_keys = epoch.verified_keys,
           epoch'.state \in {"PublicKeySubmission", "DealingExchange", "VerificationKeySubmission",
                             "WaitingInitialisation"} =>
               epoch'.state = epoch.state \/
               epoch.state \in {"WaitingInitialisation", "PublicKeySubmission", "DealingExchange"}
    PROVE  IInv'
<1> SUFFICES ASSUME TypeInv, DkgInv PROVE TypeInv' /\ DkgInv'
  BY Zenon DEF IInv
<1>1. Len(proposals) \in Nat
  BY DEF TypeInv, ChainType
<1>2. UNCHANGED <<mem, disk, key, keyFile, pc, mempool>>
  BY Zenon DEF local
<1>3. ChainType' /\ ProgressMatchesStorage'
  BY Zenon DEF TypeInv, DkgInv, ChainType, ProgressMatchesStorage, Shared, Verified
<1>4. NodeType'
  BY <1>2 DEF TypeInv, NodeType, Shaped, LocalType, MemType, TxType
<1>5. \A k \in Dealer : SameFor(k) /\ Keeps(k)
  <2>1. Len(proposals') = Len(proposals)
    BY Zenon
  <2>2. \A k \in Dealer : SameFor(k)
    BY <1>1, <2>1 DEF SameFor
  <2>3. \A k \in Dealer : Keeps(k)
    BY Zenon, <1>2 DEF Keeps
  <2> QED
    BY Zenon, <2>2, <2>3
<1>6. NodeInv'
  BY Zenon, <1>5, NodeFrame DEF TypeInv, DkgInv, NodeInv
<1>7. epoch.state \in {"WaitingInitialisation", "PublicKeySubmission", "DealingExchange"} => Shared = {}
  BY Zenon DEF DkgInv, ShareInv
<1>8. \A o \in Shared : Dealt(o)' /\ keyFile'[o] = keyFile[o]
  BY Zenon, <1>2 DEF DkgInv, ShareInv, Dealt, Current, HasKey
<1>9. \A k \in Dealer, p \in 1..Len(proposals) :
          (Votes(k, p)' => Votes(k, p)) /\ (VotesYes(k, p)' => VotesYes(k, p))
  BY <1>2 DEF Votes, VotesYes
<1>10. ShareInv' /\ VoteInv'
  BY Zenon, <1>7, <1>8, <1>9, ShareFrame DEF TypeInv, DkgInv
<1> QED
  BY <1>3, <1>4, <1>6, <1>10 DEF TypeInv, DkgInv

\* reset_dkg_state: what the nodes have is of an older epoch now.
LEMMA NextEpochStep ==
    ASSUME IInv, UNCHANGED <<local, mempool>>, NEW r \in BOOLEAN, NextEpoch(r)
    PROVE  IInv'
<1> SUFFICES ASSUME TypeInv, DkgInv PROVE TypeInv' /\ DkgInv'
  BY Zenon DEF IInv
<1>1. /\ epoch \in Epochs /\ epoch.epoch_id \in Nat /\ env \in Environments /\ env.last \in Nat
      /\ epoch.epoch_id < env.last
      /\ epoch' = EpochNew("PublicKeySubmission", epoch.epoch_id + 1, r)
      /\ previous' = [dealers |-> dealers, vkShares |-> vkShares]
      /\ dealers' = {} /\ dealings' = [d \in Dealer |-> NoDealings]
      /\ vkShares' = [d \in Dealer |-> None] /\ UNCHANGED <<env, proposals>>
  BY ZenonT(30), EnvironmentsAssumption DEF NextEpoch, TypeInv, ChainType, Epochs
<1>2. PICK e \in Nat : e = epoch.epoch_id + 1
  BY <1>1
<1>3. /\ epoch' \in Epochs /\ epoch'.state = "PublicKeySubmission" /\ epoch'.epoch_id = e
      /\ epoch'.resharing = r /\ epoch'.registered_dealers = 0
      /\ epoch'.registered_resharing_dealers = 0 /\ epoch'.submitted_dealings = 0
      /\ epoch'.submitted_key_shares = 0 /\ epoch'.verified_keys = 0
  <2>1. "PublicKeySubmission" \in States
    BY DEF States, EpochStates
  <2>2. epoch' = EpochNew("PublicKeySubmission", e, r)
    BY Zenon, <1>1, <1>2
  <2> QED
    BY Zenon, <2>1, <2>2 DEF EpochNew, Epochs
<1>4. e <= env.last /\ epoch.epoch_id < e
  BY <1>1, <1>2
<1>5. UNCHANGED <<mem, disk, key, keyFile, pc, mempool>>
  BY Zenon DEF local
<1>6. Shared' = {} /\ Verified' = {}
  BY Zenon, <1>1 DEF Shared, Verified
<1>7. DoneDealings' = {}
  <2>1. None # Chunk
    BY Zenon, NoneAssumption
  <2> QED
    BY Zenon, <1>1, <2>1 DEF DoneDealings, NoDealings
<1>8. ChainType'
  BY Zenon, <1>1, <1>3, <1>4 DEF TypeInv, ChainType, NoDealings, Parts
<1>9. ProgressMatchesStorage'
  BY ZenonT(30), <1>1, <1>3, <1>6, <1>7, FS_EmptySet DEF ProgressMatchesStorage, DoneDealings
<1>10. NodeType'
  BY <1>1, <1>5 DEF TypeInv, NodeType, Shaped, LocalType, MemType, TxType
<1>11. ASSUME NEW n \in Dealer PROVE Node(n)'
  <2>1. Tracked(n) /\ UnderWay(n) /\ Keyed(n) /\ Stuck(n) /\ LocalType(n)
    BY Zenon DEF DkgInv, NodeInv, Node, TypeInv, NodeType
  <2>2. ASSUME NEW m, MemType(m), Ordered(m) PROVE Ordered(m)' /\ ~Current(m)'
    <3>1. m.epoch_id \in Nat \cup {None}
      BY Zenon, <2>2 DEF MemType
    <3>2. m.epoch_id # None => m.epoch_id < e
      BY <1>1, <1>2, <2>2, <3>1 DEF Ordered
    <3>3. m.epoch_id # e
      BY <3>1, <3>2, NoneAssumption
    <3> QED
      BY <1>1, <1>3, <2>2, <3>1, <3>2, <3>3 DEF Ordered, Current
  <2>3. MemType(mem[n]) /\ MemType(disk[n]) /\ Ordered(mem[n]) /\ Ordered(disk[n])
    BY Zenon, <2>1 DEF LocalType, Tracked
  <2>4. Ordered(mem[n])' /\ Ordered(disk[n])' /\ ~Current(mem[n])' /\ ~Current(disk[n])'
    <3>1. PICK m, d : m = mem[n] /\ d = disk[n]
      BY Zenon
    <3>2. Ordered(m)' /\ ~Current(m)' /\ Ordered(d)' /\ ~Current(d)'
      BY Zenon, <2>2, <2>3, <3>1
    <3> QED
      BY Zenon, <1>5, <3>1, <3>2 DEF Ordered, Current
  <2>5. Tracked(n)'
    BY Zenon, <2>4 DEF Tracked
  <2>6. UnderWay(n)'
    BY Zenon, <1>1, <1>5, <2>1 DEF UnderWay
  <2>7. Keyed(n)'
    <3>1. epoch'.epoch_id = e /\ epoch.epoch_id \in Nat
      BY Zenon, <1>1, <1>3
    <3>2. /\ key[n] # None => key[n].epoch_id \in Nat
          /\ keyFile[n] # None => keyFile[n].epoch_id \in Nat
      BY Zenon, <2>1 DEF LocalType, Keys
    <3>3. /\ key[n] # None => key[n].epoch_id <= epoch.epoch_id
          /\ keyFile[n] # None => keyFile[n].epoch_id <= epoch.epoch_id
      BY Zenon, <2>1 DEF Keyed
    <3>4. /\ key[n] # None => key[n].epoch_id <= e /\ key[n].epoch_id # e
          /\ keyFile[n] # None => keyFile[n].epoch_id <= e
      BY <1>4, <3>1, <3>2, <3>3
    <3>5. key'[n] = key[n] /\ keyFile'[n] = keyFile[n]
      BY Zenon, <1>5
    <3> QED
      BY <3>1, <3>4, <3>5 DEF Keyed
  <2>8. Stuck(n)'
    BY Zenon, <1>1, <1>5, <2>1 DEF Stuck
  <2> QED
    BY Zenon, <2>5, <2>6, <2>7, <2>8 DEF Node
<1>12. ShareInv'
  BY Zenon, <1>6 DEF ShareInv
<1>13. VoteInv'
  <2>1. MultisigThreshold' = MultisigThreshold
    BY Zenon, <1>1 DEF MultisigThreshold
  <2> QED
    BY Zenon, <1>1, <1>6, <2>1 DEF VoteInv, DkgInv
<1> QED
  BY <1>8, <1>9, <1>10, <1>11, <1>12, <1>13 DEF TypeInv, DkgInv, NodeInv

\* try_advance_epoch_state
LEMMA AdvanceStep ==
    ASSUME IInv, UNCHANGED <<local, mempool>>, TryAdvanceEpochState
    PROVE  IInv'
<1> SUFFICES ASSUME TypeInv, DkgInv PROVE TypeInv' /\ DkgInv'
  BY Zenon DEF IInv
<1>1. PICK next : next = EpochStateNext(epoch.state)
  BY Zenon
<1>2. CASE NextEpoch(FALSE)
  BY ZenonT(30), <1>2, NextEpochStep DEF IInv
<1>3. CASE /\ epoch' = [epoch EXCEPT !.state = next, !.late = FALSE]
           /\ UNCHANGED <<env, dealers, dealings, vkShares, previous, proposals>>
  <2>1. epoch \in Epochs /\ epoch.state \in States
    BY Zenon DEF TypeInv, ChainType, Epochs
  <2>2. /\ next \in States
        /\ next # "WaitingInitialisation"
        /\ next = "PublicKeySubmission" => epoch.state = "WaitingInitialisation"
        /\ next = "DealingExchange" => epoch.state = "PublicKeySubmission"
        /\ next = "VerificationKeySubmission" => epoch.state = "DealingExchange"
    BY Zenon, <1>1, <2>1, NextState
  <2>3. /\ epoch' \in Epochs /\ epoch'.epoch_id = epoch.epoch_id /\ epoch'.resharing = epoch.resharing
        /\ epoch'.registered_dealers = epoch.registered_dealers
        /\ epoch'.registered_resharing_dealers = epoch.registered_resharing_dealers
        /\ epoch'.submitted_dealings = epoch.submitted_dealings
        /\ epoch'.submitted_key_shares = epoch.submitted_key_shares
        /\ epoch'.verified_keys = epoch.verified_keys
        /\ epoch'.state = next
    BY ZenonT(30), <1>3, <2>1, <2>2 DEF Epochs
  <2> QED
    BY <1>3, <2>2, <2>3, StateStep DEF IInv
<1> QED
  BY ZenonT(30), <1>1, <1>2, <1>3 DEF TryAdvanceEpochState

\* The deadline of a state, and the start of the first exchange.
LEMMA ClockStep ==
    ASSUME TypeInv, DkgInv, WaitInv, UNCHANGED <<local, mempool>>, DeadlinePasses \/ TryInitiateDkg
    PROVE  TypeInv' /\ DkgInv'
<1>1. UNCHANGED <<env, dealers, dealings, vkShares, previous, proposals>> /\ epoch \in Epochs
  BY ZenonT(30) DEF DeadlinePasses, TryInitiateDkg, TypeInv, ChainType
<1>2. CASE DeadlinePasses
  <2>1. /\ epoch' \in Epochs /\ epoch'.epoch_id = epoch.epoch_id /\ epoch'.resharing = epoch.resharing
        /\ epoch'.registered_dealers = epoch.registered_dealers
        /\ epoch'.registered_resharing_dealers = epoch.registered_resharing_dealers
        /\ epoch'.submitted_dealings = epoch.submitted_dealings
        /\ epoch'.submitted_key_shares = epoch.submitted_key_shares
        /\ epoch'.verified_keys = epoch.verified_keys
        /\ epoch'.state = epoch.state
    BY ZenonT(30), <1>1, <1>2 DEF Epochs, DeadlinePasses
  <2> QED
    BY <1>1, <2>1, StateStep DEF IInv
<1>3. CASE TryInitiateDkg
  <2>1. "PublicKeySubmission" \in States
    BY DEF States, EpochStates
  <2>2. /\ epoch.state = "WaitingInitialisation" /\ epoch = EpochNew("WaitingInitialisation", 0, FALSE)
        /\ epoch' = EpochNew("PublicKeySubmission", 0, FALSE)
    BY Zenon, <1>3 DEF TryInitiateDkg, WaitInv
  <2>3. /\ epoch' \in Epochs /\ epoch'.epoch_id = epoch.epoch_id /\ epoch'.resharing = epoch.resharing
        /\ epoch'.registered_dealers = epoch.registered_dealers
        /\ epoch'.registered_resharing_dealers = epoch.registered_resharing_dealers
        /\ epoch'.submitted_dealings = epoch.submitted_dealings
        /\ epoch'.submitted_key_shares = epoch.submitted_key_shares
        /\ epoch'.verified_keys = epoch.verified_keys
    BY Zenon, <2>1, <2>2 DEF EpochNew, Epochs
  <2> QED
    BY <1>1, <2>2, <2>3, StateStep DEF IInv
<1> QED
  BY Zenon, <1>2, <1>3

-----------------------------------------------------------------------------
(* The invariant of all steps.                                             *)

\* The contract accepts no transaction that counts before the first exchange.
LEMMA ExecuteWaits ==
    ASSUME TypeInv, WaitInv, NEW n \in Dealer, NEW tx, Execute(n, tx),
           tx.op = "chunk" => tx.index \in Index
    PROVE  WaitInv'
<1>1. epoch \in Epochs
  BY Zenon DEF TypeInv, ChainType
<1>2. CASE TryAddDealer(n, tx.resharing)
  BY Zenon, <1>1, <1>2 DEF Epochs, TryAddDealer, CheckEpochState, WaitInv
<1>3. CASE TrySubmitDealingsMetadata(n, tx.index, tx.resharing, tx.secret)
  BY Zenon, <1>3 DEF TrySubmitDealingsMetadata, EnsurePermission, CheckEpochState, WaitInv
<1>4. CASE tx.index \in Index /\ TryCommitDealingsChunk(n, tx.index, tx.chunk)
  <2>1. epoch.state # "WaitingInitialisation"
    BY ZenonT(30), <1>4 DEF TryCommitDealingsChunk, WaitInv
  <2>2. PICK k : epoch' = [epoch EXCEPT !.submitted_dealings = k]
    BY ZenonT(30), <1>4 DEF TryCommitDealingsChunk
  <2> QED
    BY ZenonT(30), <1>1, <2>1, <2>2 DEF Epochs, WaitInv
<1>5. CASE TryCommitVerificationKeyShare(n, tx.resharing, tx.key)
  BY Zenon, <1>1, <1>5 DEF Epochs, TryCommitVerificationKeyShare, CheckEpochState, WaitInv
<1>6. CASE ExecuteVote(n, tx.id, tx.vote)
  BY Zenon, <1>6 DEF ExecuteVote, WaitInv
<1>7. CASE ExecuteExecute(tx.id)
  BY Zenon, <1>1, <1>7 DEF Epochs, ExecuteExecute, TryVerifyVerificationKeyShare, CheckEpochState, WaitInv
<1> QED
  BY <1>2, <1>3, <1>4, <1>5, <1>6, <1>7 DEF Execute

\* ... and the exchange never waits for its initialisation again.
LEMMA WaitStep ==
    ASSUME TypeInv, WaitInv, Next
    PROVE  WaitInv'
<1>1. ASSUME UNCHANGED chain PROVE WaitInv'
  BY Zenon, <1>1 DEF chain, WaitInv
<1>2. ASSUME NEW n \in Dealer, NEW tx, Send(n, tx), tx.op = "chunk" => tx.index \in Index PROVE WaitInv'
  BY Zenon, <1>2, ExecuteWaits DEF Send
<1>3. ASSUME NEW n, NEW tx, GetsStuck(n, tx) PROVE WaitInv'
  BY Zenon, <1>1, <1>3 DEF GetsStuck
<1>4. NoTx => WaitInv'
  BY Zenon, <1>1 DEF NoTx
<1>5. epoch \in Epochs /\ epoch.state \in States
  BY Zenon DEF TypeInv, ChainType, Epochs
<1>6. ASSUME NEW r, NextEpoch(r) PROVE WaitInv'
  BY Zenon, <1>6 DEF NextEpoch, EpochNew, WaitInv
<1>7. CASE TimePasses
  BY ZenonT(30), <1>5, <1>7 DEF TimePasses, DeadlinePasses, Epochs, WaitInv
<1>8. CASE Admin
  <2>1. CASE TryInitiateDkg
    <3>1. epoch'.state = "PublicKeySubmission"
      BY Zenon, <2>1 DEF TryInitiateDkg, EpochNew
    <3> QED
      BY Zenon, <3>1 DEF WaitInv
  <2>2. CASE TryTriggerReset \/ TryTriggerResharing
    BY ZenonT(30), <1>6, <2>2 DEF TryTriggerReset, TryTriggerResharing
  <2> QED
    BY <1>8, <2>1, <2>2 DEF Admin
<1>9. ASSUME NEW n \in Dealer, AdvanceDkgState(n) PROVE WaitInv'
  <2>1. PICK next : next = EpochStateNext(epoch.state)
    BY Zenon
  <2>2. CASE epoch' = [epoch EXCEPT !.state = next, !.late = FALSE]
    <3>1. next # "WaitingInitialisation"
      BY Zenon, <1>5, <2>1, NextState
    <3> QED
      BY <1>5, <2>2, <3>1 DEF Epochs, WaitInv
  <2> QED
    BY ZenonT(30), <1>6, <1>9, <2>1, <2>2 DEF AdvanceDkgState, TryAdvanceEpochState
<1>10. ASSUME NEW n \in Dealer, Restart(n) PROVE WaitInv'
  BY Zenon, <1>1, <1>10 DEF Restart, chain
<1>11. ASSUME NEW n \in Dealer, StuckTxExecutes(n) PROVE WaitInv'
  <2>1. TxType(mempool[n]) /\ Execute(n, mempool[n])
    BY Zenon, <1>11 DEF TypeInv, NodeType, LocalType, StuckTxExecutes
  <2> QED
    BY Zenon, <2>1, ExecuteWaits DEF TxType
<1>12. ASSUME NEW n \in Dealer, PublicKeySubmission(n) PROVE WaitInv'
  <2>1. PICK tx : /\ tx = [op |-> "register", resharing |-> epoch.resharing]
                  /\ Send(n, tx) \/ GetsStuck(n, tx) \/ NoTx
    BY Zenon, <1>12 DEF PublicKeySubmission
  <2> QED
    BY <1>2, <1>3, <1>4, <2>1
<1>13. ASSUME NEW n \in Dealer, SubmitDealing(n) PROVE WaitInv'
  <2>1. PICK tx \in DealingTxs(n) : Send(n, tx) \/ GetsStuck(n, tx)
    BY Zenon, <1>13 DEF SubmitDealing
  <2>2. tx.op = "chunk" => tx.index \in Index
    BY <2>1 DEF DealingTxs
  <2> QED
    BY <1>2, <1>3, <2>1, <2>2
<1>14. ASSUME NEW n \in Dealer, SubmitAlreadyGeneratedKeys(n) \/ SubmitPartialVerificationKey(n) PROVE WaitInv'
  <2>1. PICK tx : tx.op = "share" /\ (Send(n, tx) \/ GetsStuck(n, tx) \/ NoTx)
    <3>1. CASE SubmitAlreadyGeneratedKeys(n)
      <4>1. PICK tx : /\ tx = [op |-> "share", resharing |-> epoch.resharing, key |-> key[n]]
                      /\ Send(n, tx) \/ GetsStuck(n, tx)
        BY Zenon, <3>1 DEF SubmitAlreadyGeneratedKeys
      <4> QED
        BY Zenon, <4>1
    <3>2. CASE SubmitPartialVerificationKey(n)
      <4>1. PICK tx : /\ tx = [op |-> "share", resharing |-> epoch.resharing,
                               key |-> DerivedKey(mem[n].partials)]
                      /\ Send(n, tx) \/ GetsStuck(n, tx) \/ NoTx
        BY Zenon, <3>2 DEF SubmitPartialVerificationKey
      <4> QED
        BY <4>1
    <3> QED
      BY Zenon, <1>14, <3>1, <3>2
  <2> QED
    BY Zenon, <1>2, <1>3, <1>4, <2>1
<1>15. ASSUME NEW n \in Dealer, VoteVerificationKeyShare(n) PROVE WaitInv'
  <2>1. PICK tx : tx.op = "vote" /\ (Send(n, tx) \/ GetsStuck(n, tx) \/ NoTx)
    BY <1>15 DEF VoteVerificationKeyShare
  <2> QED
    BY Zenon, <1>2, <1>3, <1>4, <2>1
<1>16. ASSUME NEW n \in Dealer, VerificationKeyFinalization(n) PROVE WaitInv'
  <2>1. PICK tx : tx.op = "execute" /\ (Send(n, tx) \/ GetsStuck(n, tx) \/ NoTx)
    BY <1>16 DEF VerificationKeyFinalization
  <2> QED
    BY <1>2, <1>3, <1>4, <2>1
<1>17. ASSUME NEW n \in Dealer,
              \/ GenerateDealings(n) \/ ArchiveKey(n) \/ GenerateDealingsFails(n)
              \/ ResubmitPregeneratedDealings(n) \/ SubmitDealingRefused(n) \/ DealingsSubmitted(n)
              \/ RecoverProposalId(n) \/ DerivePartialKeypair(n)
              \/ VerificationKeyValidation(n) \/ VotesSubmitted(n)
       PROVE  WaitInv'
  <2>1. NoTx \/ UNCHANGED chain
    BY Zenon, <1>17 DEF GenerateDealings, ArchiveKey, GenerateDealingsFails, ResubmitPregeneratedDealings,
                 SubmitDealingRefused, DealingsSubmitted, RecoverProposalId, DerivePartialKeypair,
                 VerificationKeyValidation, VotesSubmitted, chain
  <2> QED
    BY Zenon, <1>1, <1>4, <2>1
<1> QED
  BY <1>7, <1>8, <1>9, <1>10, <1>11, <1>12, <1>13, <1>14, <1>15, <1>16, <1>17
  DEF Next, SystemStep, Handlers, Crash, SetDealersPanics

\* The contract is new and no member has done anything.
LEMMA DkgInitially ==
    ASSUME ControllerInit
    PROVE  TypeInv /\ DkgInv /\ WaitInv
<1>1. /\ Init /\ mem = [n \in Dealer |-> DkgStateDefault(None)] /\ disk = mem
      /\ key = [n \in Dealer |-> None] /\ keyFile = key
      /\ pc = [n \in Dealer |-> "idle"] /\ mempool = [n \in Dealer |-> None]
  BY Zenon DEF ControllerInit
<1>2. /\ env \in Environments /\ epoch = EpochNew("WaitingInitialisation", 0, FALSE)
      /\ dealers = {} /\ dealings = [d \in Dealer |-> NoDealings]
      /\ vkShares = [d \in Dealer |-> None] /\ proposals = <<>>
  BY Zenon, <1>1 DEF Init
<1>3. /\ epoch \in Epochs /\ epoch.state = "WaitingInitialisation" /\ epoch.epoch_id = 0
      /\ epoch.resharing = FALSE /\ epoch.registered_dealers = 0
      /\ epoch.registered_resharing_dealers = 0 /\ epoch.submitted_dealings = 0
      /\ epoch.submitted_key_shares = 0 /\ epoch.verified_keys = 0
  <2>1. "WaitingInitialisation" \in States
    BY DEF States, EpochStates
  <2> QED
    BY Zenon, <1>2, <2>1 DEF EpochNew, Epochs
<1>4. Len(proposals) = 0 /\ proposals \in Seq(Proposals) /\ 1..Len(proposals) = {}
  <2>1. Len(<<>>) = 0 /\ <<>> \in Seq(Proposals)
    OBVIOUS
  <2> QED
    BY <1>2, <2>1
<1>5. Shared = {} /\ Verified = {}
  BY Zenon, <1>2 DEF Shared, Verified
<1>6. \A d \in Dealer, i \in Index : dealings[d].parts[i] = None
  BY Zenon, <1>2 DEF NoDealings
<1>7. DoneDealings = {}
  BY Zenon, <1>6, NoneAssumption DEF DoneDealings
<1>8. ChainType
  <2>1. env.last \in Nat /\ epoch.epoch_id <= env.last
    <3>1. env.last \in Nat
      BY ZenonT(30), <1>2, EnvironmentsAssumption
    <3>2. \A x \in Nat : 0 <= x
      OBVIOUS
    <3> QED
      BY Zenon, <1>3, <3>1, <3>2
  <2>2. \A d \in Dealer : dealings[d].parts \in Parts
    BY Zenon, <1>2 DEF NoDealings, Parts
  <2>3. dealings = [d \in Dealer |-> [secret |-> dealings[d].secret, parts |-> dealings[d].parts]]
    BY Zenon, <1>2 DEF NoDealings
  <2> QED
    BY ZenonT(30), <1>2, <1>3, <1>4, <2>1, <2>2, <2>3 DEF ChainType
<1>9. ProgressMatchesStorage
  BY ZenonT(30), <1>2, <1>3, <1>5, <1>7, FS_EmptySet DEF ProgressMatchesStorage, DoneDealings
<1>10. ASSUME NEW n \in Dealer PROVE LocalType(n) /\ Node(n)
  <2>1. PICK m : m = DkgStateDefault(None)
    BY Zenon
  <2>2. m.votes = NoVotes /\ DOMAIN m.votes = {} /\ m.votes \in [DOMAIN m.votes -> BOOLEAN]
    BY Zenon, <2>1 DEF DkgStateDefault, NoVotes
  <2>3. /\ MemType(m) /\ m.epoch_id = None /\ ~m.registered /\ ~m.dealt /\ m.derived = "none"
        /\ m.partials = None /\ ~m.validated
    BY Zenon, <2>1, <2>2 DEF DkgStateDefault, MemType
  <2>4. mem[n] = m /\ disk[n] = m /\ key[n] = None /\ keyFile[n] = None /\ pc[n] = "idle" /\ mempool[n] = None
    BY Zenon, <1>1, <2>1
  <2>5. LocalType(n)
    BY Zenon, <2>3, <2>4 DEF LocalType, Labels
  <2>6. Ordered(m)
    BY Zenon, <2>2, <2>3 DEF Ordered
  <2>7. ~Current(m)
    BY <1>3, <2>3, NoneAssumption DEF Current
  <2>8. Tracked(n) /\ UnderWay(n) /\ Keyed(n) /\ Stuck(n)
    BY Zenon, <2>4, <2>6, <2>7 DEF Tracked, UnderWay, Keyed, Stuck
  <2> QED
    BY Zenon, <2>5, <2>8 DEF Node
<1>11. Shaped
  BY Zenon, <1>1 DEF Shaped
<1>12. ShareInv /\ VoteInv
  BY Zenon, <1>4, <1>5 DEF ShareInv, VoteInv
<1>13. WaitInv
  BY Zenon, <1>2, <1>6 DEF WaitInv
<1> QED
  BY Zenon, <1>8, <1>9, <1>10, <1>11, <1>12, <1>13 DEF TypeInv, NodeType, DkgInv, NodeInv

\* Every step of the contract and of the members keeps the invariant.
LEMMA DkgStep ==
    ASSUME TypeInv, DkgInv, WaitInv, [Next]_vars
    PROVE  TypeInv' /\ DkgInv' /\ WaitInv'
<1>1. CASE UNCHANGED vars
  <2>1. UNCHANGED <<env, epoch, dealers, dealings, vkShares, previous, proposals>> /\ UNCHANGED <<local, mempool>>
    BY Zenon, <1>1 DEF vars, chain
  <2>2. epoch' \in Epochs /\ WaitInv'
    BY ZenonT(30), <2>1 DEF TypeInv, ChainType, WaitInv
  <2> QED
    BY Zenon, <2>1, <2>2, StateStep DEF IInv
<1>2. CASE Next
  <2>1. WaitInv'
    BY Zenon, <1>2, WaitStep
  <2>2. CASE TimePasses
    BY Zenon, <2>1, <2>2, ClockStep DEF TimePasses
  <2>3. CASE Admin
    BY ZenonT(30), <2>1, <2>3, ClockStep, NextEpochStep DEF IInv, Admin, TryTriggerReset, TryTriggerResharing
  <2>4. ASSUME NEW n \in Dealer, StuckTxExecutes(n) \/ Crash(n) PROVE TypeInv' /\ DkgInv'
    BY Zenon, <2>4, StuckTxStep, RestartStep DEF IInv, Crash
  <2>5. ASSUME NEW n \in Dealer, Handlers(n) PROVE TypeInv' /\ DkgInv'
    <3>1. CASE AdvanceDkgState(n)
      BY Zenon, <3>1, AdvanceStep DEF IInv, AdvanceDkgState
    <3>2. CASE SetDealersPanics(n)
      BY Zenon, <3>2, RestartStep DEF IInv, SetDealersPanics
    <3>3. CASE PublicKeySubmission(n) \/ GenerateDealings(n) \/ ArchiveKey(n) \/ GenerateDealingsFails(n)
      BY Zenon, <3>3, RegisterStep, GenerateDealingsStep, ArchiveKeyStep, GenerateDealingsFailsStep DEF IInv
    <3>4. CASE ResubmitPregeneratedDealings(n) \/ SubmitDealing(n) \/ SubmitDealingRefused(n) \/ DealingsSubmitted(n)
      BY Zenon, <3>4, ResubmitStep, SubmitDealingStep, RefusedStep, DealingsSubmittedStep DEF IInv
    <3>5. CASE RecoverProposalId(n) \/ SubmitAlreadyGeneratedKeys(n) \/ DerivePartialKeypair(n)
               \/ SubmitPartialVerificationKey(n)
      BY <3>5, RecoverStep, SubmitGeneratedStep, DeriveStep, SubmitPartialStep DEF IInv
    <3>6. CASE VerificationKeyValidation(n) \/ VoteVerificationKeyShare(n) \/ VotesSubmitted(n)
               \/ VerificationKeyFinalization(n)
      BY <3>6, ValidationStep, VoteStep, VotesSubmittedStep, FinalizationStep DEF IInv
    <3> QED
      BY <2>5, <3>1, <3>2, <3>3, <3>4, <3>5, <3>6 DEF Handlers
  <2> QED
    BY <1>2, <2>1, <2>2, <2>3, <2>4, <2>5 DEF Next, SystemStep
<1> QED
  BY Zenon, <1>1, <1>2

\* The invariant holds in every behaviour of the contract and its members.
LEMMA DkgInductive == Spec => [](TypeInv /\ DkgInv /\ WaitInv)
<1>1. ControllerInit => TypeInv /\ DkgInv /\ WaitInv
  BY Zenon, DkgInitially
<1>2. (TypeInv /\ DkgInv /\ WaitInv) /\ [Next]_vars => (TypeInv /\ DkgInv /\ WaitInv)'
  BY Zenon, DkgStep
<1> QED
  BY <1>1, <1>2, PTL DEF Spec

-----------------------------------------------------------------------------
(* The theorems.                                                           *)

\* Type correctness: in particular the proposal ids that members keep, with
\* maybe_recover_proposal_id and in their votes, were given out by the multisig.
THEOREM TypeCorrect == Spec => []TypeOK
<1>1. TypeInv /\ DkgInv => TypeOK
  <2> SUFFICES ASSUME TypeInv, DkgInv PROVE TypeOK
    BY Zenon
  <2>1. /\ epoch.state \in States /\ epoch.epoch_id \in Nat /\ epoch.epoch_id <= env.last
        /\ env.last \in Nat /\ dealers \subseteq env.group
    BY ZenonT(30), EnvironmentsAssumption DEF TypeInv, ChainType, Epochs
  <2>2. \A p \in 1..Len(proposals) : proposals[p].status \in Statuses
    <3>1. \A p \in 1..Len(proposals) : proposals[p] \in Proposals
      BY DEF TypeInv, ChainType
    <3> QED
      BY Zenon, <3>1 DEF Proposals
  <2>3. ASSUME NEW n \in Dealer
        PROVE  /\ mem[n].derived \in {"none", "ok", "failed"} /\ pc[n] \in Labels
               /\ mem[n].derived = "ok" => mem[n].proposal \in 1..Len(proposals)
               /\ DOMAIN mem[n].votes \subseteq 1..Len(proposals)
    BY Zenon DEF TypeInv, NodeType, LocalType, MemType, DkgInv, NodeInv, Node, Tracked, Ordered
  <2> QED
    BY <2>1, <2>2, <2>3 DEF TypeOK, States, Statuses, Labels
<1> QED
  BY <1>1, DkgInductive, PTL

\* The counters of StateProgress match what the contract has stored, also
\* verified_keys, which try_verify_verification_key_share raises unseen.
THEOREM ProgressMatches == Spec => []ProgressMatchesStorage
<1>1. DkgInv => ProgressMatchesStorage
  BY Zenon DEF DkgInv
<1> QED
  BY <1>1, DkgInductive, PTL

\* A member whose share is in the contract has a key of this epoch on disk,
\* through any crash, stuck transaction and later epoch.
THEOREM SharesPersisted == Spec => []KeyPersisted
<1>1. DkgInv => KeyPersisted
  BY Zenon DEF DkgInv, ShareInv, Dealt, HasKey, KeyPersisted
<1> QED
  BY <1>1, DkgInductive, PTL

\* Two sets of yes votes that pass a proposal have a member in common.
LEMMA QuorumsMeet ==
    ASSUME NEW G, IsFiniteSet(G), G # {}, NEW A \in SUBSET G, NEW B \in SUBSET G,
           Cardinality(A) >= (67 * Cardinality(G) + 99) \div 100,
           Cardinality(B) >= (67 * Cardinality(G) + 99) \div 100
    PROVE  \E n \in G : n \in A /\ n \in B
<1>1. IsFiniteSet(A) /\ IsFiniteSet(B) /\ IsFiniteSet(A \cup B) /\ IsFiniteSet(A \cap B)
  BY FS_Subset, FS_Union, FS_Intersection
<1>2. PICK g, a, b, u, i \in Nat : /\ g = Cardinality(G) /\ a = Cardinality(A) /\ b = Cardinality(B)
                                  /\ u = Cardinality(A \cup B) /\ i = Cardinality(A \cap B)
  BY Zenon, <1>1, FS_CardinalityType
<1>3. g > 0
  BY <1>2, FS_EmptySet
<1>4. u = a + b - i
  BY ZenonT(30), <1>1, <1>2, FS_Union
<1>5. u <= g
  <2>1. A \cup B \in SUBSET G
    BY Zenon
  <2> QED
    BY Zenon, <1>2, <2>1, FS_Subset
<1>6. PICK t \in Nat : t = (67 * g + 99) \div 100
  BY <1>2
<1>7. 100 * t >= 67 * g
  BY <1>2, <1>6
<1>8. a >= t /\ b >= t
  BY Zenon, <1>2, <1>6
<1>9. i > 0
  BY <1>2, <1>3, <1>4, <1>5, <1>6, <1>7, <1>8
<1>10. A \cap B # {}
  <2>1. Cardinality({}) = 0
    BY Zenon, FS_EmptySet
  <2> QED
    BY <1>2, <1>9, <2>1
<1> QED
  BY Zenon, <1>10

\* The verified keys of an epoch that their owners kept were derived from the
\* same dealings: the voters of two executed proposals have a member in
\* common, and verify_share let it vote only for keys that fit its own.
THEOREM KeysAgree == Spec => []VerifiedKeysAgree
<1>1. TypeInv /\ DkgInv => VerifiedKeysAgree
  <2> SUFFICES ASSUME TypeInv, DkgInv, NEW d1 \in Verified, NEW d2 \in Verified,
                      keyFile[d1] = vkShares[d1].key, keyFile[d2] = vkShares[d2].key
               PROVE  vkShares[d1].key.from = vkShares[d2].key.from
    BY Zenon DEF VerifiedKeysAgree
  <2>1. d1 \in Shared /\ d2 \in Shared /\ vkShares[d1].verified /\ vkShares[d2].verified
    BY Zenon DEF Verified
  <2>2. PICK p1 \in 1..Len(proposals) : IsLast(p1, d1) /\ proposals[p1].status = "Executed"
    BY Zenon, <2>1 DEF DkgInv, ShareInv
  <2>3. PICK p2 \in 1..Len(proposals) : IsLast(p2, d2) /\ proposals[p2].status = "Executed"
    BY Zenon, <2>1 DEF DkgInv, ShareInv
  <2>4. /\ env.group \subseteq Dealer /\ env.group # {} /\ IsFiniteSet(env.group)
    BY ZenonT(30), EnvironmentsAssumption, ContractAssumption, FS_Subset DEF TypeInv, ChainType
  <2>5. /\ proposals[p1].yes \subseteq env.group /\ proposals[p2].yes \subseteq env.group
        /\ Cardinality(proposals[p1].yes) >= MultisigThreshold
        /\ Cardinality(proposals[p2].yes) >= MultisigThreshold
    BY Zenon, <2>2, <2>3 DEF DkgInv, VoteInv
  <2>6. PICK n \in env.group : n \in proposals[p1].yes /\ n \in proposals[p2].yes
    BY <2>4, <2>5, QuorumsMeet DEF MultisigThreshold
  <2>7. VotesYes(n, p1) /\ VotesYes(n, p2) /\ n \in Dealer
    BY Zenon, <2>4, <2>6 DEF VotesYes
  <2>8. Fits(n, d1) /\ Fits(n, d2)
    BY Zenon, <2>1, <2>2, <2>3, <2>7 DEF DkgInv, VoteInv
  <2> QED
    BY Zenon, <2>8 DEF Fits
<1> QED
  BY <1>1, DkgInductive, PTL
=============================================================================
