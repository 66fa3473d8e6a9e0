------------------------- MODULE DkgControllerSteps -------------------------
(***************************************************************************)
(* The inductive invariant of DkgController through the steps of a member  *)
(* that send no transaction, and through the transactions themselves,      *)
(* whether their sender learns of them or not.                             *)
(***************************************************************************)
EXTENDS DkgControllerInvariant

\* Time for the leaves that expand much.
USE SMTT(30), ZenonT(30)

-----------------------------------------------------------------------------
(* The later handlers, up to their transactions.                           *)

\* A member completes its key derivation, or gives it up, without a
\* transaction.
LEMMA DerivedStep ==
    ASSUME IInv, NEW n \in Dealer, NEW m,
           MemType(m), Ordered(m), m.epoch_id = mem[n].epoch_id, m.registered = mem[n].registered,
           m.dealt = mem[n].dealt, m.partials = mem[n].partials, m.votes = mem[n].votes,
           m.derived \in {"ok", "failed"},
           Current(mem[n]) /\ m.derived = "ok" => vkShares[n] # None /\ IsLast(m.proposal, n),
           Only(n), UNCHANGED chain, mempool'[n] = mempool[n],
           mem'[n] = m, disk'[n] = m \/ (disk'[n] = disk[n] /\ m.derived = mem[n].derived
                                            /\ m.proposal = mem[n].proposal),
           key'[n] = key[n], keyFile'[n] = keyFile[n], pc'[n] = "idle"
    PROVE  IInv'
<1> SUFFICES ASSUME TypeInv, DkgInv PROVE TypeInv' /\ DkgInv'
  BY Zenon DEF IInv
<1>1. UNCHANGED <<env, epoch, dealers, vkShares, proposals>>
  BY Zenon DEF chain
<1>2. LocalType(n) /\ Tracked(n) /\ Keyed(n) /\ UnderWay(n) /\ Stuck(n)
  BY Zenon DEF TypeInv, NodeType, DkgInv, NodeInv, Node
<1>3. LocalType(n)'
  BY <1>1, <1>2 DEF LocalType, TxType, MemType, Labels
<1>4. IsLast(m.proposal, n)' <=> IsLast(m.proposal, n)
  BY Zenon, <1>1 DEF IsLast
<1>5. Tracked(n)'
  BY <1>1, <1>2, <1>4 DEF Tracked, Ordered, Current, HasKey
<1>6. UnderWay(n)' /\ Keyed(n)'
  BY Zenon, <1>1, <1>2 DEF UnderWay, Keyed, HasKey
<1>7. Dealt(n) => Dealt(n)'
  BY ZenonT(30), <1>1 DEF Dealt, Current, HasKey
<1>8. Stuck(n)'
  BY Zenon, <1>1, <1>2, <1>7 DEF Stuck, IsLast
<1>9. n \in Shared => Dealt(n)'
  BY Zenon, <1>7 DEF DkgInv, ShareInv
<1>10. \A p \in 1..Len(proposals) :
           (Votes(n, p)' => Votes(n, p)) /\ (VotesYes(n, p)' => VotesYes(n, p))
  BY <1>1 DEF Votes, VotesYes
<1> QED
  BY <1>3, <1>5, <1>6, <1>8, <1>9, <1>10, QuietStep DEF IInv, Node

\* get_validation_proposals finds an open proposal of the owner, the last one
\* that is open.
LEMMA ValidationProposalLast ==
    ASSUME TypeInv, NEW o, NEW p, p = ValidationProposal(o), p # 0
    PROVE  /\ p \in 1..Len(proposals) /\ proposals[p].owner = o /\ proposals[p].status = "Open"
           /\ \A q \in 1..Len(proposals) :
                 proposals[q].owner = o /\ proposals[q].status = "Open" => q <= p
<1> DEFINE Open(x) == {q \in 1..Len(proposals) : /\ proposals[q].owner = x
                                                /\ proposals[q].status = "Open"}
<1>1. Len(proposals) \in Nat
  BY DEF TypeInv, ChainType
<1>2. Open(o) \in SUBSET (1..Len(proposals))
  BY Zenon
<1>3. Open(o) # {} /\ p = CHOOSE x \in Open(o) : \A y \in Open(o) : y <= x
  BY Zenon DEF ValidationProposal
<1> HIDE DEF Open
<1>4. \E x \in Open(o) : \A y \in Open(o) : y <= x
  BY Zenon, <1>1, <1>2, <1>3, HighestId
<1>5. p \in Open(o) /\ \A y \in Open(o) : y <= p
  BY Zenon, <1>3, <1>4
<1> QED
  BY Zenon, <1>5 DEF Open

\* While the shares are submitted the proposal found is that of the share.
LEMMA RecoverStep ==
    ASSUME IInv, NEW n \in Dealer, RecoverProposalId(n)
    PROVE  IInv'
<1> SUFFICES ASSUME TypeInv, DkgInv PROVE TypeInv' /\ DkgInv'
  BY Zenon DEF IInv
<1>1. PICK p : p = ValidationProposal(n)
  BY Zenon
<1>2. PICK x : x = [mem[n] EXCEPT !.derived = "ok", !.proposal = p]
  BY Zenon
<1>3. MemType(mem[n]) /\ Ordered(mem[n]) /\ Shaped /\ Len(proposals) \in Nat
  BY DEF TypeInv, ChainType, NodeType, LocalType, DkgInv, NodeInv, Node, Tracked
<1>4. /\ Current(mem[n]) /\ pc'[n] = "idle" /\ mem[n].derived = "none" /\ mem[n].dealt
      /\ p # 0 /\ n \in Shared /\ epoch.state = "VerificationKeySubmission"
      /\ key' = key /\ keyFile' = keyFile /\ mempool' = mempool /\ UNCHANGED chain
      /\ mem'[n] = x /\ disk'[n] = x
  BY Zenon, <1>1, <1>2, <1>3 DEF RecoverProposalId, VerificationKeySubmissionDue, Polls, Persist,
        CompleteWithProposal, NoTx, Shaped, Current, Shared
<1>5. Only(n)
  BY ZenonT(30), <1>1, <1>2, <1>3 DEF RecoverProposalId, CompleteWithProposal, Only, Persist, NoTx, Shaped, Keeps
<1>6. /\ p \in 1..Len(proposals) /\ p \in Nat /\ proposals[p].owner = n
      /\ \A q \in 1..Len(proposals) :
            proposals[q].owner = n /\ proposals[q].status = "Open" => q <= p
  BY <1>1, <1>3, <1>4, ValidationProposalLast
<1>7. PICK l \in 1..Len(proposals) : IsLast(l, n) /\ proposals[l].status = "Open"
  BY Zenon, <1>4 DEF DkgInv, ShareInv
<1>8. IsLast(p, n)
  BY <1>3, <1>6, <1>7 DEF IsLast
<1>9. /\ MemType(x) /\ x.epoch_id = mem[n].epoch_id /\ x.registered = mem[n].registered
      /\ x.dealt = mem[n].dealt /\ x.derived = "ok" /\ x.proposal = p
      /\ x.partials = mem[n].partials /\ x.votes = mem[n].votes /\ x.validated = mem[n].validated
  BY ZenonT(30), <1>2, <1>3, <1>6 DEF MemType
<1>10. Ordered(x)
  BY <1>3, <1>4, <1>6, <1>9 DEF Ordered
<1> QED
  BY ZenonT(30), <1>4, <1>5, <1>8, <1>9, <1>10, DerivedStep DEF IInv, Shared

\* All the votes are cast.
LEMMA VotesSubmittedStep ==
    ASSUME IInv, NEW n \in Dealer, VotesSubmitted(n)
    PROVE  IInv'
<1> SUFFICES ASSUME TypeInv, DkgInv PROVE TypeInv' /\ DkgInv'
  BY Zenon DEF IInv
<1>1. PICK x : x = [mem[n] EXCEPT !.validated = TRUE]
  BY ZenonT(30)
<1>2. MemType(mem[n]) /\ Tracked(n) /\ UnderWay(n) /\ Shaped
  BY Zenon DEF TypeInv, NodeType, LocalType, DkgInv, NodeInv, Node
<1>3. /\ pc'[n] = "idle" /\ mem[n].derived = "ok"
      /\ key' = key /\ keyFile' = keyFile /\ mempool' = mempool /\ UNCHANGED chain
      /\ mem'[n] = x /\ disk'[n] = x
  BY Zenon, <1>1, <1>2 DEF VotesSubmitted, Persist, At, NoTx, Shaped, UnderWay
<1>4. Only(n)
  BY ZenonT(30), <1>1, <1>2 DEF VotesSubmitted, Only, Persist, At, NoTx, Shaped, Keeps
<1>5. /\ MemType(x) /\ x.epoch_id = mem[n].epoch_id /\ x.registered = mem[n].registered
      /\ x.dealt = mem[n].dealt /\ x.derived = mem[n].derived /\ x.proposal = mem[n].proposal
      /\ x.partials = mem[n].partials /\ x.votes = mem[n].votes
  BY ZenonT(30), <1>1, <1>2 DEF MemType
<1>6. Ordered(x)
  BY Zenon, <1>2, <1>3, <1>5 DEF Ordered, Tracked
<1>7. Current(mem[n]) => vkShares[n] # None /\ IsLast(x.proposal, n)
  BY Zenon, <1>2, <1>3, <1>5 DEF Tracked
<1> QED
  BY <1>3, <1>4, <1>5, <1>6, <1>7, DerivedStep DEF IInv

\* A step of n that leaves its DkgState and its keys alone: it stops, or gives
\* up, and its transaction may get stuck.
LEMMA StopStep ==
    ASSUME IInv, NEW n \in Dealer, Only(n), UNCHANGED chain,
           UNCHANGED <<mem[n], disk[n], key[n], keyFile[n]>>,
           pc'[n] \in {pc[n], "idle"},
           NEW tx, mempool'[n] = tx,
           \/ tx = mempool[n]
           \/ /\ TxType(tx) /\ tx.op # "register"
              /\ tx.op = "share" /\ n \in dealers => Dealt(n)
              /\ tx.op = "execute" =>
                    /\ proposals[tx.id].owner = n
                    /\ n \in dealers => vkShares[n] # None /\ IsLast(tx.id, n)
              /\ tx.op = "vote" => tx.id \in DOMAIN mem[n].votes /\ tx.vote = mem[n].votes[tx.id]
    PROVE  IInv'
<1> SUFFICES ASSUME TypeInv, DkgInv PROVE TypeInv' /\ DkgInv'
  BY Zenon DEF IInv
<1>1. UNCHANGED <<env, epoch, dealers, vkShares, proposals>>
  BY Zenon DEF chain
<1>2. LocalType(n) /\ Tracked(n) /\ Keyed(n) /\ UnderWay(n) /\ Stuck(n)
  BY Zenon DEF TypeInv, NodeType, DkgInv, NodeInv, Node
<1>3. LocalType(n)'
  BY <1>1, <1>2 DEF LocalType, TxType, MemType, Labels
<1>4. Tracked(n)'
  BY ZenonT(60), <1>1, <1>2 DEF Tracked, Ordered, Current, HasKey, IsLast
<1>5. UnderWay(n)' /\ Keyed(n)'
  BY <1>1, <1>2 DEF UnderWay, Keyed, HasKey, Current
<1>6. Dealt(n) => Dealt(n)'
  BY Zenon, <1>1 DEF Dealt, Current, HasKey
<1>8. Stuck(n)'
  <2>1. CASE mempool'[n] = mempool[n]
    BY Zenon, <1>1, <1>2, <1>6, <2>1 DEF Stuck, IsLast
  <2>2. CASE mempool'[n] # mempool[n]
    <3>1. \A p : IsLast(p, n)' <=> IsLast(p, n)
      BY Zenon, <1>1 DEF IsLast
    <3> QED
      BY <1>1, <1>6, <2>2, <3>1 DEF Stuck
  <2> QED
    BY Zenon, <2>1, <2>2
<1>9. n \in Shared => Dealt(n)'
  BY Zenon, <1>6 DEF DkgInv, ShareInv
<1>10. \A p \in 1..Len(proposals) :
           (Votes(n, p)' => Votes(n, p)) /\ (VotesYes(n, p)' => VotesYes(n, p))
  BY Zenon, <1>1 DEF Votes, VotesYes
<1> QED
  BY <1>3, <1>4, <1>5, <1>8, <1>9, <1>10, QuietStep DEF IInv, Node

\* derive_partial_keypair: the key is on disk before the partial keys are
\* used.
LEMMA DeriveStep ==
    ASSUME IInv, NEW n \in Dealer, DerivePartialKeypair(n)
    PROVE  IInv'
<1> SUFFICES ASSUME TypeInv, DkgInv PROVE TypeInv' /\ DkgInv'
  BY Zenon DEF IInv
<1>1. LocalType(n) /\ Tracked(n) /\ Keyed(n) /\ UnderWay(n) /\ Stuck(n) /\ Shaped
  BY Zenon DEF TypeInv, NodeType, DkgInv, NodeInv, Node
<1>2. MemType(mem[n]) /\ Ordered(mem[n])
  BY Zenon, <1>1 DEF LocalType, Tracked
<1>3. /\ Current(mem[n]) /\ pc[n] = "idle" /\ mem[n].derived = "none" /\ mem[n].dealt
      /\ vkShares[n] = None /\ key[n] = None /\ key' = key /\ mempool' = mempool /\ UNCHANGED chain
  BY Zenon DEF DerivePartialKeypair, VerificationKeySubmissionDue, Polls, NoTx, Current
<1>4. CASE /\ Persist(n, [mem[n] EXCEPT !.derived = "failed"])
           /\ UNCHANGED <<keyFile, pc>>
  <2>1. PICK x : x = [mem[n] EXCEPT !.derived = "failed"]
    BY ZenonT(30)
  <2>2. mem'[n] = x /\ disk'[n] = x /\ pc'[n] = "idle" /\ keyFile'[n] = keyFile[n]
    BY Zenon, <1>1, <1>3, <1>4, <2>1 DEF Persist, Shaped
  <2>3. Only(n)
    BY ZenonT(30), <1>1, <1>3, <1>4, <2>1 DEF Only, Persist, Shaped, Keeps
  <2>4. /\ MemType(x) /\ x.epoch_id = mem[n].epoch_id /\ x.registered = mem[n].registered
        /\ x.dealt = mem[n].dealt /\ x.derived = "failed" /\ x.proposal = mem[n].proposal
        /\ x.partials = mem[n].partials /\ x.votes = mem[n].votes /\ x.validated = mem[n].validated
    BY Zenon, <1>2, <2>1 DEF MemType
  <2>5. Ordered(x)
    BY Zenon, <1>2, <1>3, <2>4 DEF Ordered
  <2> QED
    BY ZenonT(30), <1>3, <2>2, <2>3, <2>4, <2>5, DerivedStep DEF IInv
<1>5. CASE /\ Remember(n, [mem[n] EXCEPT !.partials = ValidDealers])
           /\ keyFile' = [keyFile EXCEPT ![n] = DerivedKey(ValidDealers)]
           /\ At(n, "submitting")
  <2>1. PICK V \in SUBSET Dealer : V = ValidDealers
    BY ZenonT(30), Counted DEF TypeInv, ValidDealers
  <2>2. PICK x : x = [mem[n] EXCEPT !.partials = V]
    BY ZenonT(30)
  <2>3. PICK k \in Keys : k = DerivedKey(V) /\ k.epoch_id = epoch.epoch_id /\ k.from = V
    <3>1. epoch.epoch_id \in Nat
      BY Zenon DEF TypeInv, ChainType, Epochs
    <3>2. DerivedKey(V) \in Keys /\ DerivedKey(V).epoch_id = epoch.epoch_id /\ DerivedKey(V).from = V
      BY Zenon, <3>1 DEF DerivedKey, Keys
    <3> QED
      BY Zenon, <3>2
  <2>4. k # None /\ V # None
    BY Zenon, NoneAssumption DEF Keys
  <2>5. mem'[n] = x /\ disk'[n] = disk[n] /\ pc'[n] = "submitting" /\ keyFile'[n] = k
    BY Zenon, <1>1, <1>5, <2>1, <2>2, <2>3 DEF Remember, Shaped, At
  <2>6. Only(n)
    BY ZenonT(30), <1>1, <1>3, <1>5 DEF Only, Remember, Shaped, Keeps, At
  <2>7. /\ MemType(x) /\ x.epoch_id = mem[n].epoch_id /\ x.registered = mem[n].registered
        /\ x.dealt = mem[n].dealt /\ x.derived = mem[n].derived /\ x.proposal = mem[n].proposal
        /\ x.partials = V /\ x.votes = mem[n].votes /\ x.validated = mem[n].validated
    BY Zenon, <1>2, <2>2 DEF MemType
  <2>8. UNCHANGED <<env, epoch, dealers, vkShares, proposals>>
    BY Zenon, <1>3 DEF chain
  <2>9. LocalType(n)'
    BY <1>1, <1>3, <2>3, <2>5, <2>7, <2>8 DEF LocalType, TxType, MemType, Labels
  <2>10. Ordered(x)'
    BY Zenon, <1>2, <1>3, <2>7, <2>8 DEF Ordered
  <2>11. HasKey(n)' /\ keyFile'[n].from = V
    BY Zenon, <2>3, <2>4, <2>5, <2>8 DEF HasKey
  <2>12. Tracked(n)'
    BY ZenonT(30), <1>1, <1>3, <2>5, <2>7, <2>8, <2>10, <2>11 DEF Tracked, Ordered, Current
  <2>13. UnderWay(n)' /\ Keyed(n)'
    BY <1>1, <1>3, <2>3, <2>4, <2>5, <2>7, <2>8 DEF UnderWay, Keyed, Current, TypeInv, ChainType, Epochs
  <2>14. n \in dealers => Dealt(n)'
    BY <1>3, <2>5, <2>7, <2>8, <2>11 DEF Dealt, Current
  <2>15. Stuck(n)'
    BY Zenon, <1>1, <1>2, <1>3, <2>8, <2>14 DEF Stuck, IsLast, Ordered, Tracked
  <2>16. n \notin Shared
    BY Zenon, <1>3 DEF Shared
  <2>17. \A p \in 1..Len(proposals) :
             (Votes(n, p)' => Votes(n, p)) /\ (VotesYes(n, p)' => VotesYes(n, p))
    BY Zenon, <1>3, <2>5, <2>7, <2>8 DEF Votes, VotesYes
  <2> QED
    BY <1>3, <2>6, <2>9, <2>12, <2>13, <2>15, <2>16, <2>17, QuietStep DEF IInv, Node
<1> QED
  BY Zenon, <1>4, <1>5 DEF DerivePartialKeypair

\* generate_votes: a vote for another member's share compares it with the
\* dealings our own key on disk was derived from.
LEMMA ValidationStep ==
    ASSUME IInv, NEW n \in Dealer, VerificationKeyValidation(n)
    PROVE  IInv'
<1> SUFFICES ASSUME TypeInv, DkgInv PROVE TypeInv' /\ DkgInv'
  BY Zenon DEF IInv
<1>1. LocalType(n) /\ Tracked(n) /\ Keyed(n) /\ UnderWay(n) /\ Stuck(n) /\ Shaped
  BY Zenon DEF TypeInv, NodeType, DkgInv, NodeInv, Node
<1>2. MemType(mem[n]) /\ Ordered(mem[n])
  BY Zenon, <1>1 DEF LocalType, Tracked
<1>3. PICK v : v = IF mem[n].votes = NoVotes THEN GenerateVotes(n) ELSE mem[n].votes
  BY Zenon
<1>4. PICK x : x = [mem[n] EXCEPT !.votes = v]
  BY ZenonT(30)
<1>5. /\ Current(mem[n]) /\ mem[n].derived = "ok" /\ epoch.state = "VerificationKeyValidation"
      /\ key' = key /\ keyFile' = keyFile /\ mempool' = mempool /\ UNCHANGED chain
      /\ mem'[n] = x /\ disk'[n] = disk[n] /\ pc'[n] = "voting"
  BY Zenon, <1>1, <1>3, <1>4 DEF VerificationKeyValidation, Polls, NoTx, Current, Remember, At, Shaped
<1>6. Only(n)
  BY ZenonT(30), <1>1 DEF VerificationKeyValidation, Only, Remember, Shaped, Keeps, At, NoTx
<1>7. UNCHANGED <<env, epoch, dealers, vkShares, proposals>>
  BY Zenon, <1>5 DEF chain
<1>8. /\ v \in [DOMAIN v -> BOOLEAN] /\ DOMAIN v \subseteq 1..Len(proposals)
      /\ \A p \in DOMAIN v : v[p] =>
            (p \in DOMAIN mem[n].votes /\ mem[n].votes[p]) \/ Fits(n, proposals[p].owner)
  <2>1. CASE mem[n].votes # NoVotes
    BY Zenon, <1>2, <1>3, <2>1 DEF MemType, Ordered
  <2>2. CASE mem[n].votes = NoVotes
    <3> DEFINE owners == {o \in Shared : ValidationProposal(o) # 0 /\ (o = n \/ ~vkShares[o].verified)}
               P == {ValidationProposal(o) : o \in owners}
    <3>1. v = [p \in P |-> proposals[p].owner = n \/ VerifyShare(n, proposals[p].owner)]
      BY Zenon, <1>3, <2>2 DEF GenerateVotes
    <3>2. ASSUME NEW p \in P
          PROVE  p \in 1..Len(proposals) /\ proposals[p].owner \in Shared
      <4>1. PICK o \in owners : p = ValidationProposal(o)
        BY Zenon
      <4> QED
        BY Zenon, <4>1, ValidationProposalLast
    <3> HIDE DEF P
    <3>3. ASSUME NEW p \in P, VerifyShare(n, proposals[p].owner)
          PROVE  Fits(n, proposals[p].owner)
      <4>1. PICK o \in Shared : o = proposals[p].owner
        BY Zenon, <3>2
      <4>2. mem[n].partials = vkShares[o].key.from
        BY Zenon, <3>3, <4>1 DEF VerifyShare
      <4>3. vkShares[o].key.from \in SUBSET Dealer
        BY Zenon DEF Shared, TypeInv, ChainType, Shares, Keys
      <4>4. mem[n].partials # None
        BY Zenon, <4>2, <4>3, NoneAssumption
      <4> QED
        BY <1>1, <1>5, <4>1, <4>2, <4>4 DEF Tracked, Fits, Shared
    <3>4. \A p \in P : proposals[p].owner = n => Fits(n, proposals[p].owner)
      BY Zenon DEF Fits
    <3>5. DOMAIN v = P /\ v \in [P -> BOOLEAN]
      BY Zenon, <3>1
    <3> QED
      BY ZenonT(30), <3>1, <3>2, <3>3, <3>4, <3>5
  <2> QED
    BY Zenon, <2>1, <2>2
<1>9. /\ MemType(x) /\ x.epoch_id = mem[n].epoch_id /\ x.registered = mem[n].registered
      /\ x.dealt = mem[n].dealt /\ x.derived = mem[n].derived /\ x.proposal = mem[n].proposal
      /\ x.partials = mem[n].partials /\ x.votes = v /\ x.validated = mem[n].validated
  <2>1. PICK w : w = v /\ w \in [DOMAIN w -> BOOLEAN]
    BY Zenon, <1>8
  <2> QED
    BY <1>2, <1>4, <2>1 DEF MemType
<1>10. LocalType(n)'
  BY Zenon, <1>1, <1>5, <1>7, <1>9 DEF LocalType, TxType, Labels
<1>11. Ordered(x)'
  BY ZenonT(30), <1>2, <1>7, <1>8, <1>9 DEF Ordered
<1>12. Tracked(n)'
  BY <1>1, <1>5, <1>7, <1>9, <1>11 DEF Tracked, Ordered, Current, HasKey, IsLast
<1>13. UnderWay(n)' /\ Keyed(n)'
  BY Zenon, <1>1, <1>5, <1>7, <1>9 DEF UnderWay, Keyed, Current, HasKey
<1>14. Dealt(n) => Dealt(n)'
  BY Zenon, <1>5, <1>7, <1>9 DEF Dealt, Current, HasKey
<1>15. n \in Shared /\ n \in dealers
  BY Zenon, <1>1, <1>2, <1>5 DEF Tracked, Ordered, Shared
<1>16. Stuck(n)'
  BY Zenon, <1>1, <1>5, <1>7, <1>14, <1>15 DEF Stuck, IsLast
<1>17. Dealt(n)'
  BY Zenon, <1>14, <1>15 DEF DkgInv, ShareInv
<1>18. \A p \in 1..Len(proposals) :
           VotesYes(n, p)' => VotesYes(n, p) \/ Fits(n, proposals[p].owner)
  BY <1>5, <1>7, <1>8, <1>9 DEF VotesYes
<1> QED
  BY Zenon, <1>5, <1>6, <1>10, <1>12, <1>13, <1>16, <1>17, <1>18, QuietVotes DEF IInv, Node

-----------------------------------------------------------------------------
(* The transactions, whether their sender learns of them or not.           *)

\* Every node keeps what it has.
AllKeep == Shaped' /\ \A k \in Dealer : Keeps(k)

\* The votes of a node that keeps what it has.
LEMMA VotesKept ==
    ASSUME NEW k \in Dealer, Keeps(k), NEW p
    PROVE  /\ Votes(k, p)' => Votes(k, p)
           /\ VotesYes(k, p)' => VotesYes(k, p) \/ k \in proposals'[p].yes
BY Zenon DEF Keeps, Votes, VotesYes

\* Metadata or a chunk of a dealing reaches the contract.
LEMMA DealingTxStep ==
    ASSUME IInv, AllKeep, NEW n \in Dealer, ChainType', ProgressMatchesStorage',
           UNCHANGED <<env, dealers, vkShares, proposals>>,
           epoch'.epoch_id = epoch.epoch_id, epoch'.state = epoch.state
    PROVE  IInv'
<1> SUFFICES ASSUME TypeInv, DkgInv PROVE TypeInv' /\ DkgInv'
  BY Zenon DEF IInv
<1>1. Len(proposals) \in Nat
  BY DEF TypeInv, ChainType
<1>2. SameFor(n) /\ Keeps(n) /\ Only(n)
  BY <1>1 DEF SameFor, AllKeep, Only
<1>3. LocalType(n)'
  BY <1>2 DEF TypeInv, NodeType, LocalType, Keeps, TxType, MemType
<1>4. NodeType'
  BY <1>1, <1>2, <1>3, TypeFrame DEF TypeInv
<1>5. Node(n)'
  BY Zenon, <1>2, NodeFrame DEF TypeInv, DkgInv, NodeInv
<1>6. n \in Shared => Dealt(n)' /\ keyFile'[n] = keyFile[n]
  BY <1>2 DEF DkgInv, ShareInv, Dealt, HasKey, Current, Keeps
<1>7. \A p \in 1..Len(proposals) :
          (Votes(n, p)' => Votes(n, p)) /\ (VotesYes(n, p)' => VotesYes(n, p))
  BY Zenon, <1>2 DEF Votes, VotesYes, Keeps
<1>8. NodeInv' /\ ShareInv' /\ VoteInv'
  BY <1>2, <1>5, <1>6, <1>7, LocalStep DEF IInv
<1> QED
  BY Zenon, <1>4, <1>8 DEF TypeInv, DkgInv

\* A vote that its sender meant to give is counted.
LEMMA VoteTxStep ==
    ASSUME IInv, AllKeep, NEW n \in Dealer, NEW id \in 1..Len(proposals),
           NEW vote \in BOOLEAN, ExecuteVote(n, id, vote), Votes(n, id), vote => VotesYes(n, id)
    PROVE  IInv'
<1> SUFFICES ASSUME TypeInv, DkgInv PROVE TypeInv' /\ DkgInv'
  BY Zenon DEF IInv
<1>1. Len(proposals) \in Nat
  BY DEF TypeInv, ChainType
<1>2. PassedBy(proposals, env.group)
  BY Zenon DEF DkgInv, VoteInv, PassedBy
<1>3. /\ ChainType' /\ ProgressMatchesStorage' /\ PassedBy(proposals, env.group)'
      /\ UNCHANGED <<env, epoch, dealers, vkShares>>
      /\ Len(proposals') = Len(proposals)
      /\ \A p \in 1..Len(proposals) :
            /\ proposals'[p].owner = proposals[p].owner
            /\ p # id => proposals'[p] = proposals[p]
            /\ proposals'[p].status = "Executed" <=> proposals[p].status = "Executed"
            /\ \A k \in proposals'[p].yes : k \in proposals[p].yes \/ (k = n /\ p = id /\ vote)
  BY <1>2, VoteChain DEF TypeInv, DkgInv
<1>4. \A k \in Dealer : SameFor(k) /\ Keeps(k)
  BY <1>1, <1>3 DEF SameFor, AllKeep
<1>5. Only(n) /\ LocalType(n)'
  BY <1>3, <1>4 DEF TypeInv, NodeType, LocalType, Keeps, TxType, MemType, AllKeep, Only
<1>6. NodeType'
  BY <1>1, <1>3, <1>5, TypeFrame DEF TypeInv
<1>7. NodeInv'
  BY Zenon, <1>4, NodeFrame DEF TypeInv, DkgInv, NodeInv
<1>8. Shared' = Shared /\ Shared \subseteq Dealer /\ \A p, o : IsLast(p, o)' <=> IsLast(p, o)
  BY Zenon, <1>3 DEF Shared, IsLast
<1>9. ASSUME NEW o \in Shared, NEW p \in 1..Len(proposals), IsLast(p, o),
             epoch.state = "VerificationKeySubmission"
      PROVE  p # id
  BY Zenon, <1>9 DEF DkgInv, VoteInv
<1>10. ShareInv'
  <2>1. \A o \in Shared : Dealt(o) => Dealt(o)'
    BY Zenon, <1>3, <1>4, <1>8 DEF Dealt, Current, HasKey, Keeps
  <2>2. ASSUME NEW o \in Shared
        PROVE  /\ Dealt(o)'
               /\ \E p \in 1..Len(proposals) :
                    /\ IsLast(p, o)
                    /\ vkShares[o].verified <=> proposals'[p].status = "Executed"
                    /\ epoch.state = "VerificationKeySubmission" => proposals'[p].status = "Open"
    <3>1. PICK p \in 1..Len(proposals) :
             /\ IsLast(p, o)
             /\ vkShares[o].verified <=> proposals[p].status = "Executed"
             /\ epoch.state = "VerificationKeySubmission" => proposals[p].status = "Open"
      BY Zenon DEF DkgInv, ShareInv
    <3>2. epoch.state = "VerificationKeySubmission" => proposals'[p].status = "Open"
      BY Zenon, <1>3, <1>9, <3>1
    <3>3. vkShares[o].verified <=> proposals'[p].status = "Executed"
      BY Zenon, <1>3, <3>1
    <3>4. Dealt(o)'
      BY Zenon, <2>1 DEF DkgInv, ShareInv
    <3> QED
      BY Zenon, <3>1, <3>2, <3>3, <3>4
  <2>3. epoch.state \in {"WaitingInitialisation", "PublicKeySubmission", "DealingExchange"}
           => Shared = {}
    BY Zenon DEF ShareInv, DkgInv
  <2>4. UNCHANGED <<epoch, vkShares>> /\ Len(proposals') = Len(proposals)
    BY Zenon, <1>3
  <2> QED
    BY Zenon, <1>8, <2>2, <2>3, <2>4 DEF ShareInv
<1>11. VoteInv'
  <2>1. ASSUME NEW o \in Shared, NEW p \in 1..Len(proposals), IsLast(p, o), NEW k \in Dealer
        PROVE  /\ epoch.state = "VerificationKeySubmission" => ~Votes(k, p)' /\ k \notin proposals'[p].yes
               /\ VotesYes(k, p)' => Fits(k, o)'
    <3>1. /\ Votes(k, p)' => Votes(k, p)
          /\ VotesYes(k, p)' => VotesYes(k, p) \/ k \in proposals'[p].yes
      BY Zenon, <1>4, VotesKept
    <3>2. k \in proposals'[p].yes => VotesYes(k, p)
      BY <1>3 DEF VotesYes
    <3>3. Fits(k, o)' <=> Fits(k, o)
      BY Zenon, <1>3, <1>4, <1>8 DEF Fits, Keeps
    <3>4. /\ epoch.state = "VerificationKeySubmission" => ~Votes(k, p) /\ k \notin proposals[p].yes
          /\ VotesYes(k, p) => Fits(k, o)
      BY Zenon, <2>1 DEF DkgInv, VoteInv
    <3>5. epoch.state = "VerificationKeySubmission" => proposals'[p] = proposals[p]
      BY Zenon, <1>3, <1>9, <2>1
    <3> QED
      BY <3>1, <3>2, <3>3, <3>4, <3>5
  <2> QED
    BY Zenon, <1>3, <1>8, <2>1 DEF VoteInv, PassedBy
<1> QED
  BY <1>3, <1>6, <1>7, <1>10, <1>11 DEF TypeInv, DkgInv

\* The execution of the member's own last proposal verifies its share.
LEMMA ExecuteTxStep ==
    ASSUME IInv, NEW n \in Dealer, NEW id \in 1..Len(proposals),
           proposals[id].owner = n, ExecuteExecute(id), n \in dealers => IsLast(id, n),
           Only(n), LocalType(n)', SameFor(n) => Node(n)' /\ (Dealt(n) => Dealt(n)'),
           keyFile'[n] = keyFile[n],
           \A p \in 1..Len(proposals) :
               VotesYes(n, p)' => VotesYes(n, p) \/ n \in proposals'[p].yes
    PROVE  IInv'
<1> SUFFICES ASSUME TypeInv, DkgInv PROVE TypeInv' /\ DkgInv'
  BY Zenon DEF IInv
<1>1. Len(proposals) \in Nat
  BY DEF TypeInv, ChainType
<1>2. PassedBy(proposals, env.group)
  BY Zenon DEF DkgInv, VoteInv, PassedBy
<1>3. n \in Shared /\ proposals[id].status = "Passed"
  BY Zenon DEF ExecuteExecute, TryVerifyVerificationKeyShare, Shared
<1>4. Dealt(n) /\ n \in dealers /\ IsLast(id, n)
  BY Zenon, <1>3 DEF DkgInv, ShareInv, Dealt
<1>5. ~vkShares[n].verified
  <2>1. PICK p \in 1..Len(proposals) :
           IsLast(p, n) /\ (vkShares[n].verified <=> proposals[p].status = "Executed")
    BY Zenon, <1>3 DEF DkgInv, ShareInv
  <2>2. p = id
    BY <1>1, <1>4, <2>1 DEF IsLast
  <2> QED
    BY Zenon, <1>3, <2>1, <2>2
<1>6. /\ ChainType' /\ ProgressMatchesStorage' /\ PassedBy(proposals, env.group)'
      /\ UNCHANGED <<env, dealers>>
      /\ epoch.state = "VerificationKeyFinalization" /\ epoch'.state = epoch.state
      /\ epoch'.epoch_id = epoch.epoch_id
      /\ Shared' = Shared /\ vkShares'[n].verified
      /\ \A k \in Dealer : k # n => vkShares'[k] = vkShares[k]
      /\ \A k \in Shared : vkShares'[k].key = vkShares[k].key
      /\ Len(proposals') = Len(proposals) /\ proposals'[id].status = "Executed"
      /\ \A p \in 1..Len(proposals) :
            /\ p # id => proposals'[p] = proposals[p]
            /\ proposals'[p].owner = proposals[p].owner
            /\ proposals'[p].yes = proposals[p].yes
  BY Zenon, <1>2, <1>5, ExecuteChain DEF TypeInv, DkgInv
<1>7. \A k \in Dealer : SameFor(k) /\ (k # n => Keeps(k))
  <2>1. \A k \in Dealer : vkShares'[k] # None <=> vkShares[k] # None
    BY Zenon, <1>6 DEF Shared
  <2>2. UNCHANGED dealers /\ epoch'.state = epoch.state /\ epoch'.epoch_id = epoch.epoch_id
    BY Zenon, <1>6
  <2>3. /\ Len(proposals') = Len(proposals)
        /\ \A p \in 1..Len(proposals) : proposals'[p].owner = proposals[p].owner
    BY Zenon, <1>6
  <2>4. \A k \in Dealer : SameFor(k)
    BY <1>1, <2>1, <2>2, <2>3 DEF SameFor
  <2>5. \A k \in Dealer : k # n => Keeps(k)
    BY Zenon DEF Only
  <2> QED
    BY Zenon, <2>4, <2>5
<1>8. NodeType' /\ NodeInv'
  <2>1. NodeType /\ NodeInv /\ Len(proposals) \in Nat
    BY DEF TypeInv, DkgInv, ChainType
  <2>2. Len(proposals') \in Nat /\ Len(proposals) <= Len(proposals')
    BY <1>6, <2>1
  <2>3. NodeType'
    BY <1>1, <2>1, <2>2, TypeFrame, Zenon
  <2>4. NodeInv'
    BY <1>1, <1>7, <2>1, OthersFrame, Zenon
  <2> QED
    BY Zenon, <2>3, <2>4
<1>9. Shared \subseteq Dealer /\ \A p, o : IsLast(p, o)' <=> IsLast(p, o)
  <2>1. /\ Len(proposals') = Len(proposals)
        /\ \A p \in 1..Len(proposals) : proposals'[p].owner = proposals[p].owner
    BY Zenon, <1>6
  <2>2. \A p, o : IsLast(p, o)' <=> IsLast(p, o)
    BY Zenon, <2>1 DEF IsLast
  <2> QED
    BY Zenon, <2>2 DEF Shared
<1>10. ASSUME NEW o \in Shared
       PROVE  Dealt(o)' /\ keyFile'[o] = keyFile[o]
  <2>1. Dealt(o)
    BY Zenon DEF DkgInv, ShareInv
  <2>2. CASE o # n
    BY <1>6, <1>7, <1>9, <2>1, <2>2 DEF Dealt, Current, HasKey, Keeps
  <2> QED
    BY Zenon, <1>7, <2>1, <2>2
<1>11. ShareInv'
  <2>1. ASSUME NEW o \in Shared
        PROVE  \E p \in 1..Len(proposals) :
                  IsLast(p, o) /\ (vkShares'[o].verified <=> proposals'[p].status = "Executed")
    <3>1. PICK p \in 1..Len(proposals) :
             IsLast(p, o) /\ (vkShares[o].verified <=> proposals[p].status = "Executed")
      BY Zenon DEF DkgInv, ShareInv
    <3>2. CASE o = n
      BY Zenon, <1>4, <1>6, <3>2
    <3>3. CASE o # n
      <4>1. p # id /\ vkShares'[o] = vkShares[o]
        BY Zenon, <1>6, <1>9, <3>1, <3>3 DEF IsLast
      <4> QED
        BY Zenon, <1>6, <3>1, <4>1
    <3> QED
      BY Zenon, <3>2, <3>3
  <2> QED
    BY Zenon, <1>6, <1>9, <1>10, <2>1 DEF ShareInv
<1>12. VoteInv'
  <2>1. ASSUME NEW o \in Shared, NEW p \in 1..Len(proposals), IsLast(p, o), NEW k \in Dealer
        PROVE  VotesYes(k, p)' => Fits(k, o)'
    <3>1. VotesYes(k, p)' => VotesYes(k, p) \/ k \in proposals'[p].yes
      BY Zenon, <1>7, VotesKept
    <3>2. k \in proposals'[p].yes => VotesYes(k, p)
      BY Zenon, <1>6 DEF VotesYes
    <3>3. Fits(k, o) => Fits(k, o)'
      BY Zenon, <1>6, <1>10 DEF Fits
    <3>4. VotesYes(k, p) => Fits(k, o)
      BY Zenon, <2>1 DEF DkgInv, VoteInv
    <3> QED
      BY Zenon, <3>1, <3>2, <3>3, <3>4
  <2> QED
    BY Zenon, <1>6, <1>9, <2>1 DEF VoteInv, PassedBy
<1> QED
  BY <1>6, <1>8, <1>11, <1>12 DEF TypeInv, DkgInv

\* A share comes with the last proposal, on which nobody votes yet.
LEMMA ShareTxStep ==
    ASSUME IInv, NEW n \in Dealer, NEW r, NEW k \in Keys,
           TryCommitVerificationKeyShare(n, r, k),
           Only(n), LocalType(n)', Node(n)', Dealt(n)',
           \A p : Votes(n, p)' => Votes(n, p)
    PROVE  IInv'
<1> SUFFICES ASSUME TypeInv, DkgInv PROVE TypeInv' /\ DkgInv'
  BY Zenon DEF IInv
<1>1. /\ ChainType' /\ ProgressMatchesStorage'
      /\ epoch.state = "VerificationKeySubmission" /\ epoch'.state = epoch.state
      /\ epoch'.epoch_id = epoch.epoch_id /\ UNCHANGED <<env, dealers>>
      /\ n \notin Shared /\ Shared' = Shared \cup {n}
      /\ vkShares'[n] = [key |-> k, verified |-> FALSE]
      /\ \A x \in Dealer : x # n => vkShares'[x] = vkShares[x]
      /\ Len(proposals) \in Nat /\ Len(proposals') = Len(proposals) + 1
      /\ \A p \in 1..Len(proposals) : proposals'[p] = proposals[p]
      /\ proposals'[Len(proposals) + 1].owner = n
      /\ proposals'[Len(proposals) + 1].status = "Open"
      /\ proposals'[Len(proposals) + 1].yes = {}
  BY Zenon, ShareChain DEF TypeInv, DkgInv
<1>2. PICK new \in Nat : new = Len(proposals) + 1
  BY <1>1
<1>3. \A p : p \in 1..Len(proposals') <=> p \in 1..Len(proposals) \/ p = new
  BY <1>1, <1>2
<1>4. ASSUME NEW x \in Dealer, x # n PROVE SameFor(x) /\ Keeps(x)
  BY <1>1, <1>2, <1>3, <1>4 DEF SameFor, Only
<1>5. NodeType' /\ NodeInv'
  BY <1>1, <1>4, TypeFrame, OthersFrame DEF TypeInv, DkgInv
<1>6. IsLast(new, n)' /\ \A p : IsLast(p, n)' => p = new
  BY <1>1, <1>2, <1>3 DEF IsLast
<1>7. ASSUME NEW o \in Shared, NEW p
      PROVE  IsLast(p, o)' <=> p \in 1..Len(proposals) /\ IsLast(p, o)
  BY Zenon, <1>1, <1>2, <1>3 DEF IsLast
<1>8. Shared \subseteq Dealer
  BY Zenon DEF Shared
<1>9. ShareInv'
  <2>1. ASSUME NEW o \in Shared PROVE Dealt(o)'
    <3>1. Dealt(o) /\ Keeps(o)
      BY Zenon, <1>1, <1>4, <1>8 DEF DkgInv, ShareInv
    <3> QED
      BY Zenon, <1>1, <3>1 DEF Dealt, Current, HasKey, Keeps
  <2>2. ASSUME NEW o \in Shared
        PROVE  \E p \in 1..Len(proposals') :
                  /\ IsLast(p, o)'
                  /\ vkShares'[o].verified <=> proposals'[p].status = "Executed"
                  /\ proposals'[p].status = "Open"
    <3>1. PICK p \in 1..Len(proposals) :
             /\ IsLast(p, o)
             /\ vkShares[o].verified <=> proposals[p].status = "Executed"
             /\ proposals[p].status = "Open"
      BY Zenon, <1>1 DEF DkgInv, ShareInv
    <3>2. IsLast(p, o)' /\ proposals'[p] = proposals[p] /\ p \in 1..Len(proposals')
      BY <1>1, <1>3, <1>7, <3>1
    <3>3. vkShares'[o] = vkShares[o]
      BY Zenon, <1>1, <1>8
    <3> QED
      BY <3>1, <3>2, <3>3
  <2>3. \E p \in 1..Len(proposals') :
           /\ IsLast(p, n)'
           /\ vkShares'[n].verified <=> proposals'[p].status = "Executed"
           /\ proposals'[p].status = "Open"
    <3>1. ~vkShares'[n].verified /\ proposals'[new].status = "Open"
      BY <1>1, <1>2
    <3> QED
      BY Zenon, <1>3, <1>6, <3>1
  <2> QED
    BY <1>1, <2>1, <2>2, <2>3 DEF ShareInv
<1>10. VoteInv'
  <2>1. ASSUME NEW x \in Dealer, NEW p PROVE Votes(x, p)' => Votes(x, p)
    BY Zenon, <1>4, VotesKept
  <2>2. ASSUME NEW x \in Dealer PROVE ~Votes(x, new)
    <3>1. Ordered(mem[x]) /\ Ordered(disk[x]) /\ (mempool[x] # None => TxType(mempool[x]))
      BY Zenon DEF DkgInv, NodeInv, Node, Tracked, TypeInv, NodeType, LocalType
    <3>2. new \notin 1..Len(proposals)
      <4>1. Len(proposals) \in Nat
        BY Zenon, <1>1
      <4> QED
        BY <1>2, <4>1
    <3> QED
      BY Zenon, <3>1, <3>2 DEF Votes, Ordered, TxType
  <2>3. ASSUME NEW o \in Shared', NEW p \in 1..Len(proposals'), IsLast(p, o)', NEW x \in Dealer
        PROVE  ~Votes(x, p)' /\ x \notin proposals'[p].yes
    <3>1. CASE o = n
      BY <1>1, <1>2, <1>6, <2>1, <2>2, <2>3, <3>1
    <3>2. CASE o # n
      <4>1. o \in Shared /\ IsLast(p, o) /\ p \in 1..Len(proposals)
        BY Zenon, <1>1, <1>7, <2>3, <3>2
      <4>2. ~Votes(x, p) /\ x \notin proposals[p].yes
        BY Zenon, <1>1, <4>1 DEF DkgInv, VoteInv
      <4> QED
        BY Zenon, <1>1, <2>1, <4>1, <4>2
    <3> QED
      BY Zenon, <3>1, <3>2
  <2>4. ASSUME NEW x \in Dealer, NEW p, VotesYes(x, p)' PROVE Votes(x, p)' \/ x \in proposals'[p].yes
    BY Zenon, <2>4 DEF Votes, VotesYes
  <2>5. ASSUME NEW p \in 1..Len(proposals')
        PROVE  /\ proposals'[p].yes \subseteq env'.group
               /\ proposals'[p].status \in {"Passed", "Executed"} =>
                     Cardinality(proposals'[p].yes) >= MultisigThreshold'
    <3>1. MultisigThreshold' = MultisigThreshold
      BY Zenon, <1>1 DEF MultisigThreshold
    <3>2. CASE p = new
      BY Zenon, <1>1, <1>2, <3>2
    <3>3. CASE p # new
      BY Zenon, <1>1, <1>3, <3>1, <3>3 DEF DkgInv, VoteInv
    <3> QED
      BY Zenon, <3>2, <3>3
  <2> QED
    BY Zenon, <2>3, <2>4, <2>5 DEF VoteInv
<1> QED
  BY Zenon, <1>1, <1>5, <1>9, <1>10 DEF TypeInv, DkgInv

\* A dealer is new: it has no share and nobody else notices.
LEMMA RegisterTxStep ==
    ASSUME IInv, NEW n \in Dealer, NEW r, TryAddDealer(n, r),
           Only(n), LocalType(n)', Node(n)',
           \A p \in 1..Len(proposals) :
               (Votes(n, p)' => Votes(n, p)) /\ (VotesYes(n, p)' => VotesYes(n, p))
    PROVE  IInv'
<1> SUFFICES ASSUME TypeInv, DkgInv PROVE TypeInv' /\ DkgInv'
  BY Zenon DEF IInv
<1>1. Len(proposals) \in Nat
  BY DEF TypeInv, ChainType
<1>2. /\ ChainType' /\ ProgressMatchesStorage' /\ UNCHANGED <<env, vkShares, proposals>>
      /\ n \notin dealers /\ dealers' = dealers \cup {n} /\ epoch.state = "PublicKeySubmission"
  <2>1. ChainType' /\ ProgressMatchesStorage'
    BY Zenon, AddDealerChain DEF TypeInv, DkgInv
  <2> QED
    BY Zenon, <2>1 DEF TryAddDealer, CheckEpochState
<1>3. epoch'.epoch_id = epoch.epoch_id /\ epoch'.state = epoch.state
  <2>1. PICK x, y : epoch' = [epoch EXCEPT !.registered_dealers = x, !.registered_resharing_dealers = y]
    BY ZenonT(30) DEF TryAddDealer
  <2> QED
    BY Zenon, <2>1 DEF TypeInv, ChainType, Epochs
<1>4. \A k \in Dealer : k # n => SameFor(k)
  BY <1>1, <1>2, <1>3 DEF SameFor
<1>5. NodeType' /\ NodeInv'
  BY <1>1, <1>2, <1>4, TypeFrame, OthersFrame DEF TypeInv, DkgInv
<1>6. Shared = {}
  BY Zenon, <1>2 DEF DkgInv, ShareInv
<1>7. ShareInv' /\ VoteInv'
  <2>1. ASSUME NEW k \in Dealer, NEW p \in 1..Len(proposals)
        PROVE  /\ epoch.state = "VerificationKeySubmission" /\ Votes(k, p)' => Votes(k, p)
               /\ VotesYes(k, p)' => VotesYes(k, p) \/ Fits(k, proposals[p].owner)
    <3>1. CASE k = n
      BY Zenon, <3>1
    <3>2. CASE k # n
      BY Zenon, <1>2, <3>2 DEF Only, Keeps, Votes, VotesYes
    <3> QED
      BY Zenon, <3>1, <3>2
  <2> QED
    BY Zenon, <1>2, <1>6, <2>1, ShareFrame DEF TypeInv, DkgInv
<1> QED
  BY Zenon, <1>2, <1>5, <1>7 DEF TypeInv, DkgInv

=============================================================================
