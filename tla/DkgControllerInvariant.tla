----------------------- MODULE DkgControllerInvariant -----------------------
(***************************************************************************)
(* The inductive invariant of DkgController, what the transactions keep of *)
(* the contract, and what a step of one member keeps of the others.        *)
(*                                                                         *)
(* The argument is about the proposal of a share: the last one of its      *)
(* owner, IsLast(p, o).  Proposals of older epochs stay in the multisig    *)
(* and may be voted on, but nobody mistakes one for the proposal of a      *)
(* share of the current epoch.                                             *)
(***************************************************************************)
EXTENDS DkgController, FiniteSetTheorems, WellFoundedInduction, TLAPS

\* Time for the leaves that expand much.
USE SMTT(30), ZenonT(30)

-----------------------------------------------------------------------------
(* The shape of the state.                                                 *)

Keys == [epoch_id : Nat, from : SUBSET Dealer]
Shares == [key : Keys, verified : BOOLEAN]
Statuses == {"Open", "Passed", "Rejected", "Executed"}
Proposals == [owner : Dealer, resharing : BOOLEAN, status : Statuses,
              yes : SUBSET Dealer, no : SUBSET Dealer]
States == {EpochStates[i] : i \in 1..7}
Epochs == [state : States, epoch_id : Nat, resharing : BOOLEAN, late : BOOLEAN,
           registered_dealers : Nat, registered_resharing_dealers : Nat,
           submitted_dealings : Nat, submitted_key_shares : Nat, verified_keys : Nat]
Parts == [Index -> (SUBSET Chunk) \cup {None}]

\* What a DkgState holds besides the votes and the dealings it generated.
MemType(m) ==
    /\ m \in [epoch_id : Nat \cup {None}, registered : BOOLEAN, cached : BOOLEAN,
              generated : {m.generated}, dealt : BOOLEAN,
              derived : {"none", "ok", "failed"}, partials : (SUBSET Dealer) \cup {None},
              proposal : Nat, votes : {m.votes}, validated : BOOLEAN, finalized : BOOLEAN]
    /\ m.votes \in [DOMAIN m.votes -> BOOLEAN]

\* What a stuck transaction may ask for.
TxType(tx) ==
    /\ tx.op \in {"register", "metadata", "chunk", "share", "vote", "execute"}
    /\ tx.op = "metadata" => tx.index \in Index
    /\ tx.op = "chunk" => tx.index \in Index /\ tx.chunk \in Chunk
    /\ tx.op = "share" => tx.key \in Keys /\ tx.resharing \in BOOLEAN
    /\ tx.op = "vote" => tx.id \in 1..Len(proposals) /\ tx.vote \in BOOLEAN
    /\ tx.op = "execute" => tx.id \in 1..Len(proposals)

ChainType ==
    /\ env \in Environments
    /\ epoch \in Epochs
    /\ epoch.epoch_id <= env.last
    /\ dealers \subseteq env.group
    /\ dealings = [d \in Dealer |-> [secret |-> dealings[d].secret, parts |-> dealings[d].parts]]
    /\ \A d \in Dealer : dealings[d].parts \in Parts
    /\ vkShares \in [Dealer -> Shares \cup {None}]
    /\ proposals \in Seq(Proposals)

Shaped ==
    /\ mem = [n \in Dealer |-> mem[n]] /\ disk = [n \in Dealer |-> disk[n]]
    /\ key = [n \in Dealer |-> key[n]] /\ keyFile = [n \in Dealer |-> keyFile[n]]
    /\ pc = [n \in Dealer |-> pc[n]] /\ mempool = [n \in Dealer |-> mempool[n]]

Labels == {"idle", "archiving", "dealing", "submitting", "voting"}

LocalType(n) ==
    /\ MemType(mem[n]) /\ MemType(disk[n])
    /\ key[n] \in Keys \cup {None} /\ keyFile[n] \in Keys \cup {None}
    /\ pc[n] \in Labels
    /\ mempool[n] # None => TxType(mempool[n])

NodeType == Shaped /\ \A n \in Dealer : LocalType(n)

TypeInv == ChainType /\ NodeType

-----------------------------------------------------------------------------
(* The inductive invariant.                                                *)

\* The id of a proposal of o that no later one follows.
IsLast(p, o) ==
    /\ p \in 1..Len(proposals) /\ proposals[p].owner = o
    /\ \A q \in 1..Len(proposals) : proposals[q].owner = o => q <= p

Current(m) == m.epoch_id = epoch.epoch_id

\* A key of this epoch is on disk.
HasKey(n) == keyFile[n] # None /\ keyFile[n].epoch_id = epoch.epoch_id

\* The order in which the handlers of an epoch get their work done.
Ordered(m) ==
    /\ m.derived # "none" => m.dealt
    /\ m.partials # None => m.dealt
    /\ m.dealt => m.registered
    /\ m.validated => m.derived = "ok"
    /\ m.derived = "ok" => m.proposal \in 1..Len(proposals)
    /\ DOMAIN m.votes \subseteq 1..Len(proposals)
    /\ m.epoch_id # None => m.epoch_id <= epoch.epoch_id

\* What memory and disk tell of a node in the current epoch.
Tracked(n) ==
    /\ Ordered(mem[n]) /\ Ordered(disk[n])
    /\ Current(mem[n]) /\ mem[n].registered => Current(disk[n]) /\ n \in dealers
    /\ Current(disk[n]) =>
          /\ Current(mem[n])
          /\ mem[n].registered = disk[n].registered /\ mem[n].dealt = disk[n].dealt
          /\ mem[n].derived = disk[n].derived /\ mem[n].proposal = disk[n].proposal
    /\ Current(mem[n]) /\ mem[n].derived = "ok" =>
          vkShares[n] # None /\ IsLast(mem[n].proposal, n)
    /\ Current(mem[n]) /\ mem[n].partials # None =>
          HasKey(n) /\ keyFile[n].from = mem[n].partials
    /\ Current(disk[n]) /\ disk[n].partials # None =>
          HasKey(n) /\ keyFile[n].from = disk[n].partials /\ disk[n].derived # "none"

\* What a handler that is under way has done.
UnderWay(n) ==
    /\ pc[n] # "idle" /\ n \in dealers => Current(mem[n])
    /\ pc[n] = "archiving" => key[n] = None /\ mem[n].registered /\ ~mem[n].dealt
    /\ pc[n] = "dealing" => mem[n].registered /\ ~mem[n].dealt
    /\ pc[n] = "submitting" =>
          /\ mem[n].dealt /\ mem[n].derived = "none" /\ mem[n].partials # None
    /\ pc[n] = "voting" => mem[n].derived = "ok"

\* A key in memory or on disk is of no later epoch, and one of this epoch is
\* on disk.
Keyed(n) ==
    /\ key[n] # None => /\ key[n].epoch_id <= epoch.epoch_id
                        /\ key[n].epoch_id = epoch.epoch_id => HasKey(n)
    /\ keyFile[n] # None => keyFile[n].epoch_id <= epoch.epoch_id

\* n has dealt in this epoch and has a key.
Dealt(n) ==
    /\ n \in dealers /\ Current(mem[n]) /\ mem[n].dealt /\ HasKey(n)

\* A stuck transaction is of the current epoch if its sender has registered in
\* it.
Stuck(n) ==
    mempool[n] # None =>
        /\ mempool[n].op = "register" => pc[n] = "idle" /\ n \notin dealers
        /\ mempool[n].op = "share" /\ n \in dealers => Dealt(n)
        /\ mempool[n].op = "execute" =>
              /\ proposals[mempool[n].id].owner = n
              /\ n \in dealers => vkShares[n] # None /\ IsLast(mempool[n].id, n)

Node(n) == Tracked(n) /\ UnderWay(n) /\ Keyed(n) /\ Stuck(n)

NodeInv == \A n \in Dealer : Node(n)

\* The share of o has its proposal, and counts as verified once the proposal
\* was executed.
ShareInv ==
    /\ \A o \in Shared :
          /\ Dealt(o)
          /\ \E p \in 1..Len(proposals) :
                /\ IsLast(p, o)
                /\ vkShares[o].verified <=> proposals[p].status = "Executed"
                /\ epoch.state = "VerificationKeySubmission" => proposals[p].status = "Open"
    /\ epoch.state \in {"WaitingInitialisation", "PublicKeySubmission", "DealingExchange"}
          => Shared = {}

\* n would vote, or has voted, for p.
Votes(n, p) == p \in DOMAIN mem[n].votes \/ p \in DOMAIN disk[n].votes
                \/ (mempool[n] # None /\ mempool[n].op = "vote" /\ mempool[n].id = p)
VotesYes(n, p) ==
    \/ p \in DOMAIN mem[n].votes /\ mem[n].votes[p]
    \/ p \in DOMAIN disk[n].votes /\ disk[n].votes[p]
    \/ mempool[n] # None /\ mempool[n].op = "vote" /\ mempool[n].id = p /\ mempool[n].vote
    \/ n \in proposals[p].yes

\* n has a key that fits the share of o, if that is another's.
Fits(n, o) == n = o \/ (n \in Shared /\ keyFile[n].from = vkShares[o].key.from)

\* A vote for another member's share was given by a member with a key that fits.
VoteInv ==
    /\ \A p \in 1..Len(proposals) :
          /\ proposals[p].yes \subseteq env.group
          /\ proposals[p].status \in {"Passed", "Executed"} =>
                Cardinality(proposals[p].yes) >= MultisigThreshold
    /\ \A o \in Shared, p \in 1..Len(proposals) : IsLast(p, o) =>
          \A n \in Dealer :
             /\ epoch.state = "VerificationKeySubmission" => ~Votes(n, p) /\ n \notin proposals[p].yes
             /\ VotesYes(n, p) => Fits(n, o)

DkgInv == ProgressMatchesStorage /\ NodeInv /\ ShareInv /\ VoteInv

IInv == TypeInv /\ DkgInv

-----------------------------------------------------------------------------
(* Sets, and the states of an epoch.                                       *)

\* get_validation_proposals: some ids have a highest one.
LEMMA HighestId ==
    ASSUME NEW n \in Nat, NEW S \in SUBSET (1..n), S # {}
    PROVE  \E x \in S : \A y \in S : y <= x
<1>1. IsFiniteSet(S)
  <2>1. IsFiniteSet(1..n)
    BY FS_Interval
  <2> QED
    BY ZenonT(30), <2>1, FS_Subset
<1>2. \A x \in S : x \in Int
  OBVIOUS
<1> DEFINE Above(x) == {y \in S : y >= x}
           F == {Above(x) : x \in S}
<1>3. IsWellFoundedOn(StrictSubsetOrdering(S), SUBSET S)
  BY ZenonT(30), <1>1, FS_StrictSubsetOrderingWellFounded, FS_FiniteSubsetsOfFinite
<1>4. F # {} /\ F \subseteq SUBSET S
  BY ZenonT(30)
<1>5. PICK T \in F : \A V \in F : ~(<<V, T>> \in StrictSubsetOrdering(S))
  <2> HIDE DEF F
  <2> QED
    BY ZenonT(30), <1>3, <1>4, WFMin
<1>6. PICK x \in S : T = Above(x)
  BY Zenon
<1>7. ASSUME NEW y \in S, y > x PROVE FALSE
  <2>1. Above(y) \subseteq Above(x) /\ Above(y) # Above(x)
    <3>1. \A z \in S : z >= y => z >= x
      BY <1>2, <1>7
    <3>2. x \in Above(x) /\ x \notin Above(y)
      BY <1>2, <1>7
    <3> QED
      BY ZenonT(30), <3>1, <3>2
  <2>2. Above(y) \in F /\ Above(y) \subseteq S /\ Above(x) \subseteq S
    BY Zenon
  <2> HIDE DEF Above, F
  <2>3. <<Above(y), Above(x)>> \in StrictSubsetOrdering(S)
    BY Zenon, <2>1, <2>2 DEF StrictSubsetOrdering
  <2> QED
    BY Zenon, <1>5, <1>6, <2>2, <2>3
<1> QED
  BY <1>2, <1>7

\* EpochState::next follows the order of the states.
LEMMA NextState ==
    ASSUME NEW s \in States
    PROVE  /\ EpochStateNext(s) \in States
           /\ EpochStateNext(s) # "WaitingInitialisation"
           /\ EpochStateNext(s) = "PublicKeySubmission" => s = "WaitingInitialisation"
           /\ EpochStateNext(s) = "DealingExchange" => s = "PublicKeySubmission"
           /\ EpochStateNext(s) = "VerificationKeySubmission" => s = "DealingExchange"
<1>1. CASE s = "InProgress"
  BY Zenon, <1>1 DEF EpochStateNext
<1>2. CASE s # "InProgress"
  <2>1. PICK i \in 1..6 : s = EpochStates[i]
    BY <1>2 DEF States, EpochStates
  <2>2. \A j, k \in 1..6 : EpochStates[j] = EpochStates[k] => j = k
    BY DEF EpochStates
  <2>3. (CHOOSE j \in 1..6 : EpochStates[j] = s) = i
    BY Zenon, <2>1, <2>2
  <2>4. EpochStateNext(s) = EpochStates[1 + i]
    BY <1>2, <2>3, Zenon DEF EpochStateNext
  <2> QED
    BY <2>1, <2>4 DEF EpochStates, States
<1> QED
  BY Zenon, <1>1, <1>2

\* One element more.
LEMMA OneMore ==
    ASSUME NEW S, IsFiniteSet(S), NEW x, x \notin S
    PROVE  Cardinality(S \cup {x}) = Cardinality(S) + 1 /\ Cardinality(S) \in Nat
BY Zenon, FS_AddElement, FS_CardinalityType

-----------------------------------------------------------------------------
(* The transactions: types and counters.                                   *)

DoneDealings == {di \in Dealer \X Index : dealings[di[1]].parts[di[2]] = Chunk}

\* What is counted is finite.
LEMMA Counted ==
    ASSUME ChainType
    PROVE  /\ IsFiniteSet(env.group) /\ env.group \subseteq Dealer /\ env.group # {}
           /\ dealers \subseteq Dealer /\ IsFiniteSet(dealers)
           /\ IsFiniteSet(DoneDealings) /\ IsFiniteSet(Shared) /\ IsFiniteSet(Verified)
<1>1. env.group \subseteq Dealer /\ env.group # {} /\ dealers \subseteq Dealer
  BY ZenonT(30), EnvironmentsAssumption DEF ChainType
<1>2. IsFiniteSet(Dealer \X Index)
  BY Zenon, ContractAssumption, FS_Product
<1>3. DoneDealings \subseteq Dealer \X Index /\ Shared \subseteq Dealer /\ Verified \subseteq Dealer
  BY Zenon DEF DoneDealings, Shared, Verified
<1> QED
  BY Zenon, <1>1, <1>2, <1>3, ContractAssumption, FS_Subset

\* try_add_dealer counts the dealer it adds.
LEMMA AddDealerChain ==
    ASSUME ChainType, ProgressMatchesStorage, NEW d \in Dealer, NEW r, TryAddDealer(d, r)
    PROVE  ChainType' /\ ProgressMatchesStorage'
<1>1. /\ epoch \in Epochs /\ d \in env.group /\ d \notin dealers /\ epoch.resharing = r
      /\ dealers' = dealers \cup {d}
      /\ UNCHANGED <<env, threshold, dealings, vkShares, previous, proposals>>
  BY Zenon DEF ChainType, TryAddDealer, CheckEpochState
<1>2. PICK x \in Nat, y \in Nat :
         /\ x = epoch.registered_dealers + 1
         /\ y = IF r /\ d \in previous.dealers THEN epoch.registered_resharing_dealers + 1
                                               ELSE epoch.registered_resharing_dealers
  BY <1>1 DEF Epochs
<1>3. epoch' = [epoch EXCEPT !.registered_dealers = x, !.registered_resharing_dealers = y]
  BY Zenon, <1>2 DEF TryAddDealer
<1>4. /\ epoch' \in Epochs /\ epoch'.epoch_id = epoch.epoch_id /\ epoch'.resharing = r
      /\ epoch'.registered_dealers = x /\ epoch'.registered_resharing_dealers = y
      /\ epoch'.submitted_dealings = epoch.submitted_dealings
      /\ epoch'.submitted_key_shares = epoch.submitted_key_shares
      /\ epoch'.verified_keys = epoch.verified_keys
  BY ZenonT(30), <1>1, <1>3 DEF Epochs
<1>5. ChainType'
  BY Zenon, <1>1, <1>4 DEF ChainType
<1>6. x = Cardinality(dealers')
  BY Zenon, <1>1, <1>2, Counted, OneMore DEF ProgressMatchesStorage
<1>7. y = IF r THEN Cardinality(dealers' \cap previous.dealers) ELSE 0
  <2>1. IsFiniteSet(dealers \cap previous.dealers)
    BY ZenonT(30), Counted, FS_Intersection
  <2>2. CASE d \in previous.dealers
    <3>1. dealers' \cap previous.dealers = (dealers \cap previous.dealers) \cup {d}
      BY Zenon, <1>1, <2>2
    <3>2. Cardinality(dealers' \cap previous.dealers) = Cardinality(dealers \cap previous.dealers) + 1
      BY Zenon, <1>1, <2>1, <3>1, OneMore
    <3> QED
      BY Zenon, <1>1, <1>2, <2>2, <3>2 DEF ProgressMatchesStorage
  <2>3. CASE d \notin previous.dealers
    <3>1. dealers' \cap previous.dealers = dealers \cap previous.dealers
      BY Zenon, <1>1, <2>3
    <3> QED
      BY ZenonT(30), <1>1, <1>2, <2>3, <3>1 DEF ProgressMatchesStorage
  <2> QED
    BY Zenon, <2>2, <2>3
<1>8. ProgressMatchesStorage'
  BY Zenon, <1>1, <1>4, <1>6, <1>7 DEF ProgressMatchesStorage, Shared, Verified
<1> QED
  BY Zenon, <1>5, <1>8

\* try_submit_dealings_metadata: no dealing is complete without its chunks.
LEMMA MetadataChain ==
    ASSUME ChainType, ProgressMatchesStorage, NEW d \in Dealer, NEW i \in Index, NEW r, NEW secret,
           TrySubmitDealingsMetadata(d, i, r, secret)
    PROVE  ChainType' /\ ProgressMatchesStorage'
<1>1. /\ dealings[d].parts[i] = None
      /\ dealings' = [dealings EXCEPT ![d].parts[i] = {}, ![d].secret = secret]
      /\ UNCHANGED <<env, epoch, threshold, dealers, vkShares, previous, proposals>>
  BY Zenon DEF TrySubmitDealingsMetadata
<1>2. dealings[d].parts \in Parts
  BY Zenon DEF ChainType
<1> DEFINE parts == [dealings[d].parts EXCEPT ![i] = {}]
<1>3. parts \in Parts /\ parts[i] = {} /\ \A j \in Index : j # i => parts[j] = dealings[d].parts[j]
  BY Zenon, <1>2 DEF Parts
<1> HIDE DEF parts
<1>4. /\ dealings' = [x \in Dealer |-> [secret |-> dealings'[x].secret, parts |-> dealings'[x].parts]]
      /\ dealings'[d].parts = parts /\ \A x \in Dealer : x # d => dealings'[x] = dealings[x]
  <2>1. /\ dealings = [x \in Dealer |-> [secret |-> dealings[x].secret, parts |-> dealings[x].parts]]
        /\ dealings[d] = [secret |-> dealings[d].secret, parts |-> dealings[d].parts]
    BY Zenon DEF ChainType
  <2>2. PICK s, q : dealings[d] = [secret |-> s, parts |-> q] /\ q = dealings[d].parts
    BY ZenonT(30), <2>1
  <2>3. dealings' = [dealings EXCEPT ![d] = [secret |-> secret, parts |-> parts]]
    <3>1. dealings' = [dealings EXCEPT ![d] = [[dealings[d] EXCEPT !.parts = parts] EXCEPT !.secret = secret]]
      BY ZenonT(30), <1>1, <2>1 DEF parts
    <3>2. [[dealings[d] EXCEPT !.parts = parts] EXCEPT !.secret = secret]
            = [secret |-> secret, parts |-> parts]
      <4>1. [dealings[d] EXCEPT !.parts = parts] = [secret |-> s, parts |-> parts]
        BY <2>2
      <4>2. \A x : x = [secret |-> s, parts |-> parts] =>
                     [x EXCEPT !.secret = secret] = [secret |-> secret, parts |-> parts]
        OBVIOUS
      <4> QED
        BY <4>1, <4>2, Zenon
    <3> QED
      BY ZenonT(30), <3>1, <3>2
  <2> QED
    BY Zenon, <2>1, <2>3
<1>5. ChainType'
  BY ZenonT(30), <1>1, <1>3, <1>4 DEF ChainType
<1>6. {} # Chunk /\ None # Chunk
  BY Zenon, ContractAssumption, NoneAssumption
<1>7. \A x \in Dealer, j \in Index :
          dealings'[x].parts[j] = Chunk <=> dealings[x].parts[j] = Chunk
  BY ZenonT(30), <1>1, <1>3, <1>4, <1>6
<1>8. DoneDealings' = DoneDealings
  BY Zenon, <1>7 DEF DoneDealings
<1>9. ProgressMatchesStorage'
  BY ZenonT(30), <1>1, <1>8 DEF ProgressMatchesStorage, DoneDealings, Shared, Verified
<1> QED
  BY Zenon, <1>5, <1>9

\* try_commit_dealings_chunk counts a dealing with its last chunk.
LEMMA ChunkChain ==
    ASSUME ChainType, ProgressMatchesStorage, NEW d \in Dealer, NEW i \in Index, NEW c \in Chunk,
           TryCommitDealingsChunk(d, i, c)
    PROVE  ChainType' /\ ProgressMatchesStorage'
<1> DEFINE P == dealings[d].parts[i]
<1>1. /\ P # None /\ c \notin P
      /\ dealings' = [dealings EXCEPT ![d].parts[i] = P \cup {c}]
      /\ UNCHANGED <<env, threshold, dealers, vkShares, previous, proposals>>
  BY Zenon DEF TryCommitDealingsChunk
<1>2. dealings[d].parts \in Parts /\ P \in SUBSET Chunk
  BY Zenon, <1>1 DEF ChainType, Parts
<1> DEFINE parts == [dealings[d].parts EXCEPT ![i] = P \cup {c}]
<1>3. /\ parts \in Parts /\ parts[i] = P \cup {c}
      /\ \A j \in Index : j # i => parts[j] = dealings[d].parts[j]
  BY Zenon, <1>2 DEF Parts
<1> HIDE DEF parts
<1>4. /\ dealings' = [x \in Dealer |-> [secret |-> dealings'[x].secret, parts |-> dealings'[x].parts]]
      /\ dealings'[d].parts = parts /\ \A x \in Dealer : x # d => dealings'[x] = dealings[x]
  <2>1. /\ dealings = [x \in Dealer |-> [secret |-> dealings[x].secret, parts |-> dealings[x].parts]]
        /\ dealings[d] = [secret |-> dealings[d].secret, parts |-> dealings[d].parts]
    BY Zenon DEF ChainType
  <2>2. PICK s, q : dealings[d] = [secret |-> s, parts |-> q] /\ q = dealings[d].parts
    BY Zenon, <2>1
  <2>3. dealings' = [dealings EXCEPT ![d] = [dealings[d] EXCEPT !.parts = parts]]
    BY Zenon, <1>1, <2>1 DEF parts
  <2>4. dealings' = [dealings EXCEPT ![d] = [secret |-> s, parts |-> parts]]
    <3>1. [dealings[d] EXCEPT !.parts = parts] = [secret |-> s, parts |-> parts]
      BY <2>2
    <3> QED
      BY ZenonT(30), <2>3, <3>1
  <2> QED
    BY Zenon, <2>1, <2>4
<1>5. epoch \in Epochs /\ epoch.submitted_dealings = Cardinality(DoneDealings)
  BY Zenon DEF ChainType, ProgressMatchesStorage, DoneDealings
<1>6. PICK k \in Nat : k = IF P \cup {c} = Chunk THEN epoch.submitted_dealings + 1
                                              ELSE epoch.submitted_dealings
  BY <1>5 DEF Epochs
<1>7. epoch' = [epoch EXCEPT !.submitted_dealings = k]
  BY ZenonT(30), <1>3, <1>4, <1>6 DEF TryCommitDealingsChunk
<1>8. /\ epoch' \in Epochs /\ epoch'.epoch_id = epoch.epoch_id /\ epoch'.resharing = epoch.resharing
      /\ epoch'.registered_dealers = epoch.registered_dealers
      /\ epoch'.registered_resharing_dealers = epoch.registered_resharing_dealers
      /\ epoch'.submitted_dealings = k
      /\ epoch'.submitted_key_shares = epoch.submitted_key_shares
      /\ epoch'.verified_keys = epoch.verified_keys
  BY Zenon, <1>5, <1>7 DEF Epochs
<1>9. ChainType'
  BY ZenonT(30), <1>1, <1>3, <1>4, <1>8 DEF ChainType
<1>10. P # Chunk
  BY Zenon, <1>1
<1>11. \A x \in Dealer, j \in Index :
          dealings'[x].parts[j] = Chunk <=>
             (dealings[x].parts[j] = Chunk \/ (x = d /\ j = i /\ P \cup {c} = Chunk))
  BY ZenonT(30), <1>3, <1>4, <1>10
<1>12. k = Cardinality(DoneDealings')
  <2>1. CASE P \cup {c} = Chunk
    <3>1. DoneDealings' = DoneDealings \cup {<<d, i>>} /\ <<d, i>> \notin DoneDealings
      BY <1>10, <1>11, <2>1 DEF DoneDealings
    <3> QED
      BY Zenon, <1>5, <1>6, <2>1, <3>1, Counted, OneMore
  <2>2. CASE P \cup {c} # Chunk
    <3>1. DoneDealings' = DoneDealings
      BY <1>11, <2>2 DEF DoneDealings
    <3> QED
      BY Zenon, <1>5, <1>6, <2>2, <3>1
  <2> QED
    BY Zenon, <2>1, <2>2
<1>13. ProgressMatchesStorage'
  BY Zenon, <1>1, <1>8, <1>12 DEF ProgressMatchesStorage, DoneDealings, Shared, Verified
<1> QED
  BY Zenon, <1>9, <1>13

\* try_commit_verification_key_share stores the share, counts it and makes the
\* proposal that follows all others.
LEMMA ShareChain ==
    ASSUME ChainType, ProgressMatchesStorage, NEW d \in Dealer, NEW r, NEW k \in Keys,
           TryCommitVerificationKeyShare(d, r, k)
    PROVE  /\ ChainType' /\ ProgressMatchesStorage'
           /\ epoch.state = "VerificationKeySubmission" /\ epoch'.state = epoch.state
           /\ epoch'.epoch_id = epoch.epoch_id /\ UNCHANGED <<env, dealers>>
           /\ d \in dealers /\ d \notin Shared /\ Shared' = Shared \cup {d}
           /\ vkShares'[d] = [key |-> k, verified |-> FALSE]
           /\ \A n \in Dealer : n # d => vkShares'[n] = vkShares[n]
           /\ Len(proposals) \in Nat /\ Len(proposals') = Len(proposals) + 1
           /\ \A p \in 1..Len(proposals) : proposals'[p] = proposals[p]
           /\ proposals'[Len(proposals) + 1].owner = d
           /\ proposals'[Len(proposals) + 1].status = "Open"
           /\ proposals'[Len(proposals) + 1].yes = {}
<1> DEFINE new == [owner |-> d, resharing |-> r, status |-> "Open", yes |-> {}, no |-> {}]
<1> DEFINE share == [key |-> k, verified |-> FALSE]
<1>1. /\ epoch \in Epochs /\ epoch.state = "VerificationKeySubmission" /\ epoch.resharing = r
      /\ d \in dealers /\ vkShares[d] = None /\ vkShares' = [vkShares EXCEPT ![d] = share]
      /\ proposals' = Append(proposals, new)
      /\ UNCHANGED <<env, threshold, dealers, dealings, previous>>
  BY Zenon DEF TryCommitVerificationKeyShare, CheckEpochState, ChainType
<1>2. new \in Proposals /\ new.owner = d /\ new.status = "Open" /\ new.yes = {}
  BY Zenon, <1>1 DEF Proposals, Statuses, Epochs
<1>3. share \in Shares /\ share # None /\ ~share.verified
  <2>1. share \in Shares /\ ~share.verified
    BY Zenon DEF Shares
  <2>2. None \notin Shares
    BY Zenon, NoneAssumption DEF Shares, Keys
  <2> QED
    BY ZenonT(30), <2>1, <2>2
<1>4. PICK c \in Nat : c = epoch.submitted_key_shares + 1
  BY <1>1 DEF Epochs
<1>5. epoch' = [epoch EXCEPT !.submitted_key_shares = c]
  BY Zenon, <1>4 DEF TryCommitVerificationKeyShare
<1>6. /\ epoch' \in Epochs /\ epoch'.epoch_id = epoch.epoch_id /\ epoch'.resharing = epoch.resharing
      /\ epoch'.state = epoch.state
      /\ epoch'.registered_dealers = epoch.registered_dealers
      /\ epoch'.registered_resharing_dealers = epoch.registered_resharing_dealers
      /\ epoch'.submitted_dealings = epoch.submitted_dealings
      /\ epoch'.submitted_key_shares = c
      /\ epoch'.verified_keys = epoch.verified_keys
  BY Zenon, <1>1, <1>5 DEF Epochs
<1> HIDE DEF new, share
<1>7. /\ vkShares' \in [Dealer -> Shares \cup {None}] /\ vkShares'[d] = share
      /\ \A n \in Dealer : n # d => vkShares'[n] = vkShares[n]
  BY Zenon, <1>1, <1>3 DEF ChainType
<1>8. /\ proposals' \in Seq(Proposals) /\ Len(proposals) \in Nat
      /\ Len(proposals') = Len(proposals) + 1
      /\ \A p \in 1..Len(proposals) : proposals'[p] = proposals[p]
      /\ proposals'[Len(proposals) + 1] = new
  BY <1>1, <1>2 DEF ChainType
<1>9. Shared' = Shared \cup {d} /\ d \notin Shared /\ Verified' = Verified
  BY Zenon, <1>1, <1>3, <1>7 DEF Shared, Verified
<1>10. ChainType'
  BY Zenon, <1>1, <1>6, <1>7, <1>8 DEF ChainType
<1>11. c = Cardinality(Shared')
  BY Zenon, <1>4, <1>9, Counted, OneMore DEF ProgressMatchesStorage
<1>12. ProgressMatchesStorage'
  BY Zenon, <1>1, <1>6, <1>9, <1>11 DEF ProgressMatchesStorage
<1> QED
  BY Zenon, <1>1, <1>2, <1>6, <1>7, <1>8, <1>9, <1>10, <1>12 DEF share

\* A proposal has passed with enough votes.
PassedBy(props, group) ==
    \A p \in 1..Len(props) :
        /\ props[p].yes \subseteq group
        /\ props[p].status \in {"Passed", "Executed"} =>
              Cardinality(props[p].yes) >= MultisigThreshold

\* execute_vote: a vote adds its voter, and may decide an open proposal.
LEMMA VoteChain ==
    ASSUME ChainType, ProgressMatchesStorage, NEW d \in Dealer, NEW id \in 1..Len(proposals),
           NEW vote \in BOOLEAN, ExecuteVote(d, id, vote), PassedBy(proposals, env.group)
    PROVE  /\ ChainType' /\ ProgressMatchesStorage' /\ PassedBy(proposals, env.group)'
           /\ UNCHANGED <<env, epoch, dealers, vkShares>>
           /\ Len(proposals') = Len(proposals)
           /\ \A p \in 1..Len(proposals) :
                 /\ proposals'[p].owner = proposals[p].owner
                 /\ p # id => proposals'[p] = proposals[p]
                 /\ proposals'[p].status = "Executed" <=> proposals[p].status = "Executed"
                 /\ \A n \in proposals'[p].yes : n \in proposals[p].yes \/ (n = d /\ p = id /\ vote)
<1> DEFINE p == proposals[id]
<1> DEFINE q == IF vote THEN [p EXCEPT !.yes = @ \cup {d}] ELSE [p EXCEPT !.no = @ \cup {d}]
<1>1. /\ p.status # "Executed" /\ d \in env.group
      /\ proposals' = [proposals EXCEPT ![id] = UpdateStatus(q)]
      /\ UNCHANGED <<env, epoch, threshold, dealers, dealings, vkShares, previous>>
  BY Zenon DEF ExecuteVote
<1>2. p \in Proposals /\ proposals \in Seq(Proposals) /\ Len(proposals) \in Nat
  BY DEF ChainType
<1>3. /\ q \in Proposals /\ q.owner = p.owner /\ q.status = p.status /\ p.yes \subseteq q.yes
      /\ q.yes \subseteq p.yes \cup {d} /\ (~vote => q.yes = p.yes)
  BY Zenon, <1>2 DEF Proposals
<1> HIDE DEF q
<1> DEFINE u == UpdateStatus(q)
<1>4. /\ u \in Proposals /\ u.owner = q.owner /\ u.yes = q.yes
      /\ u.status = IF q.status # "Open" THEN q.status
                    ELSE IF Cardinality(q.yes) >= MultisigThreshold THEN "Passed"
                    ELSE IF Cardinality(q.no) > MultisigVeto
                         THEN "Rejected" ELSE "Open"
  BY Zenon, <1>3 DEF UpdateStatus, Proposals, Statuses
<1> HIDE DEF u
<1>5. /\ proposals' \in Seq(Proposals) /\ Len(proposals') = Len(proposals)
      /\ proposals'[id] = u /\ \A x \in 1..Len(proposals) : x # id => proposals'[x] = proposals[x]
  <2>1. proposals' = [proposals EXCEPT ![id] = u]
    BY Zenon, <1>1 DEF u
  <2> QED
    BY <1>2, <1>4, <2>1
<1>6. ChainType'
  BY Zenon, <1>1, <1>5 DEF ChainType
<1>7. ProgressMatchesStorage'
  BY Zenon, <1>1 DEF ProgressMatchesStorage, Shared, Verified
<1>8. /\ u.yes \subseteq env.group
      /\ u.status \in {"Passed", "Executed"} => Cardinality(u.yes) >= MultisigThreshold
  <2>1. p.yes \subseteq env.group /\ u.yes \subseteq env.group /\ p.yes \subseteq u.yes
    BY Zenon, <1>1, <1>3, <1>4 DEF PassedBy
  <2>2. IsFiniteSet(u.yes)
    BY Zenon, <2>1, Counted, FS_Subset
  <2>3. Cardinality(p.yes) <= Cardinality(u.yes) /\ Cardinality(p.yes) \in Nat /\ Cardinality(u.yes) \in Nat
    BY Zenon, <2>1, <2>2, FS_Subset, FS_CardinalityType
  <2>4. MultisigThreshold \in Nat
    BY Counted, FS_CardinalityType DEF MultisigThreshold
  <2>5. p.status \in {"Passed", "Executed"} => Cardinality(u.yes) >= MultisigThreshold
    <3>1. p.status \in {"Passed", "Executed"} => Cardinality(p.yes) >= MultisigThreshold
      BY Zenon DEF PassedBy
    <3> QED
      BY <2>3, <2>4, <3>1
  <2> QED
    BY Zenon, <1>3, <1>4, <2>1, <2>5
<1>9. PassedBy(proposals, env.group)'
  <2>1. MultisigThreshold' = MultisigThreshold
    BY Zenon, <1>1 DEF MultisigThreshold
  <2> QED
    BY Zenon, <1>1, <1>5, <1>8, <2>1 DEF PassedBy
<1> QED
  BY <1>1, <1>3, <1>4, <1>5, <1>6, <1>7, <1>9

\* execute_execute with try_verify_verification_key_share: the share is counted
\* if it was not before.
LEMMA ExecuteChain ==
    ASSUME ChainType, ProgressMatchesStorage, PassedBy(proposals, env.group),
           NEW id \in 1..Len(proposals), NEW o \in Dealer, proposals[id].owner = o,
           ExecuteExecute(id), ~vkShares[o].verified
    PROVE  /\ ChainType' /\ ProgressMatchesStorage' /\ PassedBy(proposals, env.group)'
           /\ UNCHANGED <<env, dealers>>
           /\ epoch.state = "VerificationKeyFinalization" /\ epoch'.state = epoch.state
           /\ epoch'.epoch_id = epoch.epoch_id
           /\ Shared' = Shared /\ o \in Shared /\ vkShares'[o].verified
           /\ \A n \in Dealer : n # o => vkShares'[n] = vkShares[n]
           /\ \A n \in Shared : vkShares'[n].key = vkShares[n].key
           /\ Len(proposals') = Len(proposals) /\ proposals'[id].status = "Executed"
           /\ \A p \in 1..Len(proposals) :
                 /\ p # id => proposals'[p] = proposals[p]
                 /\ proposals'[p].owner = proposals[p].owner
                 /\ proposals'[p].yes = proposals[p].yes
<1>1. /\ epoch \in Epochs /\ epoch.state = "VerificationKeyFinalization"
      /\ vkShares[o] # None /\ vkShares' = [vkShares EXCEPT ![o].verified = TRUE]
      /\ proposals[id].status = "Passed"
      /\ proposals' = [proposals EXCEPT ![id].status = "Executed"]
      /\ UNCHANGED <<env, threshold, dealers, dealings, previous>>
  BY Zenon DEF ExecuteExecute, TryVerifyVerificationKeyShare, CheckEpochState, ChainType
<1>2. PICK c \in Nat : c = epoch.verified_keys + 1
  BY <1>1 DEF Epochs
<1>3. epoch' = [epoch EXCEPT !.verified_keys = c]
  BY Zenon, <1>2 DEF ExecuteExecute, TryVerifyVerificationKeyShare
<1>4. /\ epoch' \in Epochs /\ epoch'.epoch_id = epoch.epoch_id /\ epoch'.resharing = epoch.resharing
      /\ epoch'.state = epoch.state
      /\ epoch'.registered_dealers = epoch.registered_dealers
      /\ epoch'.registered_resharing_dealers = epoch.registered_resharing_dealers
      /\ epoch'.submitted_dealings = epoch.submitted_dealings
      /\ epoch'.submitted_key_shares = epoch.submitted_key_shares
      /\ epoch'.verified_keys = c
  BY Zenon, <1>1, <1>3 DEF Epochs
<1> DEFINE v == [vkShares[o] EXCEPT !.verified = TRUE]
<1>5. vkShares[o] \in Shares /\ v \in Shares /\ v.verified /\ v.key = vkShares[o].key
  BY ZenonT(30), <1>1 DEF ChainType, Shares
<1>6. None \notin Shares
  BY Zenon, NoneAssumption DEF Shares, Keys
<1>7. vkShares' = [vkShares EXCEPT ![o] = v]
  BY Zenon, <1>1
<1> HIDE DEF v
<1>8. /\ vkShares' \in [Dealer -> Shares \cup {None}] /\ vkShares'[o] = v
      /\ \A n \in Dealer : n # o => vkShares'[n] = vkShares[n]
  BY Zenon, <1>5, <1>7 DEF ChainType
<1>9. /\ Shared' = Shared /\ o \in Shared
      /\ Verified' = Verified \cup {o} /\ o \notin Verified
      /\ \A n \in Shared : vkShares'[n].key = vkShares[n].key
  BY ZenonT(30), <1>1, <1>5, <1>6, <1>8 DEF Shared, Verified
<1> DEFINE q == [proposals[id] EXCEPT !.status = "Executed"]
<1>10. proposals \in Seq(Proposals) /\ proposals[id] \in Proposals /\ proposals' = [proposals EXCEPT ![id] = q]
  BY <1>1 DEF ChainType
<1>11. /\ q \in Proposals /\ q.status = "Executed" /\ q.owner = proposals[id].owner
       /\ q.yes = proposals[id].yes
  <2>1. proposals[id] \in Proposals
    BY Zenon, <1>10
  <2> QED
    BY Zenon, <2>1 DEF Proposals, Statuses
<1> HIDE DEF q
<1>12. /\ proposals' \in Seq(Proposals) /\ Len(proposals') = Len(proposals)
       /\ proposals'[id] = q /\ \A x \in 1..Len(proposals) : x # id => proposals'[x] = proposals[x]
  BY <1>10, <1>11
<1>13. ChainType'
  BY Zenon, <1>1, <1>4, <1>8, <1>12 DEF ChainType
<1>14. c = Cardinality(Verified')
  BY <1>2, <1>9, Counted, OneMore DEF ProgressMatchesStorage
<1>15. ProgressMatchesStorage'
  BY Zenon, <1>1, <1>4, <1>9, <1>14 DEF ProgressMatchesStorage
<1>16. PassedBy(proposals, env.group)'
  <2>1. MultisigThreshold' = MultisigThreshold
    BY Zenon, <1>1 DEF MultisigThreshold
  <2> QED
    BY <1>1, <1>11, <1>12, <2>1 DEF PassedBy
<1> QED
  BY Zenon, <1>1, <1>4, <1>5, <1>8, <1>9, <1>11, <1>12, <1>13, <1>15, <1>16

-----------------------------------------------------------------------------
(* What the steps leave alone.                                             *)

\* n keeps what it has; its stuck transaction may be gone.
Keeps(n) ==
    /\ UNCHANGED <<mem[n], disk[n], key[n], keyFile[n], pc[n]>>
    /\ mempool'[n] \in {mempool[n], None}

\* Only n does something.
Only(n) == Shaped' /\ \A k \in Dealer : k # n => Keeps(k)

\* The contracts know of n what they knew, and no proposal of n is new.
SameFor(n) ==
    /\ epoch'.epoch_id = epoch.epoch_id
    /\ n \in dealers' <=> n \in dealers
    /\ vkShares'[n] # None <=> vkShares[n] # None
    /\ Len(proposals) \in Nat /\ Len(proposals') \in Nat /\ Len(proposals) <= Len(proposals')
    /\ \A p \in 1..Len(proposals) : proposals'[p].owner = proposals[p].owner
    /\ \A p \in 1..Len(proposals') : proposals'[p].owner = n => p \in 1..Len(proposals)

\* The last proposal of n stays its last.
LEMMA LastStays ==
    ASSUME NEW n, SameFor(n), NEW p, IsLast(p, n)
    PROVE  IsLast(p, n)'
BY DEF SameFor, IsLast

\* A node that keeps what it has keeps its invariant.
LEMMA NodeFrame ==
    ASSUME NEW n \in Dealer, NodeType, Node(n), SameFor(n), Keeps(n)
    PROVE  Node(n)'
<1>1. HasKey(n)' <=> HasKey(n)
  BY Zenon DEF HasKey, SameFor, Keeps
<1>2. /\ Current(mem[n])' <=> Current(mem[n])
      /\ Current(disk[n])' <=> Current(disk[n])
  BY Zenon DEF Current, SameFor, Keeps
<1>3. Ordered(mem[n])' /\ Ordered(disk[n])'
  BY DEF Ordered, SameFor, Keeps, Node, Tracked
<1>4. Tracked(n)'
  <2>1. Current(mem[n]) /\ mem[n].derived = "ok" => IsLast(mem[n].proposal, n)'
    <3>1. PICK p : p = mem[n].proposal
      BY Zenon
    <3> QED
      BY Zenon, <3>1, LastStays DEF Node, Tracked, Keeps
  <2> QED
    BY Zenon, <1>1, <1>2, <1>3, <2>1 DEF Node, Tracked, Keeps, SameFor
<1>5. UnderWay(n)'
  BY Zenon, <1>2 DEF Node, UnderWay, Keeps, SameFor
<1>6. Keyed(n)'
  BY Zenon, <1>1 DEF Node, Keyed, Keeps, SameFor
<1>7. Stuck(n)'
  <2>1. Dealt(n) => Dealt(n)'
    BY Zenon, <1>1, <1>2 DEF Dealt, Keeps, SameFor
  <2>2. CASE mempool'[n] = None
    BY Zenon, <2>2 DEF Stuck
  <2>3. CASE mempool'[n] = mempool[n] /\ mempool[n] # None
    <3>1. PICK p : p = mempool[n].id
      BY Zenon
    <3>2. mempool[n].op = "execute" => proposals'[p].owner = n
      BY Zenon, <2>3, <3>1 DEF Node, Stuck, NodeType, LocalType, TxType, SameFor
    <3>3. mempool[n].op = "execute" /\ n \in dealers => IsLast(p, n)'
      BY Zenon, <2>3, <3>1, LastStays DEF Node, Stuck
    <3> QED
      BY Zenon, <1>2, <2>1, <2>3, <3>1, <3>2, <3>3 DEF Node, Stuck, Keeps, SameFor
  <2> QED
    BY Zenon, <2>2, <2>3 DEF Keeps
<1> QED
  BY Zenon, <1>4, <1>5, <1>6, <1>7 DEF Node

\* The types of the other nodes.
LEMMA TypeFrame ==
    ASSUME NodeType, NEW n \in Dealer, Only(n), LocalType(n)',
           Len(proposals) \in Nat, Len(proposals') \in Nat, Len(proposals) <= Len(proposals')
    PROVE  NodeType'
<1>1. ASSUME NEW k \in Dealer, k # n PROVE LocalType(k)'
  <2>1. Keeps(k) /\ LocalType(k)
    BY Zenon, <1>1 DEF Only, NodeType
  <2>2. mempool'[k] # None => TxType(mempool[k])'
    BY <2>1 DEF Keeps, LocalType, TxType
  <2> QED
    BY Zenon, <2>1, <2>2 DEF Keeps, LocalType, MemType
<1> QED
  BY Zenon, <1>1 DEF NodeType, Only

\* The other nodes keep their invariant.
LEMMA OthersFrame ==
    ASSUME NodeType, NodeInv, NEW n \in Dealer, Only(n), Node(n)',
           \A k \in Dealer : k # n => SameFor(k)
    PROVE  NodeInv'
BY Zenon, NodeFrame DEF NodeInv, Only

\* The shares and the votes on them stay as they are.
LEMMA ShareFrame ==
    ASSUME ChainType, ShareInv, VoteInv, UNCHANGED <<env, vkShares, proposals>>,
           epoch'.state = "VerificationKeySubmission" =>
               epoch.state = "VerificationKeySubmission" \/ Shared = {},
           epoch'.state \in {"WaitingInitialisation", "PublicKeySubmission", "DealingExchange"}
               => Shared = {},
           \A o \in Shared : Dealt(o)' /\ keyFile'[o] = keyFile[o],
           \A k \in Dealer, p \in 1..Len(proposals) :
               /\ epoch.state = "VerificationKeySubmission" /\ Votes(k, p)' => Votes(k, p)
               /\ VotesYes(k, p)' => VotesYes(k, p) \/ Fits(k, proposals[p].owner)
    PROVE  ShareInv' /\ VoteInv'
<1>1. Shared' = Shared /\ Shared \subseteq Dealer /\ MultisigThreshold' = MultisigThreshold
  BY Zenon DEF Shared, MultisigThreshold
<1>2. \A p, o : IsLast(p, o)' <=> IsLast(p, o)
  BY Zenon DEF IsLast
<1>3. ShareInv'
  BY Zenon, <1>1, <1>2 DEF ShareInv
<1>4. VoteInv'
  <2>1. ASSUME NEW o \in Shared, NEW p \in 1..Len(proposals), IsLast(p, o), NEW k \in Dealer
        PROVE  /\ epoch'.state = "VerificationKeySubmission" => ~Votes(k, p)' /\ k \notin proposals[p].yes
               /\ VotesYes(k, p)' => Fits(k, o)'
    <3>1. proposals[p].owner = o
      BY Zenon, <2>1 DEF IsLast
    <3>2. Fits(k, o) => Fits(k, o)'
      BY Zenon, <1>1 DEF Fits
    <3>3. epoch'.state = "VerificationKeySubmission" => epoch.state = "VerificationKeySubmission"
      BY Zenon
    <3>4. /\ epoch.state = "VerificationKeySubmission" => ~Votes(k, p) /\ k \notin proposals[p].yes
          /\ VotesYes(k, p) => Fits(k, o)
      BY Zenon, <2>1 DEF VoteInv
    <3> QED
      BY Zenon, <3>1, <3>2, <3>3, <3>4
  <2> QED
    BY Zenon, <1>1, <1>2, <2>1 DEF VoteInv
<1> QED
  BY Zenon, <1>3, <1>4

\* A step of n that the contracts do not notice.
LEMMA LocalStep ==
    ASSUME IInv, NEW n \in Dealer, Only(n), Node(n)',
           UNCHANGED <<env, dealers, vkShares, proposals>>,
           epoch'.epoch_id = epoch.epoch_id, epoch'.state = epoch.state,
           n \in Shared => Dealt(n)' /\ keyFile'[n] = keyFile[n],
           \A p \in 1..Len(proposals) :
               /\ epoch.state = "VerificationKeySubmission" /\ Votes(n, p)' => Votes(n, p)
               /\ VotesYes(n, p)' => VotesYes(n, p) \/ Fits(n, proposals[p].owner)
    PROVE  NodeInv' /\ ShareInv' /\ VoteInv'
<1>i. TypeInv /\ DkgInv
  BY Zenon DEF IInv
<1> USE <1>i
<1>1. Len(proposals) \in Nat
  BY DEF TypeInv, ChainType
<1>2. \A k \in Dealer : SameFor(k)
  BY <1>1 DEF SameFor
<1>3. NodeInv'
  BY Zenon, <1>2, OthersFrame DEF TypeInv, DkgInv
<1>4. ASSUME NEW k \in Dealer, k # n, NEW p \in 1..Len(proposals)
      PROVE  (Votes(k, p)' => Votes(k, p)) /\ (VotesYes(k, p)' => VotesYes(k, p))
  BY Zenon, <1>4 DEF Only, Keeps, Votes, VotesYes
<1>5. \A o \in Shared : o # n => Dealt(o)' /\ keyFile'[o] = keyFile[o]
  <2> SUFFICES ASSUME NEW o \in Shared, o # n PROVE Dealt(o)' /\ keyFile'[o] = keyFile[o]
    BY Zenon
  <2>1. Keeps(o) /\ Dealt(o)
    BY Zenon DEF Only, DkgInv, ShareInv, Shared
  <2> QED
    BY Zenon, <2>1 DEF Keeps, Dealt, HasKey, Current
<1>6. epoch'.state \in {"WaitingInitialisation", "PublicKeySubmission", "DealingExchange"}
         => Shared = {}
  BY Zenon DEF DkgInv, ShareInv
<1>7. ASSUME NEW k \in Dealer, NEW p \in 1..Len(proposals)
      PROVE  /\ epoch.state = "VerificationKeySubmission" /\ Votes(k, p)' => Votes(k, p)
             /\ VotesYes(k, p)' => VotesYes(k, p) \/ Fits(k, proposals[p].owner)
  BY Zenon, <1>4
<1>8. ShareInv' /\ VoteInv'
  BY Zenon, <1>5, <1>6, <1>7, ShareFrame DEF TypeInv, DkgInv
<1> QED
  BY Zenon, <1>3, <1>8

\* A step of n without a transaction.
LEMMA QuietVotes ==
    ASSUME IInv, NEW n \in Dealer, Only(n), UNCHANGED chain, LocalType(n)', Node(n)',
           n \in Shared => Dealt(n)' /\ keyFile'[n] = keyFile[n],
           \A p \in 1..Len(proposals) :
               /\ epoch.state = "VerificationKeySubmission" /\ Votes(n, p)' => Votes(n, p)
               /\ VotesYes(n, p)' => VotesYes(n, p) \/ Fits(n, proposals[p].owner)
    PROVE  IInv'
<1> SUFFICES ASSUME TypeInv, DkgInv PROVE TypeInv' /\ DkgInv'
  BY Zenon DEF IInv
<1>1. UNCHANGED <<env, epoch, threshold, dealers, dealings, vkShares, previous, proposals>>
  BY Zenon DEF chain
<1>2. Len(proposals) \in Nat
  BY DEF TypeInv, ChainType
<1>3. ChainType' /\ ProgressMatchesStorage'
  BY Zenon, <1>1 DEF TypeInv, DkgInv, ChainType, ProgressMatchesStorage, Shared, Verified
<1>4. NodeType'
  <2>1. NodeType
    BY Zenon DEF TypeInv
  <2>2. Len(proposals') \in Nat /\ Len(proposals) <= Len(proposals')
    BY <1>1, <1>2
  <2> QED
    BY <1>2, <2>1, <2>2, TypeFrame, Zenon
<1>5. NodeInv' /\ ShareInv' /\ VoteInv'
  BY Zenon, <1>1, LocalStep DEF IInv
<1> QED
  BY Zenon, <1>3, <1>4, <1>5 DEF TypeInv, DkgInv

\* ... and without new votes.
LEMMA QuietStep ==
    ASSUME IInv, NEW n \in Dealer, Only(n), UNCHANGED chain, LocalType(n)', Node(n)',
           n \in Shared => Dealt(n)' /\ keyFile'[n] = keyFile[n],
           \A p \in 1..Len(proposals) :
               (Votes(n, p)' => Votes(n, p)) /\ (VotesYes(n, p)' => VotesYes(n, p))
    PROVE  IInv'
<1> SUFFICES ASSUME TypeInv, DkgInv PROVE TypeInv' /\ DkgInv'
  BY Zenon DEF IInv
<1> QED
  BY Zenon, QuietVotes DEF IInv

\* A member that has not dealt has no share, and no stuck share or execution.
LEMMA NotDealt ==
    ASSUME DkgInv, NEW n \in Dealer, n \in dealers => ~(Current(mem[n]) /\ mem[n].dealt)
    PROVE  /\ n \notin Shared
           /\ mempool[n] # None /\ n \in dealers => mempool[n].op \notin {"share", "execute", "register"}
<1>1. n \notin Shared
  BY Zenon DEF DkgInv, ShareInv, Dealt
<1>2. Stuck(n)
  BY Zenon DEF DkgInv, NodeInv, Node
<1> QED
  BY Zenon, <1>1, <1>2 DEF Stuck, Dealt, Shared

-----------------------------------------------------------------------------
(* The first handlers, up to their transactions.                           *)

\* The state a registration starts from.
StartOf(n) ==
    IF mem[n].epoch_id = epoch.epoch_id THEN mem[n] ELSE DkgStateDefault(epoch.epoch_id)

\* It is of the current epoch and has nothing done.
LEMMA StartState ==
    ASSUME IInv, NEW n \in Dealer, NEW m, m = StartOf(n), ~m.registered
    PROVE  /\ MemType(m) /\ Ordered(m) /\ m.epoch_id = epoch.epoch_id
           /\ ~m.dealt /\ m.derived = "none" /\ m.partials = None
           /\ DOMAIN m.votes \subseteq DOMAIN mem[n].votes
           /\ \A p \in DOMAIN m.votes : m.votes[p] = mem[n].votes[p]
           /\ ~(Current(mem[n]) /\ mem[n].dealt)
<1>i. TypeInv /\ DkgInv
  BY Zenon DEF IInv
<1> USE <1>i
<1>1. MemType(mem[n]) /\ Ordered(mem[n]) /\ epoch.epoch_id \in Nat
  BY Zenon DEF TypeInv, NodeType, LocalType, ChainType, Epochs, DkgInv, NodeInv, Node, Tracked
<1>2. CASE mem[n].epoch_id = epoch.epoch_id
  BY Zenon, <1>1, <1>2 DEF StartOf, Ordered, MemType
<1>3. CASE mem[n].epoch_id # epoch.epoch_id
  <2>1. m = DkgStateDefault(epoch.epoch_id)
    BY Zenon, <1>3 DEF StartOf
  <2>2. DOMAIN NoVotes = {} /\ NoVotes \in [DOMAIN NoVotes -> BOOLEAN]
    BY Zenon DEF NoVotes
  <2>3. MemType(m)
    BY <1>1, <2>1, <2>2 DEF DkgStateDefault, MemType
  <2> QED
    BY <1>1, <1>3, <2>1, <2>2, <2>3 DEF DkgStateDefault, Ordered, Current
<1> QED
  BY Zenon, <1>2, <1>3

\* public_key_submission finds itself registered.
LEMMA FindsRegisteredStep ==
    ASSUME IInv, NEW n \in Dealer, NEW m, m = StartOf(n), ~m.registered,
           Polls(n, "PublicKeySubmission"), n \in dealers, NoTx,
           Persist(n, [m EXCEPT !.registered = TRUE]), UNCHANGED <<key, keyFile, pc>>
    PROVE  IInv'
<1> SUFFICES ASSUME TypeInv, DkgInv PROVE TypeInv' /\ DkgInv'
  BY Zenon DEF IInv
<1> DEFINE done == [m EXCEPT !.registered = TRUE]
<1>1. /\ MemType(m) /\ Ordered(m) /\ m.epoch_id = epoch.epoch_id
      /\ ~m.dealt /\ m.derived = "none" /\ m.partials = None
      /\ DOMAIN m.votes \subseteq DOMAIN mem[n].votes
      /\ \A p \in DOMAIN m.votes : m.votes[p] = mem[n].votes[p]
      /\ ~(Current(mem[n]) /\ mem[n].dealt)
  BY Zenon, StartState DEF IInv
<1>2. /\ MemType(done) /\ done.registered /\ done.epoch_id = m.epoch_id /\ done.dealt = m.dealt
      /\ done.derived = m.derived /\ done.partials = m.partials /\ done.votes = m.votes
      /\ done.validated = m.validated /\ done.proposal = m.proposal
  BY ZenonT(30), <1>1 DEF MemType
<1>3. /\ Only(n) /\ UNCHANGED chain /\ mempool' = mempool
      /\ mem'[n] = done /\ disk'[n] = done /\ key'[n] = key[n] /\ keyFile'[n] = keyFile[n]
      /\ pc'[n] = "idle"
  BY ZenonT(30) DEF TypeInv, NodeType, Shaped, Only, Keeps, Persist, NoTx, Polls
<1> HIDE DEF done
<1>4. UNCHANGED <<env, epoch, dealers, vkShares, proposals>>
  BY Zenon, <1>3 DEF chain
<1>5. n \notin Shared /\ (mempool[n] # None => mempool[n].op \notin {"share", "execute", "register"})
  BY Zenon, <1>1, NotDealt
<1>6. LocalType(n)'
  BY <1>2, <1>3, <1>4 DEF TypeInv, NodeType, LocalType, Labels, TxType, MemType
<1>7. Node(n) /\ Keyed(n)
  BY Zenon DEF DkgInv, NodeInv, Node
<1>8. Tracked(n)'
  BY Zenon, <1>1, <1>2, <1>3, <1>4 DEF Tracked, Ordered, Current
<1>9. UnderWay(n)' /\ Keyed(n)' /\ Stuck(n)'
  BY Zenon, <1>3, <1>4, <1>5, <1>7 DEF UnderWay, Keyed, Stuck, HasKey
<1>10. \A p \in 1..Len(proposals) :
           (Votes(n, p)' => Votes(n, p)) /\ (VotesYes(n, p)' => VotesYes(n, p))
  BY <1>1, <1>2, <1>3, <1>4 DEF Votes, VotesYes
<1> QED
  BY Zenon, <1>3, <1>5, <1>6, <1>8, <1>9, <1>10, QuietStep DEF IInv, Node

\* A process starts again from its files.
LEMMA RestartStep ==
    ASSUME IInv, NEW n \in Dealer, Restart(n)
    PROVE  IInv'
<1> SUFFICES ASSUME TypeInv, DkgInv PROVE TypeInv' /\ DkgInv'
  BY Zenon DEF IInv
<1>1. /\ Only(n) /\ UNCHANGED chain /\ mempool' = mempool
      /\ mem'[n] = disk[n] /\ disk'[n] = disk[n] /\ key'[n] = keyFile[n] /\ keyFile'[n] = keyFile[n]
      /\ pc'[n] = "idle"
  BY ZenonT(30) DEF TypeInv, NodeType, Shaped, Only, Keeps, Restart, At
<1>2. UNCHANGED <<env, epoch, dealers, vkShares, proposals>>
  BY Zenon, <1>1 DEF chain
<1>3. LocalType(n) /\ Tracked(n) /\ UnderWay(n) /\ Keyed(n) /\ Stuck(n)
  BY Zenon DEF TypeInv, NodeType, DkgInv, NodeInv, Node
<1>4. LocalType(n)'
  BY Zenon, <1>1, <1>2, <1>3 DEF LocalType, Labels, TxType, MemType
<1>5. Tracked(n)'
  BY ZenonT(40), <1>1, <1>2, <1>3 DEF Tracked, Ordered, Current, HasKey, IsLast
<1>6. Dealt(n) => Dealt(n)'
  BY ZenonT(30), <1>1, <1>2, <1>3 DEF Tracked, Ordered, Dealt, Current, HasKey
<1>7. UnderWay(n)' /\ Keyed(n)' /\ Stuck(n)'
  BY Zenon, <1>1, <1>2, <1>3, <1>6 DEF UnderWay, Keyed, Stuck, HasKey, IsLast
<1>8. n \in Shared => Dealt(n)'
  BY Zenon, <1>6 DEF DkgInv, ShareInv
<1>9. \A p \in 1..Len(proposals) :
          (Votes(n, p)' => Votes(n, p)) /\ (VotesYes(n, p)' => VotesYes(n, p))
  BY Zenon, <1>1, <1>2 DEF Votes, VotesYes
<1> QED
  BY Zenon, <1>1, <1>4, <1>5, <1>7, <1>8, <1>9, QuietStep DEF IInv, Node

\* A registration gets stuck.
LEMMA RegistrationStuckStep ==
    ASSUME IInv, NEW n \in Dealer, NEW m, m = StartOf(n), ~m.registered,
           Polls(n, "PublicKeySubmission"), n \notin dealers,
           NEW r, GetsStuck(n, [op |-> "register", resharing |-> r]),
           Remember(n, m), UNCHANGED <<key, keyFile, pc>>
    PROVE  IInv'
<1> SUFFICES ASSUME TypeInv, DkgInv PROVE TypeInv' /\ DkgInv'
  BY Zenon DEF IInv
<1>1. /\ MemType(m) /\ Ordered(m) /\ m.epoch_id = epoch.epoch_id
      /\ ~m.dealt /\ m.derived = "none" /\ m.partials = None
      /\ DOMAIN m.votes \subseteq DOMAIN mem[n].votes
      /\ \A p \in DOMAIN m.votes : m.votes[p] = mem[n].votes[p]
      /\ ~(Current(mem[n]) /\ mem[n].dealt)
  BY Zenon, StartState DEF IInv
<1>2. PICK tx : tx = [op |-> "register", resharing |-> r]
  BY Zenon
<1>3. /\ Only(n) /\ UNCHANGED chain
      /\ mem'[n] = m /\ disk'[n] = disk[n] /\ key'[n] = key[n] /\ keyFile'[n] = keyFile[n]
      /\ pc'[n] = "idle" /\ mempool'[n] = tx /\ tx.op = "register"
  BY ZenonT(30), <1>2 DEF TypeInv, NodeType, Shaped, Only, Keeps, Remember, GetsStuck, Polls
<1>4. UNCHANGED <<env, epoch, dealers, vkShares, proposals>>
  BY Zenon, <1>3 DEF chain
<1>5. LocalType(n) /\ Tracked(n) /\ Keyed(n)
  BY Zenon DEF TypeInv, NodeType, DkgInv, NodeInv, Node
<1>6. LocalType(n)'
  BY <1>1, <1>3, <1>4, <1>5 DEF LocalType, Labels, TxType, MemType
<1>7. Tracked(n)'
  BY Zenon, <1>1, <1>3, <1>4, <1>5 DEF Tracked, Ordered, Current, HasKey, StartOf
<1>8. UnderWay(n)' /\ Keyed(n)' /\ Stuck(n)'
  BY Zenon, <1>3, <1>4, <1>5 DEF UnderWay, Keyed, Stuck, HasKey
<1>9. n \notin Shared
  BY Zenon, <1>1, NotDealt
<1>10. \A p \in 1..Len(proposals) :
           (Votes(n, p)' => Votes(n, p)) /\ (VotesYes(n, p)' => VotesYes(n, p))
  BY Zenon, <1>1, <1>3, <1>4 DEF Votes, VotesYes
<1> QED
  BY Zenon, <1>3, <1>6, <1>7, <1>8, <1>9, <1>10, QuietStep DEF IInv, Node

\* A member that has not dealt yet persists its progress: what it says of the
\* later states is nothing.
LEMMA ProgressStep ==
    ASSUME IInv, NEW n \in Dealer, NEW m, NEW l,
           MemType(m), Ordered(m), m.epoch_id = mem[n].epoch_id, m.registered = mem[n].registered,
           m.derived = mem[n].derived, m.partials = mem[n].partials, m.votes = mem[n].votes,
           m.proposal = mem[n].proposal, mem[n].registered, ~mem[n].dealt,
           Only(n), UNCHANGED chain, mempool'[n] = mempool[n],
           mem'[n] = m, disk'[n] = m \/ (disk'[n] = disk[n] /\ m.dealt = mem[n].dealt),
           key'[n] \in {key[n], None}, keyFile'[n] \in {keyFile[n], None},
           keyFile'[n] = keyFile[n] \/ key'[n] = None,
           pc'[n] = l, l \in Labels, l \in {"idle", "dealing", "archiving"},
           l # "idle" => ~m.dealt, l = "archiving" => key'[n] = None,
           pc[n] = "idle" => Current(mem[n])
    PROVE  IInv'
<1> SUFFICES ASSUME TypeInv, DkgInv PROVE TypeInv' /\ DkgInv'
  BY Zenon DEF IInv
<1>1. UNCHANGED <<env, epoch, dealers, vkShares, proposals>>
  BY Zenon DEF chain
<1>2. LocalType(n) /\ Tracked(n) /\ Keyed(n) /\ UnderWay(n) /\ Stuck(n)
  BY Zenon DEF TypeInv, NodeType, DkgInv, NodeInv, Node
<1>3. LocalType(n)'
  BY <1>1, <1>2 DEF LocalType, TxType, MemType
<1>4. mem[n].derived = "none" /\ mem[n].partials = None
  BY Zenon, <1>2 DEF Tracked, Ordered
<1>5. Tracked(n)'
  BY ZenonT(30), <1>1, <1>2, <1>4 DEF Tracked, Ordered, Current
<1>6. n \notin Shared
  BY Zenon, NotDealt
<1>7. mempool[n] # None /\ n \in dealers => mempool[n].op \notin {"share", "execute", "register"}
  BY Zenon, NotDealt
<1>8. mempool[n] # None => mempool[n].op # "register"
  BY Zenon, <1>2, <1>7 DEF Stuck, Tracked
<1>9. UnderWay(n)' /\ Keyed(n)'
  BY ZenonT(30), <1>1, <1>2, NoneAssumption DEF UnderWay, Keyed, HasKey, Current
<1>10. Stuck(n)'
  BY Zenon, <1>1, <1>2, <1>7, <1>8 DEF Stuck
<1>11. \A p \in 1..Len(proposals) :
           (Votes(n, p)' => Votes(n, p)) /\ (VotesYes(n, p)' => VotesYes(n, p))
  BY Zenon, <1>1 DEF Votes, VotesYes
<1> QED
  BY Zenon, <1>3, <1>5, <1>6, <1>9, <1>10, <1>11, QuietStep DEF IInv, Node

\* The DkgState of a member whose dealings are done.
LEMMA DealtField ==
    ASSUME NEW m, MemType(m), NEW x, x = [m EXCEPT !.dealt = TRUE]
    PROVE  /\ MemType(x) /\ x.epoch_id = m.epoch_id /\ x.registered = m.registered
           /\ x.dealt /\ x.derived = m.derived
           /\ x.partials = m.partials /\ x.votes = m.votes /\ x.proposal = m.proposal
           /\ x.validated = m.validated
BY ZenonT(30) DEF MemType

\* dealing_exchange up to its first transaction.
LEMMA GenerateDealingsStep ==
    ASSUME IInv, NEW n \in Dealer, GenerateDealings(n)
    PROVE  IInv'
<1> SUFFICES ASSUME TypeInv, DkgInv PROVE TypeInv' /\ DkgInv'
  BY Zenon DEF IInv
<1>1. PICK m : m = [mem[n] EXCEPT !.cached = TRUE, !.generated = SecretToDeal(n)]
  BY Zenon
<1>2. PICK x : x = [m EXCEPT !.dealt = TRUE]
  BY ZenonT(30)
<1>3. MemType(mem[n]) /\ Ordered(mem[n]) /\ Shaped
  BY Zenon DEF TypeInv, NodeType, LocalType, DkgInv, NodeInv, Node, Tracked
<1>4. /\ MemType(m) /\ m.epoch_id = mem[n].epoch_id /\ m.registered = mem[n].registered
      /\ m.dealt = mem[n].dealt /\ m.derived = mem[n].derived
      /\ m.partials = mem[n].partials /\ m.votes = mem[n].votes /\ m.proposal = mem[n].proposal
      /\ m.validated = mem[n].validated
  <2>1. PICK g : g = SecretToDeal(n)
    BY Zenon
  <2> QED
    BY ZenonT(30), <1>1, <1>3, <2>1 DEF MemType
<1>5. /\ MemType(x) /\ x.epoch_id = m.epoch_id /\ x.registered = m.registered
      /\ x.dealt /\ x.derived = m.derived
      /\ x.partials = m.partials /\ x.votes = m.votes /\ x.proposal = m.proposal
      /\ x.validated = m.validated
  BY <1>2, <1>4, DealtField
<1>6. /\ mem[n].registered /\ ~mem[n].dealt /\ pc[n] = "idle" /\ Current(mem[n])
      /\ key'[n] = None /\ keyFile' = keyFile /\ mempool' = mempool /\ UNCHANGED chain
      /\ \/ mem'[n] = m /\ disk'[n] = m /\ pc'[n] = "archiving"
         \/ mem'[n] = m /\ disk'[n] = m /\ pc'[n] = "dealing"
         \/ mem'[n] = x /\ disk'[n] = x /\ pc'[n] = "idle"
  BY Zenon, <1>1, <1>2, <1>3 DEF GenerateDealings, DealingExchangeDue, Polls, Persist, At, NoTx, Shaped, Current
<1>7. Only(n)
  <2>1. /\ key' = [key EXCEPT ![n] = None] /\ NoTx /\ keyFile' = keyFile
        /\ pc' = pc \/ \E l : At(n, l)
        /\ \E y : Persist(n, y)
    BY Zenon DEF GenerateDealings
  <2> QED
    BY ZenonT(30), <1>3, <2>1 DEF Only, Persist, At, NoTx, Shaped, Keeps
<1>8. Ordered(m) /\ Ordered(x)
  BY Zenon, <1>3, <1>4, <1>5, <1>6 DEF Ordered
<1>9. CASE mem'[n] = m /\ disk'[n] = m /\ pc'[n] = "archiving"
  BY ZenonT(30), <1>4, <1>6, <1>7, <1>8, <1>9, ProgressStep DEF IInv, Labels
<1>10. CASE mem'[n] = m /\ disk'[n] = m /\ pc'[n] = "dealing"
  BY ZenonT(30), <1>4, <1>6, <1>7, <1>8, <1>10, ProgressStep DEF IInv, Labels
<1>11. CASE mem'[n] = x /\ disk'[n] = x /\ pc'[n] = "idle"
  BY ZenonT(30), <1>4, <1>5, <1>6, <1>7, <1>8, <1>11, ProgressStep DEF IInv, Labels
<1> QED
  BY Zenon, <1>6, <1>9, <1>10, <1>11

\* The prior key is archived after the keypair was taken out of memory.
LEMMA ArchiveKeyStep ==
    ASSUME IInv, NEW n \in Dealer, ArchiveKey(n)
    PROVE  IInv'
<1> SUFFICES ASSUME TypeInv, DkgInv PROVE TypeInv' /\ DkgInv'
  BY Zenon DEF IInv
<1>1. PICK x : x = [mem[n] EXCEPT !.dealt = TRUE]
  BY ZenonT(30)
<1>2. MemType(mem[n]) /\ Ordered(mem[n]) /\ UnderWay(n) /\ Shaped
  BY Zenon DEF TypeInv, NodeType, LocalType, DkgInv, NodeInv, Node, Tracked
<1>3. /\ MemType(x) /\ x.epoch_id = mem[n].epoch_id /\ x.registered = mem[n].registered
      /\ x.dealt /\ x.derived = mem[n].derived
      /\ x.partials = mem[n].partials /\ x.votes = mem[n].votes /\ x.proposal = mem[n].proposal
      /\ x.validated = mem[n].validated
  BY <1>1, <1>2, DealtField
<1>4. /\ mem[n].registered /\ ~mem[n].dealt /\ pc[n] # "idle"
      /\ key'[n] = key[n] /\ key[n] = None /\ keyFile'[n] = None /\ mempool' = mempool /\ UNCHANGED chain
      /\ \/ mem'[n] = x /\ disk'[n] = x /\ pc'[n] = "idle"
         \/ mem'[n] = mem[n] /\ disk'[n] = disk[n] /\ pc'[n] = "dealing"
  BY ZenonT(30), <1>1, <1>2 DEF ArchiveKey, Persist, At, NoTx, Shaped, UnderWay
<1>5. Only(n)
  BY ZenonT(30), <1>1, <1>2 DEF ArchiveKey, Only, Persist, At, NoTx, Shaped, Keeps
<1>6. Ordered(x)
  BY Zenon, <1>2, <1>3, <1>4 DEF Ordered
<1>7. CASE mem'[n] = x /\ disk'[n] = x /\ pc'[n] = "idle"
  BY ZenonT(30), <1>3, <1>4, <1>5, <1>6, <1>7, ProgressStep DEF IInv, Labels
<1>8. CASE mem'[n] = mem[n] /\ disk'[n] = disk[n] /\ pc'[n] = "dealing"
  BY Zenon, <1>2, <1>4, <1>5, <1>8, ProgressStep DEF IInv, Labels
<1> QED
  BY Zenon, <1>4, <1>7, <1>8

\* A query fails after set_dealers.
LEMMA GenerateDealingsFailsStep ==
    ASSUME IInv, NEW n \in Dealer, GenerateDealingsFails(n)
    PROVE  IInv'
<1> SUFFICES ASSUME TypeInv, DkgInv PROVE TypeInv' /\ DkgInv'
  BY Zenon DEF IInv
<1>1. PICK x : x = [mem[n] EXCEPT !.cached = TRUE]
  BY ZenonT(30)
<1>2. MemType(mem[n]) /\ Ordered(mem[n]) /\ Shaped
  BY Zenon DEF TypeInv, NodeType, LocalType, DkgInv, NodeInv, Node, Tracked
<1>3. /\ MemType(x) /\ x.epoch_id = mem[n].epoch_id /\ x.registered = mem[n].registered
      /\ x.dealt = mem[n].dealt /\ x.derived = mem[n].derived
      /\ x.partials = mem[n].partials /\ x.votes = mem[n].votes /\ x.proposal = mem[n].proposal
      /\ x.validated = mem[n].validated
  BY ZenonT(30), <1>1, <1>2 DEF MemType
<1>4. /\ mem[n].registered /\ ~mem[n].dealt /\ pc'[n] = "idle" /\ Current(mem[n])
      /\ key'[n] \in {key[n], None} /\ keyFile' = keyFile /\ mempool' = mempool /\ UNCHANGED chain
      /\ mem'[n] = x /\ disk'[n] = disk[n]
  BY Zenon, <1>1, <1>2 DEF GenerateDealingsFails, DealingExchangeDue, Polls, Remember, Shaped, Current
<1>5. Only(n)
  BY ZenonT(30), <1>1, <1>2 DEF GenerateDealingsFails, Only, Remember, Shaped, Keeps
<1>6. Ordered(x)
  BY Zenon, <1>2, <1>3 DEF Ordered
<1> QED
  BY ZenonT(30), <1>3, <1>4, <1>5, <1>6, ProgressStep DEF IInv, Labels

\* The dealings of an earlier poll are sent again.
LEMMA ResubmitStep ==
    ASSUME IInv, NEW n \in Dealer, ResubmitPregeneratedDealings(n)
    PROVE  IInv'
<1> SUFFICES ASSUME TypeInv, DkgInv PROVE TypeInv' /\ DkgInv'
  BY Zenon DEF IInv
<1>1. MemType(mem[n]) /\ Ordered(mem[n]) /\ Shaped
  BY Zenon DEF TypeInv, NodeType, LocalType, DkgInv, NodeInv, Node, Tracked
<1>2. /\ mem[n].registered /\ ~mem[n].dealt /\ pc'[n] = "dealing" /\ Current(mem[n])
      /\ key' = key /\ keyFile' = keyFile /\ mempool' = mempool /\ UNCHANGED chain
      /\ mem' = mem /\ disk' = disk
  BY Zenon, <1>1 DEF ResubmitPregeneratedDealings, DealingExchangeDue, Polls, At, NoTx, Shaped, Current
<1>3. Only(n)
  BY Zenon, <1>1 DEF ResubmitPregeneratedDealings, Only, At, NoTx, Shaped, Keeps
<1> QED
  BY Zenon, <1>1, <1>2, <1>3, ProgressStep DEF IInv, Labels

\* The dealings are refused.
LEMMA RefusedStep ==
    ASSUME IInv, NEW n \in Dealer, SubmitDealingRefused(n)
    PROVE  IInv'
<1> SUFFICES ASSUME TypeInv, DkgInv PROVE TypeInv' /\ DkgInv'
  BY Zenon DEF IInv
<1>1. MemType(mem[n]) /\ Ordered(mem[n]) /\ UnderWay(n) /\ Shaped
  BY Zenon DEF TypeInv, NodeType, LocalType, DkgInv, NodeInv, Node, Tracked
<1>2. /\ mem[n].registered /\ ~mem[n].dealt /\ pc[n] # "idle" /\ pc'[n] = "idle"
      /\ key' = key /\ keyFile' = keyFile /\ mempool' = mempool /\ UNCHANGED chain
      /\ mem' = mem /\ disk' = disk
  BY Zenon, <1>1 DEF SubmitDealingRefused, At, NoTx, Shaped, UnderWay
<1>3. Only(n)
  BY Zenon, <1>1 DEF SubmitDealingRefused, Only, At, NoTx, Shaped, Keeps
<1> QED
  BY Zenon, <1>1, <1>2, <1>3, ProgressStep DEF IInv, Labels

\* All the dealings are in the contract.
LEMMA DealingsSubmittedStep ==
    ASSUME IInv, NEW n \in Dealer, DealingsSubmitted(n)
    PROVE  IInv'
<1> SUFFICES ASSUME TypeInv, DkgInv PROVE TypeInv' /\ DkgInv'
  BY Zenon DEF IInv
<1>1. PICK x : x = [mem[n] EXCEPT !.dealt = TRUE]
  BY ZenonT(30)
<1>2. MemType(mem[n]) /\ Ordered(mem[n]) /\ UnderWay(n) /\ Shaped
  BY Zenon DEF TypeInv, NodeType, LocalType, DkgInv, NodeInv, Node, Tracked
<1>3. /\ MemType(x) /\ x.epoch_id = mem[n].epoch_id /\ x.registered = mem[n].registered
      /\ x.dealt /\ x.derived = mem[n].derived
      /\ x.partials = mem[n].partials /\ x.votes = mem[n].votes /\ x.proposal = mem[n].proposal
      /\ x.validated = mem[n].validated
  BY <1>1, <1>2, DealtField
<1>4. /\ mem[n].registered /\ ~mem[n].dealt /\ pc[n] # "idle" /\ pc'[n] = "idle"
      /\ key' = key /\ keyFile' = keyFile /\ mempool' = mempool /\ UNCHANGED chain
      /\ mem'[n] = x /\ disk'[n] = x
  BY Zenon, <1>1, <1>2 DEF DealingsSubmitted, Persist, At, NoTx, Shaped, UnderWay
<1>5. Only(n)
  BY ZenonT(30), <1>1, <1>2 DEF DealingsSubmitted, Only, Persist, At, NoTx, Shaped, Keeps
<1>6. Ordered(x)
  BY Zenon, <1>2, <1>3, <1>4 DEF Ordered
<1> QED
  BY ZenonT(30), <1>3, <1>4, <1>5, <1>6, ProgressStep DEF IInv, Labels

=============================================================================
