------------------------ MODULE GatewayClientsProofs ------------------------
(* The theorems about a gateway's client, for every number of connections,  *)
(* messages and credentials: its types, its bandwidth, and its messages.    *)
EXTENDS GatewayClients, FiniteSetTheorems, WellFoundedInduction, TLAPS

-----------------------------------------------------------------------------
(* Types: the pages of the inbox have the ends get_messages takes them to   *)
(* have, and every step keeps the shape of the state.                       *)

\* Among the subsets of a finite set there are minimal ones.
LEMMA MinimalSubset ==
    ASSUME NEW U, IsFiniteSet(U), NEW F, \A T \in F : T \subseteq U, F # {}
    PROVE  \E T \in F : \A V \in F : V \subseteq T => V = T
<1>1. IsWellFoundedOn(StrictSubsetOrdering(U), SUBSET U)
  BY Zenon, FS_StrictSubsetOrderingWellFounded, FS_FiniteSubsetsOfFinite
<1>2. PICK T \in F : \A V \in F : ~(<<V, T>> \in StrictSubsetOrdering(U))
  <2>1. F \subseteq SUBSET U
    BY Zenon
  <2> QED
    BY Zenon, <1>1, <2>1, WFMin
<1> QED
  BY Zenon, <1>2 DEF StrictSubsetOrdering

\* A set of row ids that is not empty has an oldest and a newest row, so that Min and
\* Max, which stand for the order remove_messages and get_messages go by, are in it.
LEMMA IdsHaveEnds ==
    ASSUME NEW n \in Nat, NEW S \in SUBSET (1 .. n), S # {}
    PROVE  /\ Min(S) \in S /\ \A y \in S : Min(S) <= y
           /\ Max(S) \in S /\ \A y \in S : y <= Max(S)
<1>1. IsFiniteSet(S)
  <2>1. IsFiniteSet(1 .. n)
    BY FS_Interval
  <2> QED
    BY Zenon, <2>1, FS_Subset
<1> \A x \in S : x \in Int
  OBVIOUS
<1>2. \E x \in S : \A y \in S : x <= y
  <2> DEFINE Upto(x) == {y \in S : y <= x}
             F == {Upto(x) : x \in S}
  <2>1. F # {} /\ \A T \in F : T \subseteq S
    BY Zenon
  <2>2. PICK T \in F : \A V \in F : V \subseteq T => V = T
    <3> HIDE DEF F
    <3> QED
      BY <1>1, <2>1, MinimalSubset
  <2>3. PICK x \in S : T = Upto(x)
    BY Zenon
  <2>4. ASSUME NEW y \in S, y < x PROVE FALSE
    <3>1. Upto(y) \subseteq Upto(x)
      <4>1. \A z \in S : z <= y => z <= x
        BY <2>4
      <4> QED
        BY Zenon, <4>1
    <3>2. x \in Upto(x) /\ x \notin Upto(y)
      BY <2>4
    <3>3. Upto(y) = Upto(x)
      BY Zenon, <2>2, <2>3, <3>1
    <3> QED
      BY Zenon, <3>2, <3>3
  <2> QED
    BY <2>4
<1>3. \E x \in S : \A y \in S : y <= x
  <2> DEFINE From(x) == {y \in S : y >= x}
             F == {From(x) : x \in S}
  <2>1. F # {} /\ \A T \in F : T \subseteq S
    BY Zenon
  <2>2. PICK T \in F : \A V \in F : V \subseteq T => V = T
    <3> HIDE DEF F
    <3> QED
      BY <1>1, <2>1, MinimalSubset
  <2>3. PICK x \in S : T = From(x)
    BY Zenon
  <2>4. ASSUME NEW y \in S, y > x PROVE FALSE
    <3>1. From(y) \subseteq From(x)
      <4>1. \A z \in S : z >= y => z >= x
        BY <2>4
      <4> QED
        BY Zenon, <4>1
    <3>2. x \in From(x) /\ x \notin From(y)
      BY <2>4
    <3>3. From(y) = From(x)
      BY Zenon, <2>2, <2>3, <3>1
    <3> QED
      BY Zenon, <3>2, <3>3
  <2> QED
    BY <2>4
<1> QED
  BY Zenon, <1>2, <1>3 DEF Min, Max

\* A sequence with one more element.
LEMMA Appended ==
    ASSUME NEW S, NEW q \in Seq(S), NEW x
    PROVE  /\ Len(q) \in Nat /\ Len(Append(q, x)) = Len(q) + 1 /\ Append(q, x)[Len(q) + 1] = x
           /\ \A i \in 1 .. Len(q) : Append(q, x)[i] = q[i]
OBVIOUS

\* A page of get_messages consists of rows after the cursor.  It has a row if there is
\* one, and unless it has all of them, the next page starts after a row of this one
\* and all rows up to there are in it.
LEMMA PageEnds ==
    ASSUME NEW c \in Conn, TypeOK
    PROVE  /\ Page(c) \subseteq Rows(c) /\ Rows(c) \subseteq inbox
           /\ Page(c) # Rows(c) =>
                 /\ StartAfter(c) \in Page(c)
                 /\ \A id \in Rows(c) : id <= StartAfter(c) => id \in Page(c)
<1> DEFINE Upto(id) == {j \in Rows(c) : j <= id}
<1>1. Page(c) \subseteq Rows(c) /\ Rows(c) \subseteq inbox
  BY Zenon DEF Page, Rows
<1>2. Len(stored) \in Nat /\ inbox \in SUBSET (1 .. Len(stored)) /\ RetrievalLimit \in Nat \ {0}
  <2>1. stored \in Seq(Msg) /\ inbox \in SUBSET (1 .. Len(stored))
    BY Zenon DEF TypeOK
  <2>2. RetrievalLimit \in Nat \ {0}
    BY Zenon, ConstantsAssumption
  <2>3. Len(stored) \in Nat
    BY <2>1
  <2> QED
    BY Zenon, <2>1, <2>2, <2>3
<1>3. IsFiniteSet(Rows(c))
  <2>1. IsFiniteSet(1 .. Len(stored))
    BY <1>2, FS_Interval
  <2>2. Rows(c) \in SUBSET (1 .. Len(stored))
    BY Zenon, <1>1, <1>2
  <2> QED
    BY Zenon, <2>1, <2>2, FS_Subset
<1>4. \A id \in Rows(c) : id \in Page(c) <=> Cardinality(Upto(id)) <= RetrievalLimit
  BY Zenon DEF Page
<1>5. ASSUME Page(c) # Rows(c)
      PROVE  /\ StartAfter(c) \in Page(c)
             /\ \A id \in Rows(c) : id <= StartAfter(c) => id \in Page(c)
  <2>1. Page(c) # {}
    <3>1. Rows(c) # {} /\ Rows(c) \in SUBSET (1 .. Len(stored))
      BY Zenon, <1>1, <1>2, <1>5
    <3>2. Min(Rows(c)) \in Rows(c) /\ \A y \in Rows(c) : Min(Rows(c)) <= y
      BY Zenon, <1>2, <3>1, IdsHaveEnds
    <3>3. Upto(Min(Rows(c))) = {Min(Rows(c))}
      BY <1>2, <3>1, <3>2
    <3>4. Cardinality(Upto(Min(Rows(c)))) = 1
      BY Zenon, <3>3, FS_Singleton
    <3> QED
      BY <1>2, <1>4, <3>2, <3>4
  <2>2. Page(c) \in SUBSET (1 .. Len(stored))
    BY Zenon, <1>1, <1>2
  <2>3. StartAfter(c) = Max(Page(c))
    BY Zenon, <1>5 DEF StartAfter
  <2>4. StartAfter(c) \in Page(c)
    BY Zenon, <1>2, <2>1, <2>2, <2>3, IdsHaveEnds
  <2>5. ASSUME NEW id \in Rows(c), id <= StartAfter(c)
        PROVE  id \in Page(c)
    <3> DEFINE n == StartAfter(c)
    <3>0. n \in Int /\ id \in Int /\ \A j \in Rows(c) : j \in Int
      <4>1. \A j \in Rows(c) : j \in Int
        <5> SUFFICES ASSUME NEW j \in Rows(c) PROVE j \in Int
          BY Zenon
        <5>1. j \in 1 .. Len(stored)
          BY Zenon, <1>1, <1>2
        <5> QED
          BY <1>2, <5>1
      <4>2. n \in Rows(c)
        BY Zenon, <1>1, <2>4
      <4> QED
        BY Zenon, <4>1, <4>2
    <3>1. Upto(id) \subseteq Upto(StartAfter(c)) /\ Upto(StartAfter(c)) \subseteq Rows(c)
      <4> HIDE DEF n
      <4>1. id <= n
        BY Zenon, <2>5 DEF n
      <4>2. \A j \in Rows(c) : j <= id => j <= n
        BY <3>0, <4>1
      <4>3. Upto(id) \subseteq Upto(n) /\ Upto(n) \subseteq Rows(c)
        BY Zenon, <4>2
      <4> QED
        BY Zenon, <4>3 DEF n
    <3>2. IsFiniteSet(Upto(StartAfter(c))) /\ IsFiniteSet(Upto(id))
      BY Zenon, <1>3, <3>1, FS_Subset
    <3>3. Cardinality(Upto(id)) <= Cardinality(Upto(StartAfter(c)))
      BY Zenon, <3>1, <3>2, FS_Subset
    <3>4. Cardinality(Upto(id)) \in Nat /\ Cardinality(Upto(StartAfter(c))) \in Nat
      BY Zenon, <3>2, FS_CardinalityType
    <3>5. Cardinality(Upto(StartAfter(c))) <= RetrievalLimit
      BY Zenon, <1>1, <1>4, <2>4
    <3> HIDE DEF Upto
    <3>6. Cardinality(Upto(id)) <= RetrievalLimit
      BY <1>2, <3>3, <3>4, <3>5
    <3> QED
      BY Zenon, <1>4, <3>6
  <2> QED
    BY Zenon, <2>4, <2>5
<1> QED
  BY Zenon, <1>1, <1>5

-------------------------------------------------------------------------------
(* TypeOK, by the groups of variables the actions leave unchanged together.    *)

HandlerType ==
    /\ pc \in [Conn -> Serving \union {"none", "fresh", "waiting", "authenticating",
                   "registering", "creating", "retrieving", "pushing", "removing",
                   "responding", "dropping", "closed"}]
    /\ registered \in Conn \union {NoConn}

PingType ==
    /\ target \in [Conn -> Conn \union {NoConn}]
    /\ requests \in [Conn -> Seq(Conn \union {Gone})]
    /\ pending \in [Conn -> Conn \union {NoConn, Gone}]
    /\ timer \in [Conn -> BOOLEAN]
    /\ reply \in [Conn -> {"none", "Active", "NotActive", "BusyPinging"}]

InboxType ==
    /\ stored \in Seq(Msg)
    /\ inbox \subseteq 1 .. Len(stored)
    /\ batch \in [Conn -> SUBSET (1 .. Len(stored))]
    /\ mark \in [Conn -> 0 .. Len(stored)]
    /\ cursor \in [Conn -> 0 .. Len(stored)]

\* A receiver that is about to push a message has a sender for it.
HasSender == \A r \in Receiver : pushing[r] # NoMsg => cache[r] # NoConn

MixType ==
    /\ queue \in [Conn -> Seq(Msg)]
    /\ cache \in [Receiver -> Conn \union {NoConn}]
    /\ pushing \in [Receiver -> Msg \union {NoMsg}]
    /\ storing \in [Receiver -> Msg \union {NoMsg}]
    /\ acked \subseteq Msg /\ delivered \subseteq Msg /\ lost \subseteq Msg
    /\ HasSender

KeysType == keys \in [stored : Conn \union {NoConn}, client : Conn \union {NoConn}]

BandwidthType ==
    /\ bandwidth \in [row : BOOLEAN, available : Int]
    /\ spent \subseteq Credential
    /\ credential \in [Conn -> Credential \union {NoCredential}]
    /\ credited \in [Credential -> Nat]

EnvType == env \in Environment

\* A handler that verifies or credits a credential holds one; without this, what it
\* inserts into spent_credential need not be a credential.
HoldsCredential ==
    \A c \in Conn : pc[c] \in {"verifying", "crediting"} => credential[c] \in Credential

TypeInv ==
    HandlerType /\ PingType /\ InboxType /\ MixType /\ KeysType /\ BandwidthType /\ EnvType
    /\ HoldsCredential

\* The groups together imply TypeOK.
LEMMA TypeGroups == TypeInv => TypeOK
BY Zenon DEF TypeInv, TypeOK, HandlerType, PingType, InboxType, MixType, KeysType, BandwidthType, EnvType

\* A group keeps its type in a step that leaves it unchanged.
LEMMA FrameType ==
    /\ HandlerType /\ UNCHANGED handlerVars => HandlerType'
    /\ PingType /\ UNCHANGED pingVars => PingType'
    /\ InboxType /\ UNCHANGED inboxVars => InboxType'
    /\ MixType /\ UNCHANGED mixVars => MixType'
    /\ KeysType /\ UNCHANGED keys => KeysType'
    /\ BandwidthType /\ UNCHANGED bandwidthVars => BandwidthType'
    /\ EnvType /\ UNCHANGED env => EnvType'
    /\ HoldsCredential /\ UNCHANGED <<pc, credential>> => HoldsCredential'
BY Zenon DEF handlerVars, pingVars, inboxVars, mixVars, bandwidthVars, HandlerType, PingType, InboxType,
       MixType, HasSender, KeysType, BandwidthType, EnvType, HoldsCredential

\* What is queued for a handler are messages.
LEMMA QueuedType ==
    ASSUME MixType
    PROVE  \A c \in Conn : Range(queue[c]) \subseteq Msg
BY DEF MixType, Range

\* A restart resets what is in memory.
LEMMA LoseMemoryType ==
    ASSUME TypeInv, LoseMemory
    PROVE  HandlerType' /\ PingType' /\ InboxType' /\ MixType' /\ BandwidthType'
           /\ HoldsCredential'
<1>1. HandlerType' /\ InboxType' /\ BandwidthType'
  BY Zenon DEF TypeInv, LoseMemory, HandlerType, InboxType, BandwidthType
<1>2. PingType'
  <2>1. <<>> \in Seq(Conn \union {Gone})
    OBVIOUS
  <2> QED
    BY Zenon, <2>1 DEF TypeInv, LoseMemory, PingType
<1>3. MixType'
  <2>1. Queued \subseteq Msg /\ (Range(pushing) \union Range(storing)) \ {NoMsg} \subseteq Msg
    BY Zenon, QueuedType DEF TypeInv, MixType, HasSender, Queued, Range
  <2>2. <<>> \in Seq(Msg)
    OBVIOUS
  <2> QED
    BY Zenon, <2>1, <2>2 DEF TypeInv, LoseMemory, MixType, HasSender
<1>4. HoldsCredential'
  BY Zenon DEF TypeInv, LoseMemory, HandlerType, HoldsCredential
<1> QED
  BY Zenon, <1>1, <1>2, <1>3, <1>4

\* Every step keeps the types.
LEMMA TypeStep ==
    ASSUME TypeInv, [Next]_vars
    PROVE  TypeInv'
<1>1. ASSUME NEW c \in Conn, ReplaceDuplicate(c) PROVE TypeInv'
  <2>1. HandlerType'
    BY Zenon, <1>1 DEF TypeInv, ReplaceDuplicate, Disconnect, StopWaiting, Abandoned, HandlerType, Serving, Writing
  <2>2. PingType'
    BY <1>1 DEF TypeInv, ReplaceDuplicate, Disconnect, StopWaiting, Abandoned, PingType
  <2>3. HoldsCredential'
    BY Zenon, <1>1 DEF TypeInv, ReplaceDuplicate, bandwidthVars, HandlerType, BandwidthType,
       HoldsCredential
  <2>4. InboxType' /\ MixType' /\ KeysType' /\ BandwidthType' /\ EnvType'
    BY Zenon, <1>1, FrameType DEF TypeInv, ReplaceDuplicate
  <2> QED
    BY Zenon, <2>1, <2>2, <2>3, <2>4 DEF TypeInv
<1>2. ASSUME NEW c \in Conn, RejectDuplicate(c) PROVE TypeInv'
  <2>1. HandlerType'
    BY Zenon, <1>2 DEF TypeInv, RejectDuplicate, StopWaiting, Abandoned, HandlerType, Serving, Writing
  <2>2. PingType'
    BY <1>2 DEF TypeInv, RejectDuplicate, StopWaiting, Abandoned, PingType
  <2>3. HoldsCredential'
    BY Zenon, <1>2 DEF TypeInv, RejectDuplicate, bandwidthVars, HandlerType, BandwidthType, HoldsCredential
  <2>4. InboxType' /\ MixType' /\ KeysType' /\ BandwidthType' /\ EnvType'
    BY Zenon, <1>2, FrameType DEF TypeInv, RejectDuplicate
  <2> QED
    BY Zenon, <2>1, <2>2, <2>3, <2>4 DEF TypeInv
<1>3. ASSUME NEW c \in Conn, AuthenticateClient(c) PROVE TypeInv'
  <2>1. HandlerType'
    BY Zenon, <1>3 DEF TypeInv, AuthenticateClient, StartPushing, HandlerType, Serving, Writing
  <2>2. InboxType'
    <3>1. Len(stored) \in 0 .. Len(stored)
      BY DEF TypeInv, InboxType
    <3>2. CASE keys.stored = keys.client
      <4>1. StartPushing(c)
        BY Zenon, <1>3, <3>2 DEF AuthenticateClient
      <4>2. mark' \in [Conn -> 0 .. Len(stored)] /\ cursor' \in [Conn -> 0 .. Len(stored)]
        BY <3>1, <4>1 DEF TypeInv, StartPushing, InboxType
      <4> QED
        BY Zenon, <4>1, <4>2 DEF TypeInv, StartPushing, InboxType
    <3>3. CASE keys.stored # keys.client
      BY Zenon, <1>3, <3>3 DEF TypeInv, AuthenticateClient, inboxVars, InboxType
    <3> QED
      BY Zenon, <3>2, <3>3
  <2>3. HoldsCredential'
    BY Zenon, <1>3 DEF TypeInv, AuthenticateClient, bandwidthVars, HandlerType, BandwidthType,
       HoldsCredential
  <2>4. PingType' /\ MixType' /\ KeysType' /\ BandwidthType' /\ EnvType'
    BY Zenon, <1>3, FrameType DEF TypeInv, AuthenticateClient
  <2> QED
    BY Zenon, <2>1, <2>2, <2>3, <2>4 DEF TypeInv
<1>4. ASSUME NEW c \in Conn, InsertSharedKeys(c) PROVE TypeInv'
  <2>1. HandlerType'
    BY Zenon, <1>4 DEF TypeInv, InsertSharedKeys, HandlerType, Serving, Writing
  <2>2. KeysType'
    BY Zenon, <1>4 DEF TypeInv, InsertSharedKeys, KeysType
  <2>3. HoldsCredential'
    BY Zenon, <1>4 DEF TypeInv, InsertSharedKeys, bandwidthVars, HandlerType, BandwidthType,
       HoldsCredential
  <2>4. PingType' /\ InboxType' /\ MixType' /\ BandwidthType' /\ EnvType'
    BY Zenon, <1>4, FrameType DEF TypeInv, InsertSharedKeys
  <2> QED
    BY Zenon, <2>1, <2>2, <2>3, <2>4 DEF TypeInv
<1>5. ASSUME NEW c \in Conn, CreateBandwidthEntry(c) PROVE TypeInv'
  <2>1. HandlerType'
    BY Zenon, <1>5 DEF TypeInv, CreateBandwidthEntry, StartPushing, HandlerType, Serving, Writing
  <2>2. InboxType'
    BY <1>5 DEF TypeInv, CreateBandwidthEntry, StartPushing, InboxType
  <2>3. BandwidthType'
    BY Zenon, <1>5 DEF TypeInv, CreateBandwidthEntry, StartPushing, BandwidthType
  <2>4. HoldsCredential'
    BY Zenon, <1>5 DEF TypeInv, CreateBandwidthEntry, HandlerType, BandwidthType, HoldsCredential
  <2>5. PingType' /\ MixType' /\ KeysType' /\ EnvType'
    BY Zenon, <1>5, FrameType DEF TypeInv, CreateBandwidthEntry
  <2> QED
    BY Zenon, <2>1, <2>2, <2>3, <2>4, <2>5 DEF TypeInv
<1>6. ASSUME NEW c \in Conn, RetrieveMessages(c) PROVE TypeInv'
  <2>1. HandlerType'
    BY Zenon, <1>6 DEF TypeInv, RetrieveMessages, HandlerType, Serving, Writing
  <2>2. InboxType'
    <3>1. Page(c) \in SUBSET (1 .. Len(stored)) /\ StartAfter(c) \in 0 .. Len(stored)
      <4>1. TypeOK
        BY Zenon, TypeGroups
      <4>2. Page(c) \subseteq inbox /\ inbox \subseteq 1 .. Len(stored) /\ Len(stored) \in Nat
        BY <4>1, PageEnds DEF TypeInv, InboxType
      <4>3. Page(c) \in SUBSET (1 .. Len(stored))
        BY Zenon, <4>2
      <4>4. StartAfter(c) = 0 \/ StartAfter(c) \in Page(c)
        <5>1. Page(c) = Rows(c) => StartAfter(c) = 0
          BY Zenon DEF StartAfter
        <5>2. Page(c) # Rows(c) => StartAfter(c) \in Page(c)
          BY Zenon, <4>1, PageEnds
        <5> QED
          BY Zenon, <5>1, <5>2
      <4>5. 0 \in 0 .. Len(stored) /\ \A id \in 1 .. Len(stored) : id \in 0 .. Len(stored)
        BY <4>2
      <4> QED
        BY Zenon, <4>3, <4>4, <4>5
    <3> QED
      BY Zenon, <1>6, <3>1 DEF TypeInv, RetrieveMessages, InboxType
  <2>3. HoldsCredential'
    BY Zenon, <1>6 DEF TypeInv, RetrieveMessages, bandwidthVars, HandlerType, BandwidthType,
       HoldsCredential
  <2>4. PingType' /\ MixType' /\ KeysType' /\ BandwidthType' /\ EnvType'
    BY Zenon, <1>6, FrameType DEF TypeInv, RetrieveMessages
  <2> QED
    BY Zenon, <2>1, <2>2, <2>3, <2>4 DEF TypeInv
<1>7. ASSUME NEW c \in Conn, PushMessages(c) PROVE TypeInv'
  <2>1. HandlerType'
    BY Zenon, <1>7 DEF TypeInv, PushMessages, HandlerType, Serving, Writing
  <2>2. MixType'
    <3>1. \A id \in batch[c] : stored[id] \in Msg
      BY DEF TypeInv, InboxType
    <3> QED
      BY Zenon, <1>7, <3>1 DEF TypeInv, PushMessages, MixType, HasSender
  <2>3. HoldsCredential'
    BY Zenon, <1>7 DEF TypeInv, PushMessages, bandwidthVars, HandlerType, BandwidthType, HoldsCredential
  <2>4. PingType' /\ InboxType' /\ KeysType' /\ BandwidthType' /\ EnvType'
    BY Zenon, <1>7, FrameType DEF TypeInv, PushMessages
  <2> QED
    BY Zenon, <2>1, <2>2, <2>3, <2>4 DEF TypeInv
<1>8. ASSUME NEW c \in Conn, RemoveMessages(c) PROVE TypeInv'
  <2>1. HandlerType'
    BY Zenon, <1>8 DEF TypeInv, RemoveMessages, HandlerType, Serving, Writing
  <2>2. InboxType'
    BY Zenon, <1>8 DEF TypeInv, RemoveMessages, inboxVars, InboxType
  <2>3. HoldsCredential'
    BY Zenon, <1>8 DEF TypeInv, RemoveMessages, bandwidthVars, HandlerType, BandwidthType, HoldsCredential
  <2>4. PingType' /\ MixType' /\ KeysType' /\ BandwidthType' /\ EnvType'
    BY Zenon, <1>8, FrameType DEF TypeInv, RemoveMessages
  <2> QED
    BY Zenon, <2>1, <2>2, <2>3, <2>4 DEF TypeInv
<1>9. ASSUME NEW c \in Conn, Respond(c) PROVE TypeInv'
  <2>1. HandlerType'
    <3>1. CASE registered # NoConn
      BY Zenon, <1>9, <3>1, LoseMemoryType DEF Respond
    <3>2. CASE registered = NoConn
      BY Zenon, <1>9, <3>2 DEF TypeInv, Respond, Serving, Writing, HandlerType
    <3> QED
      BY Zenon, <3>1, <3>2
  <2>2. PingType'
    <3>1. CASE registered # NoConn
      BY Zenon, <1>9, <3>1, LoseMemoryType DEF Respond
    <3>2. CASE registered = NoConn
      BY Zenon, <1>9, <3>2 DEF TypeInv, Respond, pingVars, PingType
    <3> QED
      BY Zenon, <3>1, <3>2
  <2>3. InboxType'
    <3>1. CASE registered # NoConn
      BY Zenon, <1>9, <3>1, LoseMemoryType DEF Respond
    <3>2. CASE registered = NoConn
      BY Zenon, <1>9, <3>2 DEF TypeInv, Respond, inboxVars, InboxType
    <3> QED
      BY Zenon, <3>1, <3>2
  <2>4. MixType'
    <3>1. CASE registered # NoConn
      BY Zenon, <1>9, <3>1, LoseMemoryType DEF Respond
    <3>2. CASE registered = NoConn
      BY Zenon, <1>9, <3>2 DEF TypeInv, Respond, mixVars, MixType, HasSender
    <3> QED
      BY Zenon, <3>1, <3>2
  <2>5. KeysType'
    BY Zenon, <1>9 DEF TypeInv, Respond, LoseMemory, KeysType
  <2>6. BandwidthType'
    <3>1. CASE registered # NoConn
      BY Zenon, <1>9, <3>1, LoseMemoryType DEF Respond
    <3>2. CASE registered = NoConn
      BY Zenon, <1>9, <3>2 DEF TypeInv, Respond, bandwidthVars, BandwidthType
    <3> QED
      BY Zenon, <3>1, <3>2
  <2>7. HoldsCredential'
    <3>1. CASE registered # NoConn
      BY Zenon, <1>9, <3>1, LoseMemoryType DEF Respond
    <3>2. CASE registered = NoConn
      BY Zenon, <1>9, <3>2 DEF TypeInv, Respond, bandwidthVars, HandlerType, HoldsCredential
    <3> QED
      BY Zenon, <3>1, <3>2
  <2>8. EnvType'
    BY Zenon, <1>9, FrameType DEF TypeInv, Respond
  <2> QED
    BY Zenon, <2>1, <2>2, <2>3, <2>4, <2>5, <2>6, <2>7, <2>8 DEF TypeInv
<1>10. ASSUME NEW c \in Conn, HandleIsActiveRequest(c) PROVE TypeInv'
  <2>1. PingType'
    <3>1. Head(requests[c]) \in Conn \union {Gone} /\ Tail(requests[c]) \in Seq(Conn \union {Gone})
      <4>1. requests[c] \in Seq(Conn \union {Gone}) /\ requests[c] # <<>>
        BY Zenon, <1>10 DEF TypeInv, PingType, HandleIsActiveRequest
      <4> QED
        BY <4>1
    <3>2. CASE pending[c] # NoConn
      BY Zenon, <1>10, <3>1, <3>2 DEF TypeInv, HandleIsActiveRequest, Answer, PingType
    <3>3. CASE pending[c] = NoConn
      BY Zenon, <1>10, <3>1, <3>3 DEF TypeInv, HandleIsActiveRequest, PingType
    <3> QED
      BY Zenon, <3>2, <3>3
  <2>2. HandlerType'
    BY Zenon, <1>10 DEF TypeInv, HandleIsActiveRequest, HandlerType, Serving, Writing
  <2>3. HoldsCredential'
    BY Zenon, <1>10 DEF TypeInv, HandleIsActiveRequest, bandwidthVars, HandlerType, BandwidthType,
       HoldsCredential
  <2>4. InboxType' /\ MixType' /\ KeysType' /\ BandwidthType' /\ EnvType'
    BY Zenon, <1>10, FrameType DEF TypeInv, HandleIsActiveRequest
  <2> QED
    BY Zenon, <2>1, <2>2, <2>3, <2>4 DEF TypeInv
<1>11. ASSUME NEW c \in Conn, HandlePingTimeout(c) PROVE TypeInv'
  <2>1. PingType'
    BY <1>11, SMTT(20) DEF TypeInv, HandlePingTimeout, Answer, PingType
  <2>2. HandlerType' /\ InboxType' /\ MixType' /\ KeysType' /\ BandwidthType' /\ EnvType' /\ HoldsCredential'
    BY Zenon, <1>11, FrameType DEF TypeInv, HandlePingTimeout, handlerVars, bandwidthVars
  <2> QED
    BY Zenon, <2>1, <2>2 DEF TypeInv
<1>12. ASSUME NEW c \in Conn, PushMixMessage(c) PROVE TypeInv'
  <2>1. MixType'
    <3>1. queue[c] \in Seq(Msg) /\ queue[c] # <<>>
      BY Zenon, <1>12 DEF TypeInv, MixType, HasSender, PushMixMessage
    <3>2. Head(queue[c]) \in Msg /\ Tail(queue[c]) \in Seq(Msg)
      BY <3>1
    <3> QED
      BY Zenon, <1>12, <3>2 DEF TypeInv, PushMixMessage, MixType, HasSender
  <2>2. HandlerType'
    BY Zenon, <1>12 DEF TypeInv, PushMixMessage, HandlerType, Serving, Writing
  <2>3. HoldsCredential'
    BY Zenon, <1>12 DEF TypeInv, PushMixMessage, bandwidthVars, HandlerType, BandwidthType,
       HoldsCredential
  <2>4. PingType' /\ InboxType' /\ KeysType' /\ BandwidthType' /\ EnvType'
    BY Zenon, <1>12, FrameType DEF TypeInv, PushMixMessage
  <2> QED
    BY Zenon, <2>1, <2>2, <2>3, <2>4 DEF TypeInv
<1>13. ASSUME NEW c \in Conn, ChannelClosed(c) PROVE TypeInv'
  <2>1. HandlerType'
    BY Zenon, <1>13 DEF TypeInv, ChannelClosed, StopListening, Disconnect, HandlerType, Serving, Writing
  <2>2. HoldsCredential'
    BY Zenon, <1>13 DEF TypeInv, ChannelClosed, StopListening, bandwidthVars, HandlerType,
       BandwidthType, HoldsCredential
  <2>3. PingType' /\ InboxType' /\ MixType' /\ KeysType' /\ BandwidthType' /\ EnvType'
    BY Zenon, <1>13, FrameType DEF TypeInv, ChannelClosed, StopListening
  <2> QED
    BY Zenon, <2>1, <2>2, <2>3 DEF TypeInv
<1>14. ASSUME NEW c \in Conn, Drop(c) PROVE TypeInv'
  <2>1. HandlerType'
    BY Zenon, <1>14 DEF TypeInv, Drop, Disconnect, HandlerType, Serving, Writing
  <2>2. PingType'
    BY <1>14 DEF TypeInv, Drop, Disconnect, PingType
  <2>3. MixType'
    <3>1. Range(queue[c]) \subseteq Msg
      BY Zenon, QueuedType DEF TypeInv
    <3>2. <<>> \in Seq(Msg)
      OBVIOUS
    <3> QED
      BY Zenon, <1>14, <3>1, <3>2 DEF TypeInv, Drop, MixType, HasSender
  <2>4. HoldsCredential'
    BY Zenon, <1>14 DEF TypeInv, Drop, bandwidthVars, HandlerType, BandwidthType, HoldsCredential
  <2>5. InboxType' /\ KeysType' /\ BandwidthType' /\ EnvType'
    BY Zenon, <1>14, FrameType DEF TypeInv, Drop
  <2> QED
    BY Zenon, <2>1, <2>2, <2>3, <2>4, <2>5 DEF TypeInv
<1>15. ASSUME NEW c \in Conn, InsertSpentCredential(c) PROVE TypeInv'
  <2>1. HandlerType'
    BY Zenon, <1>15 DEF TypeInv, InsertSpentCredential, InsertFails, HandlerType, Serving, Writing
  <2>2. BandwidthType'
    <3>1. credential[c] \in Credential
      BY Zenon, <1>15 DEF TypeInv, HoldsCredential, InsertSpentCredential
    <3> QED
      BY Zenon, <1>15, <3>1 DEF TypeInv, InsertSpentCredential, BandwidthType
  <2>3. HoldsCredential'
    BY Zenon, <1>15 DEF TypeInv, InsertSpentCredential, InsertFails, HandlerType, BandwidthType,
       HoldsCredential
  <2>4. PingType' /\ InboxType' /\ MixType' /\ KeysType' /\ EnvType'
    BY Zenon, <1>15, FrameType DEF TypeInv, InsertSpentCredential
  <2> QED
    BY Zenon, <2>1, <2>2, <2>3, <2>4 DEF TypeInv
<1>16. ASSUME NEW c \in Conn, IncreaseBandwidth(c) PROVE TypeInv'
  <2>1. HandlerType'
    BY Zenon, <1>16 DEF TypeInv, IncreaseBandwidth, Update, HandlerType, Serving, Writing
  <2>2. BandwidthType'
    <3>1. bandwidth' \in [row : BOOLEAN, available : Int]
      BY <1>16 DEF TypeInv, IncreaseBandwidth, Update, BandwidthType
    <3>2. credited' \in [Credential -> Nat]
      <4>1. credential[c] \in Credential
        BY Zenon, <1>16 DEF TypeInv, HoldsCredential, IncreaseBandwidth
      <4>2. credited[credential[c]] + 1 \in Nat
        BY <4>1 DEF TypeInv, BandwidthType
      <4> QED
        BY Zenon, <1>16, <4>1, <4>2 DEF TypeInv, IncreaseBandwidth, BandwidthType
    <3> QED
      BY Zenon, <1>16, <3>1, <3>2 DEF TypeInv, IncreaseBandwidth, BandwidthType
  <2>3. HoldsCredential'
    BY Zenon, <1>16 DEF TypeInv, IncreaseBandwidth, HandlerType, BandwidthType, HoldsCredential
  <2>4. PingType' /\ InboxType' /\ MixType' /\ KeysType' /\ EnvType'
    BY Zenon, <1>16, FrameType DEF TypeInv, IncreaseBandwidth
  <2> QED
    BY Zenon, <2>1, <2>2, <2>3, <2>4 DEF TypeInv
<1>17. ASSUME NEW c \in Conn, ConsumeBandwidth(c) PROVE TypeInv'
  <2>1. HandlerType'
    BY Zenon, <1>17 DEF TypeInv, ConsumeBandwidth, Update, HandlerType, Serving, Writing
  <2>2. BandwidthType'
    BY <1>17 DEF TypeInv, ConsumeBandwidth, Update, BandwidthType
  <2>3. HoldsCredential'
    BY Zenon, <1>17 DEF TypeInv, ConsumeBandwidth, HandlerType, BandwidthType, HoldsCredential
  <2>4. PingType' /\ InboxType' /\ MixType' /\ KeysType' /\ EnvType'
    BY Zenon, <1>17, FrameType DEF TypeInv, ConsumeBandwidth
  <2> QED
    BY Zenon, <2>1, <2>2, <2>3, <2>4 DEF TypeInv
<1>18. ASSUME NEW c \in Conn, Accept(c) PROVE TypeInv'
  <2>1. HandlerType'
    BY Zenon, <1>18 DEF TypeInv, Accept, HandlerType, Serving, Writing
  <2>2. EnvType'
    BY Zenon, <1>18 DEF TypeInv, Accept, EnvType, Environment
  <2>3. HoldsCredential'
    BY Zenon, <1>18 DEF TypeInv, Accept, bandwidthVars, HandlerType, BandwidthType, HoldsCredential
  <2>4. PingType' /\ InboxType' /\ MixType' /\ KeysType' /\ BandwidthType'
    BY Zenon, <1>18, FrameType DEF TypeInv, Accept
  <2> QED
    BY Zenon, <2>1, <2>2, <2>3, <2>4 DEF TypeInv
<1>19. ASSUME NEW c \in Conn, FreshFails(c) PROVE TypeInv'
  <2>1. HandlerType'
    BY Zenon, <1>19 DEF TypeInv, FreshFails, HandlerType, Serving, Writing
  <2>2. InboxType'
    BY Zenon, <1>19 DEF TypeInv, FreshFails, InboxType
  <2>3. HoldsCredential'
    BY Zenon, <1>19 DEF TypeInv, FreshFails, bandwidthVars, HandlerType, BandwidthType, HoldsCredential
  <2>4. PingType' /\ MixType' /\ KeysType' /\ BandwidthType' /\ EnvType'
    BY Zenon, <1>19, FrameType DEF TypeInv, FreshFails
  <2> QED
    BY Zenon, <2>1, <2>2, <2>3, <2>4 DEF TypeInv
<1>20. ASSUME NEW c \in Conn, StorageFails(c) PROVE TypeInv'
  <2>1. HandlerType'
    BY Zenon, <1>20 DEF TypeInv, StorageFails, HandlerType, Serving, Writing
  <2>2. InboxType'
    BY Zenon, <1>20 DEF TypeInv, StorageFails, InboxType
  <2>3. HoldsCredential'
    BY Zenon, <1>20 DEF TypeInv, StorageFails, bandwidthVars, HandlerType, BandwidthType, HoldsCredential
  <2>4. PingType' /\ MixType' /\ KeysType' /\ BandwidthType' /\ EnvType'
    BY Zenon, <1>20, FrameType DEF TypeInv, StorageFails
  <2> QED
    BY Zenon, <2>1, <2>2, <2>3, <2>4 DEF TypeInv
<1>21. ASSUME NEW c \in Conn, SocketFails(c) PROVE TypeInv'
  <2>1. HandlerType'
    BY Zenon, <1>21 DEF TypeInv, SocketFails, StopListening, Disconnect, HandlerType, Serving, Writing
  <2>2. HoldsCredential'
    BY Zenon, <1>21 DEF TypeInv, SocketFails, StopListening, bandwidthVars, HandlerType, BandwidthType,
       HoldsCredential
  <2>3. PingType' /\ InboxType' /\ MixType' /\ KeysType' /\ BandwidthType' /\ EnvType'
    BY Zenon, <1>21, FrameType DEF TypeInv, SocketFails, StopListening
  <2> QED
    BY Zenon, <2>1, <2>2, <2>3 DEF TypeInv
<1>22. ASSUME NEW c \in Conn, RequestFails(c) PROVE TypeInv'
  <2>1. HandlerType'
    BY Zenon, <1>22 DEF TypeInv, RequestFails, HandlerType, Serving, Writing
  <2>2. BandwidthType'
    BY Zenon, <1>22 DEF TypeInv, RequestFails, BandwidthType
  <2>3. HoldsCredential'
    BY Zenon, <1>22 DEF TypeInv, RequestFails, HandlerType, BandwidthType, HoldsCredential
  <2>4. PingType' /\ InboxType' /\ MixType' /\ KeysType' /\ EnvType'
    BY Zenon, <1>22, FrameType DEF TypeInv, RequestFails
  <2> QED
    BY Zenon, <2>1, <2>2, <2>3, <2>4 DEF TypeInv
<1>23. ASSUME NEW c \in Conn, HandleAuthenticate(c) PROVE TypeInv'
  <2>1. HandlerType'
    BY Zenon, <1>23 DEF TypeInv, HandleAuthenticate, Lookup, HandlerType, Serving, Writing
  <2>2. PingType'
    <3>1. CASE Lookup(registered) = NoConn
      BY Zenon, <1>23, <3>1 DEF TypeInv, HandleAuthenticate, pingVars, PingType
    <3>2. CASE Lookup(registered) # NoConn
      <4>1. Lookup(registered) \in Conn
        BY Zenon, <3>2 DEF TypeInv, HandlerType, Lookup
      <4>2. Append(requests[Lookup(registered)], c) \in Seq(Conn \union {Gone})
        BY <4>1 DEF TypeInv, PingType
      <4> QED
        BY Zenon, <1>23, <3>2, <4>1, <4>2 DEF TypeInv, HandleAuthenticate, PingType
    <3> QED
      BY Zenon, <3>1, <3>2
  <2>3. HoldsCredential'
    BY Zenon, <1>23 DEF TypeInv, HandleAuthenticate, bandwidthVars, HandlerType, BandwidthType,
       HoldsCredential
  <2>4. InboxType' /\ MixType' /\ KeysType' /\ BandwidthType' /\ EnvType'
    BY Zenon, <1>23, FrameType DEF TypeInv, HandleAuthenticate
  <2> QED
    BY Zenon, <2>1, <2>2, <2>3, <2>4 DEF TypeInv
<1>24. ASSUME NEW c \in Conn, HandleRegister(c) PROVE TypeInv'
  <2>1. HandlerType'
    BY Zenon, <1>24 DEF TypeInv, HandleRegister, Lookup, HandlerType, Serving, Writing
  <2>2. HoldsCredential'
    BY Zenon, <1>24 DEF TypeInv, HandleRegister, bandwidthVars, HandlerType, BandwidthType, HoldsCredential
  <2>3. PingType' /\ InboxType' /\ MixType' /\ KeysType' /\ BandwidthType' /\ EnvType'
    BY Zenon, <1>24, FrameType DEF TypeInv, HandleRegister
  <2> QED
    BY Zenon, <2>1, <2>2, <2>3 DEF TypeInv
<1>25. ASSUME NEW c \in Conn, HandlePong(c) PROVE TypeInv'
  <2>1. PingType'
    BY <1>25, SMTT(20) DEF TypeInv, HandlePong, Answer, PingType
  <2>2. HandlerType' /\ InboxType' /\ MixType' /\ KeysType' /\ BandwidthType' /\ EnvType' /\ HoldsCredential'
    BY Zenon, <1>25, FrameType DEF TypeInv, HandlePong, handlerVars, bandwidthVars
  <2> QED
    BY Zenon, <2>1, <2>2 DEF TypeInv
<1>26. ASSUME NEW c \in Conn, HandleClaimTestnetBandwidth(c) PROVE TypeInv'
  <2>1. BandwidthType'
    BY <1>26 DEF TypeInv, HandleClaimTestnetBandwidth, Update, BandwidthType
  <2>2. EnvType'
    BY <1>26 DEF TypeInv, HandleClaimTestnetBandwidth, Update, EnvType, Environment
  <2>3. HandlerType'
    BY Zenon, <1>26 DEF TypeInv, HandleClaimTestnetBandwidth, HandlerType, Serving, Writing
  <2>4. HoldsCredential'
    BY Zenon, <1>26 DEF TypeInv, HandleClaimTestnetBandwidth, HandlerType, BandwidthType,
       HoldsCredential
  <2>5. PingType' /\ InboxType' /\ MixType' /\ KeysType'
    BY Zenon, <1>26, FrameType DEF TypeInv, HandleClaimTestnetBandwidth
  <2> QED
    BY Zenon, <2>1, <2>2, <2>3, <2>4, <2>5 DEF TypeInv
<1>27. ASSUME NEW c \in Conn, HandleForwardSphinx(c) PROVE TypeInv'
  <2>1. HandlerType'
    BY Zenon, <1>27 DEF TypeInv, HandleForwardSphinx, HandlerType, Serving, Writing
  <2>2. HoldsCredential'
    BY Zenon, <1>27 DEF TypeInv, HandleForwardSphinx, bandwidthVars, HandlerType, BandwidthType,
       HoldsCredential
  <2>3. PingType' /\ InboxType' /\ MixType' /\ KeysType' /\ BandwidthType' /\ EnvType'
    BY Zenon, <1>27, FrameType DEF TypeInv, HandleForwardSphinx
  <2> QED
    BY Zenon, <2>1, <2>2, <2>3 DEF TypeInv
<1>28. ASSUME NEW c \in Conn, NEW k \in Credential, HandleBandwidthRequest(c, k) PROVE TypeInv'
  <2>1. HandlerType'
    BY Zenon, <1>28 DEF TypeInv, HandleBandwidthRequest, HandlerType, Serving, Writing
  <2>2. BandwidthType'
    BY Zenon, <1>28 DEF TypeInv, HandleBandwidthRequest, BandwidthType
  <2>3. HoldsCredential'
    BY Zenon, <1>28 DEF TypeInv, HandleBandwidthRequest, HandlerType, BandwidthType, HoldsCredential
  <2>4. PingType' /\ InboxType' /\ MixType' /\ KeysType' /\ EnvType'
    BY Zenon, <1>28, FrameType DEF TypeInv, HandleBandwidthRequest
  <2> QED
    BY Zenon, <2>1, <2>2, <2>3, <2>4 DEF TypeInv
<1>29. ASSUME NEW r \in Receiver, HandleProcessedPacket(r) PROVE TypeInv'
  <2>1. HandlerType'
    BY Zenon, <1>29 DEF TypeInv, HandleProcessedPacket, Lookup, HandlerType
  <2>2. /\ env.msgs \in Seq(Msg) /\ env.msgs # <<>>
        /\ env' = [env EXCEPT !.msgs = Tail(@)] /\ env \in Environment
    BY Zenon, <1>29 DEF TypeInv, HandleProcessedPacket, EnvType, Environment
  <2>3. Head(env.msgs) \in Msg /\ Tail(env.msgs) \in Seq(Msg)
    BY <2>2
  <2>4. MixType'
    BY Zenon, <1>29, <2>1, <2>3 DEF TypeInv, HandleProcessedPacket, HandlerType, MixType, HasSender
  <2>5. EnvType'
    BY Zenon, <2>2, <2>3 DEF EnvType, Environment
  <2>6. PingType' /\ InboxType' /\ KeysType' /\ BandwidthType' /\ HoldsCredential'
    BY Zenon, <1>29, FrameType DEF TypeInv, HandleProcessedPacket, handlerVars, bandwidthVars
  <2> QED
    BY Zenon, <2>1, <2>4, <2>5, <2>6 DEF TypeInv
<1>30. ASSUME NEW r \in Receiver, StoreMessage(r) PROVE TypeInv'
  <2>1. InboxType'
    <3>1. storing[r] \in Msg /\ stored \in Seq(Msg)
      BY Zenon, <1>30 DEF TypeInv, InboxType, MixType, HasSender, StoreMessage
    <3>2. stored' \in Seq(Msg) /\ Len(stored') = Len(stored) + 1 /\ Len(stored) \in Nat
      BY <1>30, <3>1 DEF StoreMessage
    <3>3. 1 .. Len(stored) \subseteq 1 .. Len(stored') /\ 0 .. Len(stored) \subseteq 0 .. Len(stored')
      BY <3>2
    <3>4. Len(stored) + 1 \in 1 .. Len(stored')
      BY <3>2
    <3> QED
      BY Zenon, <1>30, <3>2, <3>3, <3>4 DEF TypeInv, InboxType, StoreMessage
  <2>2. MixType'
    BY Zenon, <1>30 DEF TypeInv, StoreMessage, MixType, HasSender
  <2>3. HandlerType' /\ PingType' /\ KeysType' /\ BandwidthType' /\ EnvType' /\ HoldsCredential'
    BY Zenon, <1>30, FrameType DEF TypeInv, StoreMessage, handlerVars, bandwidthVars
  <2> QED
    BY Zenon, <2>1, <2>2, <2>3 DEF TypeInv
<1>31. ASSUME NEW r \in Receiver, StoreFails(r) PROVE TypeInv'
  <2>1. MixType'
    BY Zenon, <1>31 DEF TypeInv, StoreFails, MixType, HasSender
  <2>2. HandlerType' /\ PingType' /\ InboxType' /\ KeysType' /\ BandwidthType' /\ EnvType' /\ HoldsCredential'
    BY Zenon, <1>31, FrameType DEF TypeInv, StoreFails, handlerVars, bandwidthVars
  <2> QED
    BY Zenon, <2>1, <2>2 DEF TypeInv
<1>32. ASSUME GatewayRestarts PROVE TypeInv'
  <2>1. HandlerType'
    BY Zenon, <1>32, LoseMemoryType DEF GatewayRestarts
  <2>2. PingType'
    BY Zenon, <1>32, LoseMemoryType DEF GatewayRestarts
  <2>3. InboxType'
    BY Zenon, <1>32, LoseMemoryType DEF GatewayRestarts
  <2>4. MixType'
    BY Zenon, <1>32, LoseMemoryType DEF GatewayRestarts
  <2>5. BandwidthType'
    BY Zenon, <1>32, LoseMemoryType DEF GatewayRestarts
  <2>6. EnvType'
    BY <1>32 DEF TypeInv, GatewayRestarts, LoseMemory, EnvType, Environment
  <2>7. HoldsCredential'
    BY Zenon, <1>32, LoseMemoryType DEF GatewayRestarts
  <2>8. KeysType'
    BY Zenon, <1>32, FrameType DEF TypeInv, GatewayRestarts
  <2> QED
    BY Zenon, <2>1, <2>2, <2>3, <2>4, <2>5, <2>6, <2>7, <2>8 DEF TypeInv
<1>33. ASSUME NEW c \in Conn, SendWebsocketMessage(c) \/ TakeMixMessage(c) PROVE TypeInv'
  <2>1. HandlerType'
    BY Zenon, <1>33 DEF TypeInv, SendWebsocketMessage, TakeMixMessage, HandlerType, Serving, Writing
  <2>2. HoldsCredential'
    BY Zenon, <1>33 DEF TypeInv, SendWebsocketMessage, TakeMixMessage, bandwidthVars, HandlerType,
       BandwidthType, HoldsCredential
  <2>3. PingType' /\ InboxType' /\ MixType' /\ KeysType' /\ BandwidthType' /\ EnvType'
    BY Zenon, <1>33, FrameType DEF TypeInv, SendWebsocketMessage, TakeMixMessage
  <2> QED
    BY Zenon, <2>1, <2>2, <2>3 DEF TypeInv
<1>34. ASSUME NEW r \in Receiver, TryPushMessageToClient(r) PROVE TypeInv'
  <2>1. MixType'
    <3>1. pushing[r] \in Msg /\ cache[r] \in Conn
      BY Zenon, <1>34 DEF TypeInv, MixType, HasSender, TryPushMessageToClient
    <3>2. Append(queue[cache[r]], pushing[r]) \in Seq(Msg)
      BY <3>1 DEF TypeInv, MixType
    <3>3. CASE IsClosed(cache[r])
      BY Zenon, <1>34, <3>1, <3>3 DEF TypeInv, TryPushMessageToClient, MixType, HasSender
    <3>4. CASE ~IsClosed(cache[r])
      BY Zenon, <1>34, <3>1, <3>2, <3>4 DEF TypeInv, TryPushMessageToClient, MixType, HasSender
    <3> QED
      BY Zenon, <3>3, <3>4
  <2>2. HandlerType' /\ PingType' /\ InboxType' /\ KeysType' /\ BandwidthType' /\ EnvType' /\ HoldsCredential'
    BY Zenon, <1>34, FrameType DEF TypeInv, TryPushMessageToClient, handlerVars, bandwidthVars
  <2> QED
    BY Zenon, <2>1, <2>2 DEF TypeInv
<1>35. CASE UNCHANGED vars
  BY Zenon, <1>35, FrameType DEF TypeInv, vars, handlerVars, bandwidthVars
<1> QED
  BY Zenon, <1>1, <1>2, <1>3, <1>4, <1>5, <1>6, <1>7, <1>8, <1>9, <1>10, <1>11, <1>12, <1>13, <1>14,
     <1>15, <1>16, <1>17, <1>18, <1>19, <1>20, <1>21, <1>22, <1>23, <1>24, <1>25, <1>26, <1>27,
     <1>28, <1>29, <1>30, <1>31, <1>32, <1>33, <1>34, <1>35
     DEF Next, HandlerStep, WriteStep, ClientStep, MixStep

\* The initial state has the types.
LEMMA TypeInit == Init => TypeInv
<1> SUFFICES ASSUME Init PROVE TypeInv
  BY Zenon
<1>1. <<>> \in Seq(Conn \union {Gone}) /\ <<>> \in Seq(Msg) /\ Len(<<>>) = 0
  OBVIOUS
<1>2. HandlerType /\ KeysType /\ BandwidthType /\ HoldsCredential
  BY DEF Init, HandlerType, KeysType, BandwidthType, HoldsCredential
<1>3. PingType /\ MixType
  BY Zenon, <1>1 DEF Init, PingType, MixType, HasSender
<1>4. InboxType
  BY <1>1 DEF Init, InboxType
<1>5. EnvType
  BY Zenon, ConstantsAssumption DEF Init, EnvType
<1> QED
  BY Zenon, <1>2, <1>3, <1>4, <1>5 DEF TypeInv

\* The types, with a credential for every handler that is crediting one, always hold.
LEMMA TypeInvariant == Spec => []TypeInv
BY TypeInit, TypeStep, PTL DEF Spec

\* The state of the gateway keeps its types for any number of connections, receivers,
\* messages and credentials: every id in the inbox, in a batch, in a cursor (which
\* get_messages takes from the page it returns) is one of a stored message.
THEOREM TypeCorrect == Spec => []TypeOK
BY TypeInvariant, TypeGroups, PTL

-----------------------------------------------------------------------------
(* The bandwidth: it has a row whenever the client has keys, a credential   *)
(* is credited once, and the overdraft is bounded.                          *)

Crediting(c, k) == pc[c] = "crediting" /\ credential[c] = k
Forwarding == {c \in Conn : pc[c] = "forwarding"}
Opened == {c \in Conn : pc[c] # "none"}

\* Most steps credit nothing, consume nothing and check no bandwidth.
Calm ==
    /\ \A c \in Conn : pc'[c] = "crediting" => pc[c] = "crediting" /\ credential'[c] = credential[c]
    /\ \A c \in Conn : pc'[c] = "forwarding" => pc[c] = "forwarding"
    /\ \A c \in Conn : pc[c] # "none" => pc'[c] # "none"
    /\ UNCHANGED <<spent, credited>>
    /\ bandwidth'.available >= bandwidth.available

\* A handler that moves on without crediting, consuming or checking bandwidth.
LEMMA CalmMove ==
    ASSUME TypeInv, NEW c \in Conn, NEW x, x # "none", x # "crediting", x # "forwarding",
           pc' = [pc EXCEPT ![c] = x], UNCHANGED bandwidthVars
    PROVE  Calm
<1>1. PICK P : pc \in [Conn -> P]
  BY Zenon DEF TypeInv, HandlerType
<1>2. \A d \in Conn : pc'[d] = IF d = c THEN x ELSE pc[d]
  BY Zenon, <1>1
<1>3. bandwidth.available \in Int
  BY Zenon DEF TypeInv, BandwidthType
<1> QED
  BY <1>2, <1>3 DEF Calm, bandwidthVars

\* A step of another kind, in which no handler moves on.
LEMMA CalmStay ==
    ASSUME TypeInv, UNCHANGED pc, UNCHANGED bandwidthVars
    PROVE  Calm
<1>1. bandwidth.available \in Int
  BY Zenon DEF TypeInv, BandwidthType
<1> QED
  BY <1>1 DEF Calm, bandwidthVars

\* Losing the memory ends all handlers.
LEMMA CalmReset ==
    ASSUME TypeInv, LoseMemory
    PROVE  Calm
<1>1. /\ pc' = [c \in Conn |-> IF pc[c] = "none" THEN "none" ELSE "closed"]
      /\ bandwidth' = bandwidth /\ spent' = spent /\ credited' = credited
  BY Zenon DEF LoseMemory
<1>2. bandwidth.available \in Int
  BY Zenon DEF TypeInv, BandwidthType
<1>3. \A c \in Conn : pc'[c] = IF pc[c] = "none" THEN "none" ELSE "closed"
  BY Zenon, <1>1
<1> QED
  BY <1>1, <1>2, <1>3 DEF Calm

\* All steps but those that mark a credential as spent, credit it, check the bandwidth
\* or consume it are of this kind.
LEMMA StepKinds ==
    ASSUME TypeInv, [Next]_vars
    PROVE  \/ Calm
           \/ \E c \in Conn : \/ InsertSpentCredential(c) \/ IncreaseBandwidth(c)
                              \/ HandleForwardSphinx(c) \/ ConsumeBandwidth(c)
<1>t. PICK P : pc \in [Conn -> P]
  BY Zenon DEF TypeInv, HandlerType
<1>b. /\ bandwidth \in [row : BOOLEAN, available : Int]
      /\ credential \in [Conn -> Credential \union {NoCredential}]
  BY Zenon DEF TypeInv, BandwidthType
<1> USE <1>t, <1>b
<1>1. ASSUME NEW c \in Conn, ReplaceDuplicate(c) PROVE Calm
  <2>1. pc' = [pc EXCEPT ![c] = "authenticating"] /\ UNCHANGED bandwidthVars
    BY Zenon, <1>1 DEF ReplaceDuplicate
  <2> QED
    BY <2>1, CalmMove, Zenon
<1>2. ASSUME NEW c \in Conn, RejectDuplicate(c) PROVE Calm
  <2>1. pc' = [pc EXCEPT ![c] = "fresh"] /\ UNCHANGED bandwidthVars
    BY Zenon, <1>2 DEF RejectDuplicate
  <2> QED
    BY <2>1, CalmMove, Zenon
<1>3. ASSUME NEW c \in Conn, AuthenticateClient(c) PROVE Calm
  <2>1. CASE keys.stored = keys.client
    <3>1. pc' = [pc EXCEPT ![c] = "retrieving"] /\ UNCHANGED bandwidthVars
      BY Zenon, <1>3, <2>1 DEF AuthenticateClient
    <3> QED
      BY <3>1, CalmMove, Zenon
  <2>2. CASE ~(keys.stored = keys.client)
    <3>1. pc' = [pc EXCEPT ![c] = "closed"] /\ UNCHANGED bandwidthVars
      BY Zenon, <1>3, <2>2 DEF AuthenticateClient
    <3> QED
      BY <3>1, CalmMove, Zenon
  <2> QED
    BY Zenon, <2>1, <2>2
<1>4. ASSUME NEW c \in Conn, InsertSharedKeys(c) PROVE Calm
  <2>1. pc' = [pc EXCEPT ![c] = "creating"] /\ UNCHANGED bandwidthVars
    BY Zenon, <1>4 DEF InsertSharedKeys
  <2> QED
    BY <2>1, CalmMove, Zenon
<1>5. ASSUME NEW c \in Conn, CreateBandwidthEntry(c) PROVE Calm
  <2>1. /\ pc' = [pc EXCEPT ![c] = "retrieving"] /\ bandwidth' = [bandwidth EXCEPT !.row = TRUE]
        /\ UNCHANGED <<spent, credential, credited>>
    BY Zenon, <1>5 DEF CreateBandwidthEntry
  <2>2. \A d \in Conn : pc'[d] = IF d = c THEN "retrieving" ELSE pc[d]
    BY Zenon, <2>1
  <2>3. bandwidth'.available = bandwidth.available /\ bandwidth.available \in Int
    BY Zenon, <2>1
  <2> QED
    BY <2>1, <2>2, <2>3 DEF Calm
<1>6. ASSUME NEW c \in Conn, RetrieveMessages(c) PROVE Calm
  <2>1. pc' = [pc EXCEPT ![c] = "pushing"] /\ UNCHANGED bandwidthVars
    BY Zenon, <1>6 DEF RetrieveMessages
  <2> QED
    BY <2>1, CalmMove, Zenon
<1>7. ASSUME NEW c \in Conn, PushMessages(c) PROVE Calm
  <2>1. pc' = [pc EXCEPT ![c] = "removing"] /\ UNCHANGED bandwidthVars
    BY Zenon, <1>7 DEF PushMessages
  <2> QED
    BY <2>1, CalmMove, Zenon
<1>8. ASSUME NEW c \in Conn, RemoveMessages(c) PROVE Calm
  <2>0. UNCHANGED bandwidthVars
    BY Zenon, <1>8 DEF RemoveMessages
  <2>1. PICK x : x = IF cursor[c] = 0 THEN "responding" ELSE "retrieving"
    BY Zenon
  <2>2. x # "none" /\ x # "crediting" /\ x # "forwarding"
    BY Zenon, <2>1
  <2>3. CASE pc' = [pc EXCEPT ![c] = x]
    BY <2>0, <2>2, <2>3, CalmMove, Zenon
  <2>4. CASE UNCHANGED pc
    BY Zenon, <2>0, <2>4, CalmStay
  <2>5. UNCHANGED pc \/ pc' = [pc EXCEPT ![c] = x]
    BY Zenon, <1>8, <2>1 DEF RemoveMessages
  <2> QED
    BY Zenon, <2>3, <2>4, <2>5
<1>9. ASSUME NEW c \in Conn, Respond(c) PROVE Calm
  <2>1. CASE registered # NoConn
    BY Zenon, <1>9, <2>1, CalmReset DEF Respond
  <2>2. CASE registered = NoConn
    <3>1. pc' = [pc EXCEPT ![c] = "active"] /\ UNCHANGED bandwidthVars
      BY Zenon, <1>9, <2>2 DEF Respond
    <3> QED
      BY <3>1, CalmMove, Zenon
  <2> QED
    BY Zenon, <2>1, <2>2
<1>10. ASSUME NEW c \in Conn, HandleIsActiveRequest(c) PROVE Calm
  <2>1. UNCHANGED bandwidthVars /\ (UNCHANGED pc \/ pc' = [pc EXCEPT ![c] = "writing"])
    BY Zenon, <1>10 DEF HandleIsActiveRequest
  <2> QED
    BY Zenon, <2>1, CalmStay, CalmMove
<1>11. ASSUME NEW c \in Conn, HandlePingTimeout(c) PROVE Calm
  <2>1. UNCHANGED pc /\ UNCHANGED bandwidthVars
    BY Zenon, <1>11 DEF HandlePingTimeout, handlerVars
  <2> QED
    BY Zenon, <2>1, CalmStay
<1>12. ASSUME NEW c \in Conn, PushMixMessage(c) PROVE Calm
  <2>1. pc' = [pc EXCEPT ![c] = "active"] /\ UNCHANGED bandwidthVars
    BY Zenon, <1>12 DEF PushMixMessage
  <2> QED
    BY <2>1, CalmMove, Zenon
<1>13. ASSUME NEW c \in Conn, ChannelClosed(c) PROVE Calm
  <2>1. StopListening(c)
    BY Zenon, <1>13 DEF ChannelClosed
  <2>2. pc' = [pc EXCEPT ![c] = "dropping"] /\ UNCHANGED bandwidthVars
    BY Zenon, <2>1 DEF StopListening
  <2> QED
    BY <2>2, CalmMove, Zenon
<1>14. ASSUME NEW c \in Conn, Drop(c) PROVE Calm
  <2>1. pc' = [pc EXCEPT ![c] = "closed"] /\ UNCHANGED bandwidthVars
    BY Zenon, <1>14 DEF Drop
  <2> QED
    BY <2>1, CalmMove, Zenon
<1>15. ASSUME NEW c \in Conn, Accept(c) PROVE Calm
  <2>1. pc' = [pc EXCEPT ![c] = "fresh"] /\ UNCHANGED bandwidthVars
    BY Zenon, <1>15 DEF Accept
  <2> QED
    BY <2>1, CalmMove, Zenon
<1>16. ASSUME NEW c \in Conn, FreshFails(c) PROVE Calm
  <2>1. pc' = [pc EXCEPT ![c] = "closed"] /\ UNCHANGED bandwidthVars
    BY Zenon, <1>16 DEF FreshFails
  <2> QED
    BY <2>1, CalmMove, Zenon
<1>17. ASSUME NEW c \in Conn, StorageFails(c) PROVE Calm
  <2>1. pc' = [pc EXCEPT ![c] = "fresh"] /\ UNCHANGED bandwidthVars
    BY Zenon, <1>17 DEF StorageFails
  <2> QED
    BY <2>1, CalmMove, Zenon
<1>18. ASSUME NEW c \in Conn, SocketFails(c) PROVE Calm
  <2>1. pc' = [pc EXCEPT ![c] = "dropping"] /\ UNCHANGED bandwidthVars
    BY Zenon, <1>18 DEF SocketFails, StopListening
  <2> QED
    BY <2>1, CalmMove, Zenon
<1>19. ASSUME NEW c \in Conn, RequestFails(c) PROVE Calm
  <2>1. /\ pc' = [pc EXCEPT ![c] = "writing"]
        /\ credential' = [credential EXCEPT ![c] = NoCredential]
        /\ UNCHANGED <<bandwidth, spent, credited>>
    BY Zenon, <1>19 DEF RequestFails
  <2>2. \A d \in Conn : pc'[d] = IF d = c THEN "writing" ELSE pc[d]
    BY Zenon, <2>1
  <2>3. \A d \in Conn : d # c => credential'[d] = credential[d]
    BY Zenon, <2>1
  <2> QED
    BY <2>1, <2>2, <2>3 DEF Calm
<1>20. ASSUME NEW c \in Conn, HandleAuthenticate(c) PROVE Calm
  <2>1. CASE Lookup(registered) = NoConn
    <3>1. pc' = [pc EXCEPT ![c] = "authenticating"] /\ UNCHANGED bandwidthVars
      BY Zenon, <1>20, <2>1 DEF HandleAuthenticate
    <3> QED
      BY <3>1, CalmMove, Zenon
  <2>2. CASE ~(Lookup(registered) = NoConn)
    <3>1. pc' = [pc EXCEPT ![c] = "waiting"] /\ UNCHANGED bandwidthVars
      BY Zenon, <1>20, <2>2 DEF HandleAuthenticate
    <3> QED
      BY <3>1, CalmMove, Zenon
  <2> QED
    BY Zenon, <2>1, <2>2
<1>21. ASSUME NEW c \in Conn, HandleRegister(c) PROVE Calm
  <2>1. pc' = [pc EXCEPT ![c] = "registering"] /\ UNCHANGED bandwidthVars
    BY Zenon, <1>21 DEF HandleRegister
  <2> QED
    BY <2>1, CalmMove, Zenon
<1>22. ASSUME NEW c \in Conn, HandlePong(c) PROVE Calm
  <2>1. UNCHANGED pc /\ UNCHANGED bandwidthVars
    BY Zenon, <1>22 DEF HandlePong, handlerVars
  <2> QED
    BY Zenon, <2>1, CalmStay
<1>23. ASSUME NEW c \in Conn, HandleClaimTestnetBandwidth(c) PROVE Calm
  <2>1. /\ Update(1) /\ UNCHANGED <<spent, credential, credited>>
        /\ pc' = [pc EXCEPT ![c] = "writing"]
    BY Zenon, <1>23 DEF HandleClaimTestnetBandwidth
  <2>2. bandwidth'.available >= bandwidth.available
    BY <2>1 DEF Update
  <2>3. \A d \in Conn : pc'[d] = IF d = c THEN "writing" ELSE pc[d]
    BY Zenon, <2>1
  <2> QED
    BY Zenon, <2>1, <2>2, <2>3 DEF Calm
<1>24. ASSUME NEW c \in Conn, NEW k \in Credential, HandleBandwidthRequest(c, k) PROVE Calm
  <2>1. /\ pc' = [pc EXCEPT ![c] = "verifying"]
        /\ credential' = [credential EXCEPT ![c] = k]
        /\ UNCHANGED <<bandwidth, spent, credited>>
    BY Zenon, <1>24 DEF HandleBandwidthRequest
  <2>2. \A d \in Conn : pc'[d] = IF d = c THEN "verifying" ELSE pc[d]
    BY Zenon, <2>1
  <2>3. \A d \in Conn : d # c => credential'[d] = credential[d]
    BY Zenon, <2>1
  <2> QED
    BY <2>1, <2>2, <2>3 DEF Calm
<1>25. ASSUME NEW r \in Receiver, HandleProcessedPacket(r) PROVE Calm
  <2>1. UNCHANGED pc /\ UNCHANGED bandwidthVars
    BY Zenon, <1>25 DEF HandleProcessedPacket
  <2> QED
    BY Zenon, <2>1, CalmStay
<1>26. ASSUME NEW r \in Receiver, StoreMessage(r) PROVE Calm
  <2>1. UNCHANGED pc /\ UNCHANGED bandwidthVars
    BY Zenon, <1>26 DEF StoreMessage, handlerVars
  <2> QED
    BY Zenon, <2>1, CalmStay
<1>27. ASSUME NEW r \in Receiver, StoreFails(r) PROVE Calm
  <2>1. UNCHANGED pc /\ UNCHANGED bandwidthVars
    BY Zenon, <1>27 DEF StoreFails, handlerVars
  <2> QED
    BY Zenon, <2>1, CalmStay
<1>28. ASSUME GatewayRestarts PROVE Calm
  BY Zenon, <1>28, CalmReset DEF GatewayRestarts
<1>29. ASSUME UNCHANGED vars PROVE Calm
  <2>1. UNCHANGED pc /\ UNCHANGED bandwidthVars
    BY Zenon, <1>29 DEF vars, handlerVars
  <2> QED
    BY Zenon, <2>1, CalmStay
<1>30. ASSUME NEW c \in Conn, SendWebsocketMessage(c) PROVE Calm
  <2>1. pc' = [pc EXCEPT ![c] = "active"] /\ UNCHANGED bandwidthVars
    BY Zenon, <1>30 DEF SendWebsocketMessage
  <2> QED
    BY <2>1, CalmMove, Zenon
<1>31. ASSUME NEW c \in Conn, TakeMixMessage(c) PROVE Calm
  <2>1. pc' = [pc EXCEPT ![c] = "sending"] /\ UNCHANGED bandwidthVars
    BY Zenon, <1>31 DEF TakeMixMessage
  <2> QED
    BY <2>1, CalmMove, Zenon
<1>32. ASSUME NEW r \in Receiver, TryPushMessageToClient(r) PROVE Calm
  <2>1. UNCHANGED pc /\ UNCHANGED bandwidthVars
    BY Zenon, <1>32 DEF TryPushMessageToClient, handlerVars
  <2> QED
    BY Zenon, <2>1, CalmStay
<1> QED
  BY <1>1, <1>2, <1>3, <1>4, <1>5, <1>6, <1>7, <1>8, <1>9, <1>10, <1>11, <1>12, <1>13,
     <1>14, <1>15, <1>16, <1>17, <1>18, <1>19, <1>20, <1>21, <1>22, <1>23, <1>24, <1>25,
     <1>26, <1>27, <1>28, <1>29, <1>30, <1>31, <1>32
     DEF Next, HandlerStep, WriteStep, ClientStep, MixStep

-------------------------------------------------------------------------------
(* Credentials.                                                               *)

\* Before a credential is marked as spent nobody credits it, afterwards one handler
\* does and then no other: the insertion into the UNIQUE column decides who.
CreditInv ==
    \A k \in Credential :
        /\ k \notin spent => credited[k] = 0 /\ \A c \in Conn : ~Crediting(c, k)
        /\ credited[k] \in {0, 1}
        /\ credited[k] = 1 => \A c \in Conn : ~Crediting(c, k)
        /\ \A c, d \in Conn : Crediting(c, k) /\ Crediting(d, k) => c = d

\* Every step keeps at most one handler crediting a credential, and none that is credited.
LEMMA CreditStep ==
    ASSUME TypeInv, CreditInv, [Next]_vars
    PROVE  CreditInv'
<1>1. CASE Calm
  <2>1. UNCHANGED <<spent, credited>>
    BY Zenon, <1>1 DEF Calm
  <2>2. \A c \in Conn, k \in Credential : Crediting(c, k)' => Crediting(c, k)
    BY Zenon, <1>1 DEF Calm, Crediting
  <2> QED
    BY Zenon, <2>1, <2>2 DEF CreditInv
<1>2. ASSUME NEW c \in Conn, InsertSpentCredential(c) PROVE CreditInv'
  <2>1. CASE credential[c] \in spent
    <3>1. spent' = spent /\ credited' = credited
      BY Zenon, <1>2, <2>1 DEF InsertSpentCredential
    <3>2. \A d \in Conn, k \in Credential : Crediting(d, k)' => Crediting(d, k)
      BY Zenon, <1>2, <2>1 DEF TypeInv, HandlerType, BandwidthType, InsertSpentCredential, InsertFails,
                        Crediting
    <3> QED
      BY Zenon, <3>1, <3>2 DEF CreditInv
  <2>2. CASE credential[c] \notin spent
    <3>1. /\ spent' = spent \union {credential[c]} /\ credited' = credited
          /\ credential' = credential /\ pc' = [pc EXCEPT ![c] = "crediting"]
      BY Zenon, <1>2, <2>2 DEF InsertSpentCredential, InsertFails
    <3>2. \A d \in Conn, k \in Credential :
              Crediting(d, k)' => Crediting(d, k) \/ (d = c /\ k = credential[c])
      BY Zenon, <3>1 DEF TypeInv, HandlerType, Crediting
    <3>3. ASSUME NEW k \in Credential, k # credential[c]
          PROVE  /\ k \notin spent' => credited'[k] = 0 /\ \A d \in Conn : ~Crediting(d, k)'
                 /\ credited'[k] \in {0, 1}
                 /\ credited'[k] = 1 => \A d \in Conn : ~Crediting(d, k)'
                 /\ \A d, e \in Conn : Crediting(d, k)' /\ Crediting(e, k)' => d = e
      BY Zenon, <3>1, <3>2, <3>3 DEF CreditInv
    <3>4. ASSUME credential[c] \in Credential
          PROVE  /\ credential[c] \in spent' /\ credited'[credential[c]] = 0
                 /\ \A d \in Conn : Crediting(d, credential[c])' => d = c
      BY Zenon, <2>2, <3>1, <3>2, <3>4 DEF CreditInv
    <3>5. ASSUME NEW k \in Credential
          PROVE  /\ k \notin spent' => credited'[k] = 0 /\ \A d \in Conn : ~Crediting(d, k)'
                 /\ credited'[k] \in {0, 1}
                 /\ credited'[k] = 1 => \A d \in Conn : ~Crediting(d, k)'
                 /\ \A d, e \in Conn : Crediting(d, k)' /\ Crediting(e, k)' => d = e
      <4>1. CASE k = credential[c]
        <5>1. /\ k \in spent' /\ credited'[k] = 0
              /\ \A d \in Conn : Crediting(d, k)' => d = c
          BY Zenon, <3>1, <3>4, <4>1 DEF Crediting
        <5> QED
          BY <5>1
      <4>2. CASE k # credential[c]
        BY Zenon, <3>3, <4>2
      <4> QED
        BY Zenon, <4>1, <4>2
    <3> QED
      BY Zenon, <3>5 DEF CreditInv
  <2> QED
    BY Zenon, <2>1, <2>2
<1>3. ASSUME NEW c \in Conn, IncreaseBandwidth(c) PROVE CreditInv'
  <2> DEFINE k0 == credential[c]
  <2>1. k0 \in Credential /\ Crediting(c, k0)
    BY Zenon, <1>3 DEF TypeInv, HoldsCredential, IncreaseBandwidth, Crediting
  <2>2. k0 \in spent /\ credited[k0] = 0 /\ \A d \in Conn : Crediting(d, k0) => d = c
    BY Zenon, <2>1 DEF CreditInv
  <2>3. \A d \in Conn, k \in Credential : Crediting(d, k)' => Crediting(d, k) /\ d # c
    BY Zenon, <1>3 DEF TypeInv, HandlerType, BandwidthType, IncreaseBandwidth, Crediting
  <2>4. /\ spent' = spent /\ credited'[k0] = 1
        /\ \A k \in Credential : k # k0 => credited'[k] = credited[k]
    BY <1>3, <2>1, <2>2 DEF TypeInv, BandwidthType, IncreaseBandwidth
  <2> HIDE DEF k0
  <2>5. ASSUME NEW k \in Credential
        PROVE  /\ k \notin spent' => credited'[k] = 0 /\ \A d \in Conn : ~Crediting(d, k)'
               /\ credited'[k] \in {0, 1}
               /\ credited'[k] = 1 => \A d \in Conn : ~Crediting(d, k)'
               /\ \A d, e \in Conn : Crediting(d, k)' /\ Crediting(e, k)' => d = e
    <3>1. CASE k = k0
      <4>1. \A d \in Conn : ~Crediting(d, k)'
        BY Zenon, <2>2, <2>3, <3>1
      <4> QED
        BY Zenon, <2>2, <2>4, <3>1, <4>1
    <3>2. CASE k # k0
      <4>1. spent' = spent /\ credited'[k] = credited[k]
        BY Zenon, <2>4, <3>2
      <4>2. \A d \in Conn : Crediting(d, k)' => Crediting(d, k)
        BY Zenon, <2>3
      <4> QED
        BY Zenon, <4>1, <4>2 DEF CreditInv
    <3> QED
      BY Zenon, <3>1, <3>2
  <2> QED
    BY Zenon, <2>5 DEF CreditInv
<1>4. ASSUME NEW c \in Conn, HandleForwardSphinx(c) \/ ConsumeBandwidth(c) PROVE CreditInv'
  <2>1. /\ UNCHANGED <<spent, credited, credential>>
        /\ \A d \in Conn : pc'[d] = "crediting" => pc[d] = "crediting"
    BY Zenon, <1>4 DEF TypeInv, HandlerType, HandleForwardSphinx, ConsumeBandwidth, bandwidthVars
  <2> QED
    BY Zenon, <2>1 DEF CreditInv, Crediting
<1> QED
  BY Zenon, <1>1, <1>2, <1>3, <1>4, StepKinds

\* A credential is credited at most once, for any number of handlers that check, mark
\* and credit it in any order, with database failures and restarts in between.
THEOREM CreditedOnceHolds == Spec => []CreditedOnce
<1>1. Init => CreditInv
  BY Zenon DEF Init, CreditInv, Crediting
<1>2. TypeInv /\ CreditInv => CreditedOnce
  <2> SUFFICES ASSUME TypeInv, CreditInv, NEW k \in Credential
               PROVE  credited[k] + Cardinality({c \in Conn : Crediting(c, k)})
                          <= IF k \in spent THEN 1 ELSE 0
    BY Zenon DEF CreditedOnce, Crediting
  <2> DEFINE S == {c \in Conn : Crediting(c, k)}
  <2>1. CASE S = {}
    BY <2>1, FS_EmptySet DEF CreditInv
  <2>2. CASE S # {}
    <3>1. PICK c \in Conn : Crediting(c, k)
      BY Zenon, <2>2
    <3>2. S = {c}
      BY Zenon, <3>1 DEF CreditInv
    <3>3. Cardinality(S) = 1
      BY Zenon, <3>2, FS_Singleton
    <3>4. k \in spent /\ credited[k] = 0
      BY Zenon, <3>1 DEF CreditInv
    <3> HIDE DEF S
    <3> QED
      BY <3>3, <3>4 DEF S
  <2> QED
    BY Zenon, <2>1, <2>2
<1> QED
  BY <1>1, <1>2, CreditStep, TypeInvariant, PTL DEF Spec

-------------------------------------------------------------------------------
(* The overdraft.                                                             *)

\* With the packets that are about to be paid for deducted, the balance is not negative,
\* or it has been positive while some of the opened handlers had yet to pay.
OverdraftInv ==
    \/ bandwidth.available - Cardinality(Forwarding) >= 0
    \/ bandwidth.available - Cardinality(Forwarding) >= 1 - Cardinality(Opened)

\* The handlers that forward are opened, and there are finitely many.
LEMMA HandlerCounts ==
    /\ IsFiniteSet(Forwarding) /\ Cardinality(Forwarding) \in Nat
    /\ IsFiniteSet(Opened) /\ Cardinality(Opened) \in Nat
    /\ Cardinality(Forwarding) <= Cardinality(Opened)
<1>1. Opened \in SUBSET Conn /\ Forwarding \in SUBSET Opened
  BY Zenon DEF Opened, Forwarding
<1>2. IsFiniteSet(Opened)
  BY Zenon, <1>1, ConstantsAssumption, FS_Subset
<1>3. IsFiniteSet(Forwarding) /\ Cardinality(Forwarding) <= Cardinality(Opened)
  BY Zenon, <1>1, <1>2, FS_Subset
<1> QED
  BY Zenon, <1>2, <1>3, FS_CardinalityType

\* The same counts after a step: the handlers forwarding a packet are among the open ones.
LEMMA HandlerCountsNext ==
    /\ IsFiniteSet(Forwarding') /\ Cardinality(Forwarding') \in Nat
    /\ IsFiniteSet(Opened') /\ Cardinality(Opened') \in Nat
    /\ Cardinality(Forwarding') <= Cardinality(Opened')
<1>1. Opened' \in SUBSET Conn /\ Forwarding' \in SUBSET Opened'
  BY Zenon DEF Opened, Forwarding
<1>2. IsFiniteSet(Opened')
  BY Zenon, <1>1, ConstantsAssumption, FS_Subset
<1>3. IsFiniteSet(Forwarding') /\ Cardinality(Forwarding') <= Cardinality(Opened')
  BY Zenon, <1>1, <1>2, FS_Subset
<1> QED
  BY Zenon, <1>2, <1>3, FS_CardinalityType

\* Fewer handlers that forward, more that are opened and more bandwidth do no harm.
LEMMA OverdraftFrame ==
    ASSUME OverdraftInv, TypeInv, TypeInv', Forwarding' \subseteq Forwarding,
           Opened \subseteq Opened', bandwidth'.available >= bandwidth.available
    PROVE  OverdraftInv'
<1>1. bandwidth.available \in Int /\ bandwidth'.available \in Int
  BY Zenon DEF TypeInv, BandwidthType
<1>2. Cardinality(Forwarding') <= Cardinality(Forwarding)
  BY Zenon, HandlerCounts, FS_Subset
<1>3. Cardinality(Opened) <= Cardinality(Opened')
  BY Zenon, HandlerCountsNext, FS_Subset
<1> QED
  BY <1>1, <1>2, <1>3, HandlerCounts, HandlerCountsNext DEF OverdraftInv

\* Every step keeps the overdraft within one packet per handler that forwards one.
LEMMA OverdraftStep ==
    ASSUME TypeInv, TypeInv', OverdraftInv, [Next]_vars
    PROVE  OverdraftInv'
<1>1. CASE Calm
  <2>1. Forwarding' \subseteq Forwarding /\ Opened \subseteq Opened'
    BY Zenon, <1>1 DEF Calm, Forwarding, Opened
  <2> QED
    BY Zenon, <1>1, <2>1, OverdraftFrame DEF Calm
<1>2. ASSUME NEW c \in Conn, InsertSpentCredential(c) \/ IncreaseBandwidth(c)
      PROVE  OverdraftInv'
  <2>1. Forwarding' \subseteq Forwarding /\ Opened \subseteq Opened'
    BY Zenon, <1>2 DEF TypeInv, HandlerType, InsertSpentCredential, IncreaseBandwidth, Forwarding, Opened
  <2>2. bandwidth'.available >= bandwidth.available
    BY <1>2 DEF TypeInv, BandwidthType, InsertSpentCredential, IncreaseBandwidth, Update
  <2> QED
    BY Zenon, <2>1, <2>2, OverdraftFrame
<1>3. ASSUME NEW c \in Conn, HandleForwardSphinx(c) PROVE OverdraftInv'
  <2>1. bandwidth'.available \in Int /\ bandwidth'.available >= 1
    BY Zenon, <1>3 DEF TypeInv, BandwidthType, HandleForwardSphinx, bandwidthVars
  <2> QED
    BY <2>1, HandlerCountsNext DEF OverdraftInv
<1>4. ASSUME NEW c \in Conn, ConsumeBandwidth(c) PROVE OverdraftInv'
  <2>1. c \in Forwarding /\ Forwarding' = Forwarding \ {c} /\ Opened' = Opened
    BY Zenon, <1>4 DEF TypeInv, HandlerType, ConsumeBandwidth, Forwarding, Opened
  <2>2. Cardinality(Forwarding') = Cardinality(Forwarding) - 1
    BY Zenon, <2>1, HandlerCounts, FS_RemoveElement
  <2>3. /\ bandwidth.available \in Int /\ bandwidth'.available \in Int
        /\ bandwidth'.available >= bandwidth.available - 1
    BY <1>4 DEF TypeInv, BandwidthType, ConsumeBandwidth, Update
  <2> QED
    BY <2>1, <2>2, <2>3, HandlerCounts, HandlerCountsNext DEF OverdraftInv
<1> QED
  BY Zenon, <1>1, <1>2, <1>3, <1>4, StepKinds

\* However many handlers a client is served by, and however their checks and their
\* deductions interleave, the overdraft stays below the number of connections opened.
THEOREM OverdraftBoundedHolds == Spec => []OverdraftBounded
<1>1. Init => OverdraftInv
  <2> SUFFICES ASSUME Init PROVE OverdraftInv
    BY Zenon
  <2>1. Forwarding = {} /\ bandwidth.available = 0
    BY Zenon DEF Init, Forwarding
  <2> QED
    BY <2>1, FS_EmptySet DEF OverdraftInv
<1>2. TypeInv /\ OverdraftInv => OverdraftBounded
  <2> SUFFICES ASSUME TypeInv, OverdraftInv PROVE OverdraftBounded
    BY Zenon
  <2>1. bandwidth.available < 0 => -bandwidth.available < Cardinality(Opened)
    <3>1. bandwidth.available \in Int
      BY SMTT(20) DEF TypeInv, BandwidthType
    <3> QED
      BY <3>1, HandlerCounts DEF OverdraftInv
  <2> QED
    BY Zenon, <2>1 DEF OverdraftBounded, Opened
<1> QED
  BY <1>1, <1>2, OverdraftStep, TypeInvariant, PTL DEF Spec

-------------------------------------------------------------------------------
(* The bandwidth row.                                                         *)

\* A handler reaches the pushing of messages only with a row in place: registration
\* creates it on the way, and authentication takes keys the client got with one.
RowInv ==
    /\ KeysImplyRow
    /\ \A c \in Conn : pc[c] \in {"waiting", "authenticating"} => keys.client # NoConn
    /\ \A c \in Conn :
          pc[c] \in {"retrieving", "pushing", "removing", "responding"} => bandwidth.row

\* Every step keeps the bandwidth row of a client that is, or is about to be, served.
LEMMA RowStep ==
    ASSUME TypeInv, RowInv, [Next]_vars
    PROVE  RowInv'
<1> USE DEF TypeInv, HandlerType, KeysType, BandwidthType, RowInv, KeysImplyRow
<1>1. ASSUME NEW c \in Conn, ReplaceDuplicate(c) PROVE RowInv'
  BY Zenon, <1>1 DEF ReplaceDuplicate, Disconnect, StopWaiting, bandwidthVars
<1>2. ASSUME NEW c \in Conn, RejectDuplicate(c) PROVE RowInv'
  BY Zenon, <1>2 DEF RejectDuplicate, StopWaiting, bandwidthVars
<1>3. ASSUME NEW c \in Conn, AuthenticateClient(c) PROVE RowInv'
  BY Zenon, <1>3 DEF AuthenticateClient, StartPushing, bandwidthVars
<1>4. ASSUME NEW c \in Conn, InsertSharedKeys(c) PROVE RowInv'
  BY Zenon, <1>4 DEF InsertSharedKeys, bandwidthVars
<1>5. ASSUME NEW c \in Conn, CreateBandwidthEntry(c) PROVE RowInv'
  BY Zenon, <1>5 DEF CreateBandwidthEntry, StartPushing
<1>6. ASSUME NEW c \in Conn, RetrieveMessages(c) PROVE RowInv'
  BY Zenon, <1>6 DEF RetrieveMessages, bandwidthVars
<1>7. ASSUME NEW c \in Conn, PushMessages(c) PROVE RowInv'
  BY Zenon, <1>7 DEF PushMessages, bandwidthVars
<1>8. ASSUME NEW c \in Conn, RemoveMessages(c) PROVE RowInv'
  BY <1>8 DEF RemoveMessages, bandwidthVars
<1>9. ASSUME NEW c \in Conn, Respond(c) PROVE RowInv'
  BY Zenon, <1>9, ConstantsAssumption DEF Respond, LoseMemory, bandwidthVars
<1>10. ASSUME NEW c \in Conn, HandleIsActiveRequest(c) PROVE RowInv'
  BY Zenon, <1>10 DEF HandleIsActiveRequest, bandwidthVars
<1>11. ASSUME NEW c \in Conn, HandlePingTimeout(c) PROVE RowInv'
  BY Zenon, <1>11 DEF HandlePingTimeout, Answer, handlerVars, bandwidthVars
<1>12. ASSUME NEW c \in Conn, PushMixMessage(c) PROVE RowInv'
  BY Zenon, <1>12 DEF PushMixMessage, bandwidthVars
<1>13. ASSUME NEW c \in Conn, ChannelClosed(c) PROVE RowInv'
  BY Zenon, <1>13 DEF ChannelClosed, StopListening, Disconnect, bandwidthVars
<1>14. ASSUME NEW c \in Conn, Drop(c) PROVE RowInv'
  BY Zenon, <1>14 DEF Drop, Disconnect, bandwidthVars
<1>15. ASSUME NEW c \in Conn, InsertSpentCredential(c) PROVE RowInv'
  BY <1>15 DEF InsertSpentCredential, InsertFails
<1>16. ASSUME NEW c \in Conn, IncreaseBandwidth(c) PROVE RowInv'
  BY Zenon, <1>16 DEF IncreaseBandwidth, Update
<1>17. ASSUME NEW c \in Conn, ConsumeBandwidth(c) PROVE RowInv'
  BY Zenon, <1>17 DEF ConsumeBandwidth, Update
<1>18. ASSUME NEW c \in Conn, Accept(c) PROVE RowInv'
  BY Zenon, <1>18 DEF Accept, bandwidthVars
<1>19. ASSUME NEW c \in Conn, FreshFails(c) PROVE RowInv'
  BY Zenon, <1>19 DEF FreshFails, bandwidthVars
<1>20. ASSUME NEW c \in Conn, StorageFails(c) PROVE RowInv'
  BY Zenon, <1>20 DEF StorageFails, bandwidthVars
<1>21. ASSUME NEW c \in Conn, SocketFails(c) PROVE RowInv'
  BY Zenon, <1>21 DEF SocketFails, StopListening, Disconnect, bandwidthVars
<1>22. ASSUME NEW c \in Conn, RequestFails(c) PROVE RowInv'
  BY Zenon, <1>22 DEF RequestFails
<1>23. ASSUME NEW c \in Conn, HandleAuthenticate(c) PROVE RowInv'
  BY Zenon, <1>23 DEF HandleAuthenticate, Lookup, bandwidthVars
<1>24. ASSUME NEW c \in Conn, HandleRegister(c) PROVE RowInv'
  BY Zenon, <1>24 DEF HandleRegister, Lookup, bandwidthVars
<1>25. ASSUME NEW c \in Conn, HandlePong(c) PROVE RowInv'
  BY Zenon, <1>25 DEF HandlePong, Answer, handlerVars, bandwidthVars
<1>26. ASSUME NEW c \in Conn, HandleClaimTestnetBandwidth(c) PROVE RowInv'
  BY Zenon, <1>26 DEF HandleClaimTestnetBandwidth, Update
<1>27. ASSUME NEW c \in Conn, HandleForwardSphinx(c) PROVE RowInv'
  BY Zenon, <1>27 DEF HandleForwardSphinx, bandwidthVars
<1>28. ASSUME NEW c \in Conn, NEW k \in Credential, HandleBandwidthRequest(c, k) PROVE RowInv'
  BY Zenon, <1>28 DEF HandleBandwidthRequest
<1>29. ASSUME NEW r \in Receiver, HandleProcessedPacket(r) PROVE RowInv'
  BY Zenon, <1>29 DEF HandleProcessedPacket, bandwidthVars
<1>30. ASSUME NEW r \in Receiver, StoreMessage(r) PROVE RowInv'
  BY Zenon, <1>30 DEF StoreMessage, handlerVars, bandwidthVars
<1>31. ASSUME NEW r \in Receiver, StoreFails(r) PROVE RowInv'
  BY Zenon, <1>31 DEF StoreFails, handlerVars, bandwidthVars
<1>32. ASSUME GatewayRestarts PROVE RowInv'
  BY Zenon, <1>32 DEF GatewayRestarts, LoseMemory
<1>33. ASSUME NEW c \in Conn, SendWebsocketMessage(c) \/ TakeMixMessage(c) PROVE RowInv'
  BY Zenon, <1>33 DEF SendWebsocketMessage, TakeMixMessage, bandwidthVars
<1>34. ASSUME NEW r \in Receiver, TryPushMessageToClient(r) PROVE RowInv'
  BY Zenon, <1>34 DEF TryPushMessageToClient, handlerVars, bandwidthVars
<1>35. ASSUME UNCHANGED vars PROVE RowInv'
  BY Zenon, <1>35 DEF vars, handlerVars, bandwidthVars
<1> QED
  BY Zenon, <1>1, <1>2, <1>3, <1>4, <1>5, <1>6, <1>7, <1>8, <1>9, <1>10, <1>11, <1>12, <1>13,
     <1>14, <1>15, <1>16, <1>17, <1>18, <1>19, <1>20, <1>21, <1>22, <1>23, <1>24, <1>25,
     <1>26, <1>27, <1>28, <1>29, <1>30, <1>31, <1>32, <1>33, <1>34, <1>35
     DEF Next, HandlerStep, WriteStep, ClientStep, MixStep

\* A client that knows its keys has a bandwidth row: storing the keys and creating the
\* row are two database calls, and a failure or a restart between them leaves keys the
\* client never got, to be replaced by the next registration.
THEOREM KeysImplyRowHolds == Spec => []KeysImplyRow
<1>1. Init => RowInv
  <2>a. Init => keys = [stored |-> NoConn, client |-> NoConn] /\ pc = [c \in Conn |-> "none"]
    BY Zenon DEF Init
  <2>1. Init => keys.client = NoConn /\ \A c \in Conn : pc[c] = "none"
    BY <2>a
  <2> QED
    BY Zenon, <2>1 DEF RowInv, KeysImplyRow
<1>2. RowInv => KeysImplyRow
  BY Zenon DEF RowInv
<1> QED
  BY <1>1, <1>2, RowStep, TypeInvariant, PTL DEF Spec

-----------------------------------------------------------------------------
(* The messages: an acknowledged one is kept, and a handler that answers    *)
(* its client has emptied the inbox.                                        *)

Flushing == {"retrieving", "pushing", "removing", "responding"}

\* What is known of the inbox.  A message that left it was delivered.  While c pushes:
\* the rows it has to deal with are after its cursor when it asks for the next page; they
\* are those of the page, up to where the next one starts, when it has got one.
RemovedDelivered == \A id \in 1 .. Len(stored) : id \notin inbox => stored[id] \in delivered

PageInv(c) ==
    /\ pc[c] = "retrieving" => \A id \in inbox : id <= mark[c] => id > cursor[c]
    /\ pc[c] \in {"pushing", "removing"} =>
          \A id \in inbox :
              id <= mark[c] /\ (cursor[c] = 0 \/ id <= cursor[c]) => id \in batch[c]
    /\ pc[c] = "removing" => \A id \in batch[c] : stored[id] \in delivered
    /\ pc[c] = "responding" => \A id \in inbox : id > mark[c]

FlushInv == RemovedDelivered /\ \A c \in Conn : PageInv(c)

\* Most steps neither acknowledge a message nor move one, and start or end no page.
Quiet ==
    /\ UNCHANGED <<acked, stored, inbox, queue, mark, cursor, delivered, lost>>
    /\ \A c \in Conn : IsClosed(c)' => IsClosed(c)
    /\ \A c \in Conn : pc'[c] \in Flushing => pc'[c] = pc[c] /\ batch'[c] = batch[c]

\* The steps that are not of this kind.
Moving ==
    \/ \E c \in Conn : \/ AuthenticateClient(c) \/ CreateBandwidthEntry(c) \/ RetrieveMessages(c)
                      \/ PushMessages(c) \/ RemoveMessages(c) \/ Respond(c)
                      \/ PushMixMessage(c) \/ Drop(c)
    \/ \E r \in Receiver : MixStep(r)
    \/ GatewayRestarts

\* A step leaves the inbox, the messages delivered and the flushing handlers alone, or is
\* one of the steps that move a message.
LEMMA QuietSteps ==
    ASSUME TypeInv, [Next]_vars
    PROVE  Quiet \/ Moving
<1> USE DEF TypeInv, HandlerType, InboxType
<1>1. ASSUME NEW c \in Conn, ReplaceDuplicate(c) PROVE Quiet
  BY Zenon, <1>1 DEF Quiet, Flushing, IsClosed, Serving, Writing, ReplaceDuplicate, Disconnect,
         StopWaiting, inboxVars, mixVars
<1>2. ASSUME NEW c \in Conn, RejectDuplicate(c) PROVE Quiet
  BY Zenon, <1>2 DEF Quiet, Flushing, IsClosed, Serving, Writing, RejectDuplicate, StopWaiting,
         inboxVars, mixVars
<1>3. ASSUME NEW c \in Conn, InsertSharedKeys(c) PROVE Quiet
  BY Zenon, <1>3 DEF Quiet, Flushing, IsClosed, Serving, Writing, InsertSharedKeys, inboxVars, mixVars
<1>4. ASSUME NEW c \in Conn, HandleIsActiveRequest(c) PROVE Quiet
  BY Zenon, <1>4 DEF Quiet, Flushing, IsClosed, Serving, Writing, HandleIsActiveRequest, Answer,
         handlerVars, inboxVars, mixVars
<1>5. ASSUME NEW c \in Conn, HandlePingTimeout(c) PROVE Quiet
  BY Zenon, <1>5 DEF Quiet, Flushing, IsClosed, Serving, Writing, HandlePingTimeout, Answer, handlerVars,
         inboxVars, mixVars
<1>6. ASSUME NEW c \in Conn, ChannelClosed(c) PROVE Quiet
  BY Zenon, <1>6 DEF Quiet, Flushing, IsClosed, Serving, Writing, ChannelClosed, StopListening,
         Disconnect, inboxVars, mixVars
<1>7. ASSUME NEW c \in Conn, InsertSpentCredential(c) PROVE Quiet
  BY Zenon, <1>7 DEF Quiet, Flushing, IsClosed, Serving, Writing, InsertSpentCredential, InsertFails,
         inboxVars, mixVars
<1>8. ASSUME NEW c \in Conn, IncreaseBandwidth(c) PROVE Quiet
  BY Zenon, <1>8 DEF Quiet, Flushing, IsClosed, Serving, Writing, IncreaseBandwidth, Update, inboxVars,
         mixVars
<1>9. ASSUME NEW c \in Conn, ConsumeBandwidth(c) PROVE Quiet
  BY Zenon, <1>9 DEF Quiet, Flushing, IsClosed, Serving, Writing, ConsumeBandwidth, Update, inboxVars,
         mixVars
<1>10. ASSUME NEW c \in Conn, Accept(c) PROVE Quiet
  BY Zenon, <1>10 DEF Quiet, Flushing, IsClosed, Serving, Writing, Accept, inboxVars, mixVars
<1>11. ASSUME NEW c \in Conn, FreshFails(c) PROVE Quiet
  BY Zenon, <1>11 DEF Quiet, Flushing, IsClosed, Serving, Writing, FreshFails, mixVars
<1>12. ASSUME NEW c \in Conn, StorageFails(c) PROVE Quiet
  BY Zenon, <1>12 DEF Quiet, Flushing, IsClosed, Serving, Writing, StorageFails, mixVars
<1>13. ASSUME NEW c \in Conn, SocketFails(c) PROVE Quiet
  BY Zenon, <1>13 DEF Quiet, Flushing, IsClosed, Serving, Writing, SocketFails, StopListening,
         Disconnect, inboxVars, mixVars
<1>14. ASSUME NEW c \in Conn, RequestFails(c) PROVE Quiet
  BY Zenon, <1>14 DEF Quiet, Flushing, IsClosed, Serving, Writing, RequestFails, inboxVars, mixVars
<1>15. ASSUME NEW c \in Conn, HandleAuthenticate(c) PROVE Quiet
  BY Zenon, <1>15 DEF Quiet, Flushing, IsClosed, Serving, Writing, HandleAuthenticate, Lookup, inboxVars,
         mixVars
<1>16. ASSUME NEW c \in Conn, HandleRegister(c) PROVE Quiet
  BY Zenon, <1>16 DEF Quiet, Flushing, IsClosed, Serving, Writing, HandleRegister, Lookup, inboxVars,
         mixVars
<1>17. ASSUME NEW c \in Conn, HandlePong(c) PROVE Quiet
  BY Zenon, <1>17 DEF Quiet, Flushing, IsClosed, Serving, Writing, HandlePong, Answer, handlerVars,
         inboxVars, mixVars
<1>18. ASSUME NEW c \in Conn, HandleClaimTestnetBandwidth(c) PROVE Quiet
  BY Zenon, <1>18 DEF Quiet, Flushing, IsClosed, Serving, Writing, HandleClaimTestnetBandwidth, Update,
         handlerVars, inboxVars, mixVars
<1>19. ASSUME NEW c \in Conn, HandleForwardSphinx(c) PROVE Quiet
  BY Zenon, <1>19 DEF Quiet, Flushing, IsClosed, Serving, Writing, HandleForwardSphinx, inboxVars,
         mixVars
<1>20. ASSUME NEW c \in Conn, NEW k \in Credential, HandleBandwidthRequest(c, k) PROVE Quiet
  BY Zenon, <1>20 DEF Quiet, Flushing, IsClosed, Serving, Writing, HandleBandwidthRequest, inboxVars,
         mixVars
<1>21. ASSUME NEW c \in Conn, SendWebsocketMessage(c) PROVE Quiet
  BY Zenon, <1>21 DEF Quiet, Flushing, IsClosed, Serving, Writing, SendWebsocketMessage, inboxVars,
         mixVars
<1>22. ASSUME NEW c \in Conn, TakeMixMessage(c) PROVE Quiet
  BY Zenon, <1>22 DEF Quiet, Flushing, IsClosed, Serving, Writing, TakeMixMessage, inboxVars,
         mixVars
<1>23. ASSUME UNCHANGED vars PROVE Quiet
  BY Zenon, <1>23 DEF Quiet, IsClosed, vars, handlerVars, inboxVars, mixVars
<1> QED
  BY <1>1, <1>2, <1>3, <1>4, <1>5, <1>6, <1>7, <1>8, <1>9, <1>10, <1>11, <1>12, <1>13,
     <1>14, <1>15, <1>16, <1>17, <1>18, <1>19, <1>20, <1>21, <1>22, <1>23
     DEF Moving, Next, HandlerStep, WriteStep, ClientStep

\* What a restart leaves of the handlers.
LEMMA LoseMemoryHandlers ==
    ASSUME TypeInv, LoseMemory
    PROVE  /\ \A c \in Conn : pc'[c] \notin Flushing
           /\ UNCHANGED <<acked, stored, inbox, mark, cursor, delivered>>
           /\ lost \subseteq lost'
           /\ \A c \in Conn : Range(queue[c]) \subseteq lost'
BY Zenon DEF TypeInv, HandlerType, LoseMemory, Flushing, Queued

-------------------------------------------------------------------------------
(* Flushing the inbox.                                                        *)

\* A step that leaves the inbox alone and starts or ends no page.
LEMMA FlushFrame ==
    ASSUME TypeInv, FlushInv, UNCHANGED <<stored, inbox, mark, cursor>>,
           delivered \subseteq delivered',
           \A c \in Conn : pc'[c] \in Flushing => pc'[c] = pc[c] /\ batch'[c] = batch[c]
    PROVE  FlushInv'
<1>1. RemovedDelivered'
  BY Zenon DEF FlushInv, RemovedDelivered
<1>2. ASSUME NEW c \in Conn PROVE PageInv(c)'
  BY Zenon DEF FlushInv, PageInv, Flushing
<1> QED
  BY Zenon, <1>1, <1>2 DEF FlushInv

\* StartPushing: nothing is after the beginning yet.
LEMMA StartPushingFlush ==
    ASSUME TypeInv, FlushInv, NEW c \in Conn, StartPushing(c), UNCHANGED delivered,
           pc' = [pc EXCEPT ![c] = "retrieving"]
    PROVE  FlushInv'
<1>1. RemovedDelivered'
  BY Zenon DEF FlushInv, RemovedDelivered, StartPushing
<1>2. PageInv(c)'
  <2>1. pc'[c] = "retrieving" /\ cursor'[c] = 0 /\ inbox' = inbox
    BY Zenon DEF TypeInv, HandlerType, InboxType, StartPushing
  <2>2. \A id \in inbox : id > 0
    BY DEF TypeInv, InboxType
  <2> QED
    BY Zenon, <2>1, <2>2 DEF PageInv
<1>3. ASSUME NEW d \in Conn, d # c PROVE PageInv(d)'
  <2>1. /\ pc'[d] = pc[d] /\ cursor'[d] = cursor[d] /\ mark'[d] = mark[d] /\ batch' = batch
        /\ inbox' = inbox /\ stored' = stored
    BY Zenon, <1>3 DEF TypeInv, HandlerType, InboxType, StartPushing
  <2> QED
    BY Zenon, <2>1 DEF FlushInv, PageInv
<1> QED
  BY Zenon, <1>1, <1>2, <1>3 DEF FlushInv

\* get_messages: the rows up to the cursor are gone, so the page has all rows up to the
\* new one, or all there are.
LEMMA RetrieveFlush ==
    ASSUME TypeInv, FlushInv, NEW c \in Conn, RetrieveMessages(c)
    PROVE  FlushInv'
<1>1. UNCHANGED <<stored, inbox, mark, delivered>>
  BY Zenon DEF RetrieveMessages, mixVars
<1>2. RemovedDelivered'
  BY Zenon, <1>1 DEF FlushInv, RemovedDelivered
<1>3. PageInv(c)'
  <2>1. pc[c] = "retrieving" /\ pc'[c] = "pushing" /\ batch'[c] = Page(c) /\ cursor'[c] = StartAfter(c)
    BY Zenon DEF TypeInv, HandlerType, InboxType, RetrieveMessages
  <2>2. \A id \in inbox : id <= mark[c] => id \in Rows(c)
    BY Zenon, <2>1 DEF FlushInv, PageInv, Rows
  <2>3. TypeOK
    BY Zenon, TypeGroups
  <2>4. ASSUME NEW id \in inbox, id <= mark[c], StartAfter(c) = 0 \/ id <= StartAfter(c)
        PROVE  id \in Page(c)
    <3>1. CASE Page(c) = Rows(c)
      BY Zenon, <2>2, <2>4, <3>1
    <3>2. CASE Page(c) # Rows(c)
      <4>1. StartAfter(c) # 0
        <5>1. StartAfter(c) \in inbox
          BY Zenon, <2>3, <3>2, PageEnds
        <5> QED
          BY <5>1 DEF TypeInv, InboxType
      <4> QED
        BY Zenon, <2>2, <2>3, <2>4, <3>2, <4>1, PageEnds
    <3> QED
      BY Zenon, <3>1, <3>2
  <2> QED
    BY Zenon, <1>1, <2>1, <2>4 DEF PageInv
<1>4. ASSUME NEW d \in Conn, d # c PROVE PageInv(d)'
  <2>1. pc'[d] = pc[d] /\ cursor'[d] = cursor[d] /\ batch'[d] = batch[d]
    BY Zenon, <1>4 DEF TypeInv, HandlerType, InboxType, RetrieveMessages
  <2> QED
    BY Zenon, <1>1, <2>1 DEF FlushInv, PageInv
<1> QED
  BY Zenon, <1>2, <1>3, <1>4 DEF FlushInv

\* push_stored_messages_to_client: a page pushed counts as delivered before it is removed.
LEMMA PushFlush ==
    ASSUME TypeInv, FlushInv, NEW c \in Conn, PushMessages(c)
    PROVE  FlushInv'
<1>1. UNCHANGED inboxVars /\ delivered' = delivered \union {stored[id] : id \in batch[c]}
  BY Zenon DEF PushMessages
<1>2. RemovedDelivered'
  BY Zenon, <1>1 DEF FlushInv, RemovedDelivered, inboxVars
<1>3. PageInv(c)'
  <2>1. pc[c] = "pushing" /\ pc'[c] = "removing"
    BY Zenon DEF TypeInv, HandlerType, PushMessages
  <2>2. \A id \in batch[c] : stored[id] \in delivered'
    BY Zenon, <1>1
  <2> QED
    BY Zenon, <1>1, <2>1, <2>2 DEF FlushInv, PageInv, inboxVars
<1>4. ASSUME NEW d \in Conn, d # c PROVE PageInv(d)'
  <2>1. pc'[d] = pc[d]
    BY Zenon, <1>4 DEF TypeInv, HandlerType, PushMessages
  <2> QED
    BY Zenon, <1>1, <2>1 DEF FlushInv, PageInv, inboxVars
<1> QED
  BY Zenon, <1>2, <1>3, <1>4 DEF FlushInv

\* remove_messages takes a row out of the inbox that was delivered, and when there is
\* none left, the page is done with.
LEMMA RemoveFlush ==
    ASSUME TypeInv, FlushInv, NEW c \in Conn, RemoveMessages(c)
    PROVE  FlushInv'
<1>0. pc[c] = "removing" /\ UNCHANGED <<stored, mark, cursor, delivered>>
  BY Zenon DEF RemoveMessages, inboxVars, mixVars
<1>1. CASE batch[c] = {}
  <2>1. /\ UNCHANGED <<inbox, batch>>
        /\ pc' = [pc EXCEPT ![c] = IF cursor[c] = 0 THEN "responding" ELSE "retrieving"]
    BY Zenon, <1>1 DEF RemoveMessages, inboxVars
  <2>2. RemovedDelivered'
    BY Zenon, <1>0, <2>1 DEF FlushInv, RemovedDelivered
  <2>3. PageInv(c)'
    <3>1. \A id \in inbox : id <= mark[c] => cursor[c] # 0 /\ ~(id <= cursor[c])
      BY Zenon, <1>0, <1>1 DEF FlushInv, PageInv
    <3>2. /\ mark[c] \in Int /\ cursor[c] \in Int /\ \A id \in inbox : id \in Int
      BY DEF TypeInv, InboxType
    <3>3. pc'[c] = IF cursor[c] = 0 THEN "responding" ELSE "retrieving"
      BY Zenon, <2>1 DEF TypeInv, HandlerType
    <3>4. UNCHANGED <<inbox, mark, cursor>>
      BY Zenon, <1>0, <2>1
    <3>5. cursor[c] # 0 => pc'[c] = "retrieving" /\ \A id \in inbox : id <= mark[c] => id > cursor[c]
      <4>1. ASSUME cursor[c] # 0, NEW id \in inbox, id <= mark[c] PROVE id > cursor[c]
        BY <3>1, <3>2, <4>1
      <4> QED
        BY Zenon, <3>3, <4>1
    <3>6. cursor[c] = 0 => pc'[c] = "responding" /\ \A id \in inbox : id > mark[c]
      BY <3>1, <3>2, <3>3
    <3> QED
      BY Zenon, <3>4, <3>5, <3>6 DEF PageInv
  <2>4. ASSUME NEW d \in Conn, d # c PROVE PageInv(d)'
    <3>1. pc'[d] = pc[d]
      BY Zenon, <2>1, <2>4 DEF TypeInv, HandlerType
    <3> QED
      BY Zenon, <1>0, <2>1, <3>1 DEF FlushInv, PageInv
  <2> QED
    BY Zenon, <2>2, <2>3, <2>4 DEF FlushInv
<1>2. CASE batch[c] # {}
  <2> DEFINE i == Min(batch[c])
  <2>1. /\ inbox' = inbox \ {i} /\ batch' = [batch EXCEPT ![c] = batch[c] \ {i}]
        /\ UNCHANGED pc
    BY Zenon, <1>2 DEF TypeInv, InboxType, RemoveMessages
  <2>2. i \in batch[c]
    <3>1. Len(stored) \in Nat /\ batch[c] \in SUBSET (1 .. Len(stored))
      BY DEF TypeInv, InboxType
    <3> QED
      BY Zenon, <1>2, <3>1, IdsHaveEnds
  <2> HIDE DEF i
  <2>3. stored[i] \in delivered
    BY Zenon, <1>0, <2>2 DEF FlushInv, PageInv
  <2>4. RemovedDelivered'
    BY Zenon, <1>0, <2>1, <2>3 DEF FlushInv, RemovedDelivered
  <2>5. PageInv(c)'
    <3>1. batch'[c] = batch[c] \ {i}
      BY Zenon, <2>1 DEF TypeInv, InboxType
    <3> QED
      BY Zenon, <1>0, <2>1, <3>1 DEF FlushInv, PageInv
  <2>6. ASSUME NEW d \in Conn, d # c PROVE PageInv(d)'
    <3>1. batch'[d] = batch[d]
      BY Zenon, <2>1, <2>6 DEF TypeInv, InboxType
    <3> QED
      BY Zenon, <1>0, <2>1, <3>1 DEF FlushInv, PageInv
  <2> QED
    BY Zenon, <2>4, <2>5, <2>6 DEF FlushInv
<1> QED
  BY Zenon, <1>1, <1>2

\* A message that is stored while a handler pushes is after its mark.
LEMMA StoreFlush ==
    ASSUME TypeInv, FlushInv, NEW r \in Receiver, StoreMessage(r)
    PROVE  FlushInv'
<1>1. /\ stored' = Append(stored, storing[r]) /\ inbox' = inbox \union {Len(stored) + 1}
      /\ UNCHANGED <<pc, mark, cursor, batch, delivered>>
  BY Zenon DEF StoreMessage, handlerVars
<1>2. /\ Len(stored) \in Nat /\ Len(stored') = Len(stored) + 1
      /\ \A id \in 1 .. Len(stored) : stored'[id] = stored[id]
  <2>1. stored \in Seq(Msg)
    BY Zenon DEF TypeInv, InboxType
  <2> QED
    BY <1>1, <2>1, Appended
<1>3. RemovedDelivered'
  <2>1. ASSUME NEW id \in 1 .. Len(stored'), id \notin inbox' PROVE stored'[id] \in delivered'
    <3>1. id \in 1 .. Len(stored) /\ id \notin inbox
      BY <1>1, <1>2, <2>1
    <3>2. stored[id] \in delivered
      BY Zenon, <3>1 DEF FlushInv, RemovedDelivered
    <3> QED
      BY Zenon, <1>1, <1>2, <3>1, <3>2
  <2> QED
    BY Zenon, <2>1 DEF RemovedDelivered
<1>4. ASSUME NEW c \in Conn PROVE PageInv(c)'
  <2>1. mark[c] \in 0 .. Len(stored) /\ batch[c] \subseteq 1 .. Len(stored)
    BY Zenon DEF TypeInv, InboxType
  <2>2. \A id \in inbox' : id <= mark[c] => id \in inbox
    BY <1>1, <1>2, <2>1
  <2>3. \A id \in inbox' : id \in inbox \/ id > mark[c]
    BY <1>1, <1>2, <2>1
  <2>4. \A id \in batch[c] : stored'[id] = stored[id]
    BY Zenon, <1>2, <2>1
  <2> QED
    BY Zenon, <1>1, <2>2, <2>3, <2>4 DEF FlushInv, PageInv
<1> QED
  BY Zenon, <1>3, <1>4 DEF FlushInv

\* Every step keeps what a flushing handler has seen of the inbox.
LEMMA FlushStep ==
    ASSUME TypeInv, FlushInv, [Next]_vars
    PROVE  FlushInv'
<1>1. CASE Quiet
  BY Zenon, <1>1, FlushFrame DEF Quiet
<1>2. ASSUME NEW c \in Conn, AuthenticateClient(c) PROVE FlushInv'
  <2>1. CASE keys.stored = keys.client
    BY Zenon, <1>2, <2>1, StartPushingFlush DEF AuthenticateClient, mixVars
  <2>2. CASE keys.stored # keys.client
    BY Zenon, <1>2, <2>2, FlushFrame
       DEF TypeInv, HandlerType, AuthenticateClient, inboxVars, mixVars, Flushing
  <2> QED
    BY Zenon, <2>1, <2>2
<1>3. ASSUME NEW c \in Conn, CreateBandwidthEntry(c) PROVE FlushInv'
  BY Zenon, <1>3, StartPushingFlush DEF CreateBandwidthEntry, mixVars
<1>4. ASSUME NEW c \in Conn, RetrieveMessages(c) \/ PushMessages(c) \/ RemoveMessages(c)
      PROVE  FlushInv'
  BY Zenon, <1>4, RetrieveFlush, PushFlush, RemoveFlush
<1>5. CASE LoseMemory
  BY Zenon, <1>5, LoseMemoryHandlers, FlushFrame
<1>6. ASSUME NEW c \in Conn, Respond(c), ~LoseMemory PROVE FlushInv'
  BY Zenon, <1>6, FlushFrame DEF TypeInv, HandlerType, Respond, inboxVars, mixVars, Flushing
<1>7. ASSUME NEW c \in Conn, PushMixMessage(c) \/ Drop(c) PROVE FlushInv'
  BY Zenon, <1>7, FlushFrame
     DEF TypeInv, HandlerType, PushMixMessage, Drop, handlerVars, inboxVars, Flushing
<1>8. ASSUME NEW r \in Receiver, HandleProcessedPacket(r) \/ TryPushMessageToClient(r)
      PROVE  FlushInv'
  BY Zenon, <1>8, FlushFrame
     DEF HandleProcessedPacket, TryPushMessageToClient, inboxVars, handlerVars
<1>9. ASSUME NEW r \in Receiver, StoreFails(r) PROVE FlushInv'
  BY Zenon, <1>9, FlushFrame DEF StoreFails, inboxVars, handlerVars
<1> QED
  BY Zenon, <1>1, <1>2, <1>3, <1>4, <1>5, <1>6, <1>7, <1>8, <1>9, StoreFlush, QuietSteps
     DEF Moving, MixStep, GatewayRestarts

\* What a flushing handler has seen of the inbox stays true while others store messages.
LEMMA FlushInvariant == Spec => []FlushInv
<1>1. Init => FlushInv
  <2>a. Init => pc = [c \in Conn |-> "none"] /\ stored = <<>>
    BY Zenon DEF Init
  <2>1. Init => \A c \in Conn : pc[c] = "none"
    BY Zenon, <2>a
  <2>2. Init => RemovedDelivered
    BY <2>a DEF RemovedDelivered
  <2>3. Init => \A c \in Conn : PageInv(c)
    BY Zenon, <2>1 DEF PageInv
  <2> QED
    BY Zenon, <2>2, <2>3 DEF FlushInv
<1> QED
  BY <1>1, FlushStep, TypeInvariant, PTL DEF Spec

\* A handler that is about to answer its client has delivered and removed all messages
\* stored before it began, whatever the size of the inbox and of the pages of
\* get_messages, and however many handlers push the same rows meanwhile.
THEOREM InboxFlushedHolds == Spec => []InboxFlushed
<1>1. TypeInv /\ FlushInv => InboxFlushed
  <2> SUFFICES ASSUME TypeInv, FlushInv, NEW c \in Conn, pc[c] = "responding",
                      NEW id \in 1 .. mark[c]
               PROVE  id \notin inbox /\ stored[id] \in delivered
    BY Zenon DEF InboxFlushed
  <2>a. stored \in Seq(Msg) /\ mark \in [Conn -> 0 .. Len(stored)]
    BY Zenon DEF TypeInv, InboxType
  <2>b. Len(stored) \in Nat /\ mark[c] \in 0 .. Len(stored)
    BY <2>a
  <2>1. id \in 1 .. Len(stored) /\ id <= mark[c] /\ id \in Int /\ mark[c] \in Int
    BY <2>b
  <2>2. id \notin inbox
    BY <2>1 DEF FlushInv, PageInv
  <2> QED
    BY Zenon, <2>1, <2>2 DEF FlushInv, RemovedDelivered
<1> QED
  BY <1>1, FlushInvariant, TypeInvariant, PTL

-------------------------------------------------------------------------------
(* Acknowledged messages.                                                     *)

\* A message in a queue is the one that is read next or stays in the queue.
LEMMA QueueRange ==
    ASSUME NEW q \in Seq(Msg)
    PROVE  /\ q # <<>> => Range(q) \subseteq {Head(q)} \union Range(Tail(q))
           /\ \A m \in Msg : Range(Append(q, m)) = Range(q) \union {m}
<1>1. q # <<>> => Range(q) \subseteq {Head(q)} \union Range(Tail(q))
  <2> SUFFICES ASSUME q # <<>>, NEW i \in 1 .. Len(q)
               PROVE  q[i] = Head(q) \/ \E j \in 1 .. Len(Tail(q)) : Tail(q)[j] = q[i]
    <3>1. DOMAIN q = 1 .. Len(q) /\ (q # <<>> => DOMAIN Tail(q) = 1 .. Len(Tail(q)))
      OBVIOUS
    <3> QED
      BY Zenon, <3>1 DEF Range
  <2>1. CASE i = 1
    BY <2>1
  <2>2. CASE i # 1
    <3>1. i - 1 \in 1 .. Len(Tail(q)) /\ Tail(q)[i - 1] = q[i]
      BY <2>2
    <3> QED
      BY Zenon, <3>1
  <2> QED
    BY Zenon, <2>1, <2>2
<1>2. ASSUME NEW m \in Msg PROVE Range(Append(q, m)) = Range(q) \union {m}
  <2>1. /\ DOMAIN Append(q, m) = 1 .. (Len(q) + 1) /\ DOMAIN q = 1 .. Len(q) /\ Len(q) \in Nat
        /\ \A i \in 1 .. Len(q) : Append(q, m)[i] = q[i]
        /\ Append(q, m)[Len(q) + 1] = m
    OBVIOUS
  <2> QED
    BY <2>1 DEF Range
<1> QED
  BY Zenon, <1>1, <1>2

\* Where a message is kept.
Kept(m) ==
    \/ m \in delivered
    \/ m \in lost
    \/ \E id \in inbox : stored[id] = m
    \/ \E c \in Conn : ~IsClosed(c) /\ m \in Range(queue[c])

\* A step in which nothing leaves the inbox or a queue and no handler ends.
LEMMA KeptFrame ==
    ASSUME UNCHANGED <<stored, inbox, queue>>, delivered \subseteq delivered', lost \subseteq lost',
           \A c \in Conn : IsClosed(c)' => IsClosed(c), NEW m, Kept(m)
    PROVE  Kept(m)'
BY Zenon DEF Kept

\* What is kept stays kept: a row is removed only after it was written to a socket, and
\* a handler that ends loses what is in its queue in the same step.
LEMMA KeptStep ==
    ASSUME TypeInv, FlushInv, [Next]_vars, NEW m, Kept(m)
    PROVE  Kept(m)'
<1>1. CASE Quiet
  BY Zenon, <1>1, KeptFrame DEF Quiet
<1>2. ASSUME NEW c \in Conn, AuthenticateClient(c) \/ CreateBandwidthEntry(c) \/ RetrieveMessages(c)
                            \/ PushMessages(c)
      PROVE  Kept(m)'
  <2>1. UNCHANGED <<stored, inbox, queue, lost>> /\ delivered \subseteq delivered'
    BY Zenon, <1>2 DEF AuthenticateClient, CreateBandwidthEntry, RetrieveMessages, PushMessages,
                StartPushing, inboxVars, mixVars
  <2>2. \A d \in Conn : IsClosed(d)' => IsClosed(d)
    BY Zenon, <1>2 DEF TypeInv, HandlerType, AuthenticateClient, CreateBandwidthEntry, RetrieveMessages,
                PushMessages, IsClosed, Serving, Writing
  <2> QED
    BY Zenon, <2>1, <2>2, KeptFrame
<1>3. ASSUME NEW c \in Conn, RemoveMessages(c) PROVE Kept(m)'
  <2>1. UNCHANGED <<stored, queue, delivered, lost>>
    BY Zenon, <1>3 DEF RemoveMessages, inboxVars, mixVars
  <2>2. \A d \in Conn : IsClosed(d)' => IsClosed(d)
    BY Zenon, <1>3 DEF TypeInv, HandlerType, RemoveMessages, IsClosed, Serving, Writing
  <2>3. \A id \in inbox : id \in inbox' \/ stored[id] \in delivered
    <3>1. FlushInv' /\ inbox \subseteq 1 .. Len(stored)
      BY Zenon, <1>3, RemoveFlush DEF TypeInv, InboxType
    <3> QED
      BY Zenon, <2>1, <3>1 DEF FlushInv, RemovedDelivered
  <2> QED
    BY Zenon, <2>1, <2>2, <2>3 DEF Kept
<1>4. CASE LoseMemory
  BY Zenon, <1>4, LoseMemoryHandlers DEF Kept
<1>5. ASSUME NEW c \in Conn, Respond(c), ~LoseMemory PROVE Kept(m)'
  BY Zenon, <1>5, KeptFrame DEF TypeInv, HandlerType, Respond, inboxVars, mixVars, IsClosed, Serving, Writing
<1>6. ASSUME NEW c \in Conn, PushMixMessage(c) PROVE Kept(m)'
  <2>1. queue[c] \in Seq(Msg) /\ queue[c] # <<>>
    BY Zenon, <1>6 DEF TypeInv, MixType, HasSender, PushMixMessage
  <2>2. Range(queue[c]) \subseteq {Head(queue[c])} \union Range(Tail(queue[c]))
    BY Zenon, <2>1, QueueRange
  <2>3. /\ UNCHANGED <<stored, inbox, lost>> /\ delivered' = delivered \union {Head(queue[c])}
        /\ queue'[c] = Tail(queue[c]) /\ \A d \in Conn : d # c => queue'[d] = queue[d]
    BY Zenon, <1>6 DEF TypeInv, MixType, HasSender, PushMixMessage, inboxVars
  <2>4. \A d \in Conn : IsClosed(d)' => IsClosed(d)
    BY Zenon, <1>6 DEF TypeInv, HandlerType, PushMixMessage, IsClosed, Serving, Writing
  <2> QED
    BY Zenon, <2>2, <2>3, <2>4 DEF Kept
<1>7. ASSUME NEW c \in Conn, Drop(c) PROVE Kept(m)'
  <2>1. /\ UNCHANGED <<stored, inbox, delivered>> /\ lost' = lost \union Range(queue[c])
        /\ \A d \in Conn : d # c => queue'[d] = queue[d] /\ pc'[d] = pc[d]
    BY Zenon, <1>7 DEF TypeInv, HandlerType, MixType, HasSender, Drop, inboxVars
  <2>2. \A d \in Conn : d # c => IsClosed(d)' = IsClosed(d)
    BY Zenon, <2>1 DEF IsClosed
  <2> QED
    BY Zenon, <2>1, <2>2 DEF Kept
<1>8. ASSUME NEW r \in Receiver, TryPushMessageToClient(r) PROVE Kept(m)'
  <2>1. UNCHANGED <<pc, stored, inbox, delivered, lost>>
    BY Zenon, <1>8 DEF TryPushMessageToClient, inboxVars, handlerVars
  <2>2. \A d \in Conn : IsClosed(d)' = IsClosed(d)
    BY Zenon, <2>1 DEF IsClosed
  <2>3. pushing[r] \in Msg /\ \A d \in Conn : queue[d] \in Seq(Msg)
    BY Zenon, <1>8 DEF TypeInv, MixType, HasSender, TryPushMessageToClient
  <2>4. \A d \in Conn : queue'[d] = queue[d] \/ queue'[d] = Append(queue[d], pushing[r])
    BY Zenon, <1>8 DEF TypeInv, MixType, HasSender, TryPushMessageToClient
  <2>5. \A d \in Conn : Range(queue[d]) \subseteq Range(queue'[d])
    <3> SUFFICES ASSUME NEW d \in Conn PROVE Range(queue[d]) \subseteq Range(queue'[d])
      BY Zenon
    <3>1. Range(Append(queue[d], pushing[r])) = Range(queue[d]) \union {pushing[r]}
      BY Zenon, <2>3, QueueRange
    <3> QED
      BY Zenon, <2>4, <3>1
  <2> QED
    BY Zenon, <2>1, <2>2, <2>5 DEF Kept
<1>9. ASSUME NEW r \in Receiver, StoreMessage(r) PROVE Kept(m)'
  <2>1. /\ UNCHANGED <<pc, queue, delivered, lost>> /\ inbox \subseteq inbox'
        /\ stored' = Append(stored, storing[r])
    BY Zenon, <1>9 DEF StoreMessage, handlerVars
  <2>2. \A id \in inbox : stored'[id] = stored[id]
    <3>1. stored \in Seq(Msg) /\ inbox \subseteq 1 .. Len(stored)
      BY Zenon DEF TypeInv, InboxType
    <3> QED
      BY <2>1, <3>1, Appended
  <2>3. \A d \in Conn : IsClosed(d)' = IsClosed(d)
    BY Zenon, <2>1 DEF IsClosed
  <2> QED
    BY Zenon, <2>1, <2>2, <2>3 DEF Kept
<1>10. ASSUME NEW r \in Receiver, StoreFails(r) PROVE Kept(m)'
  <2>1. UNCHANGED <<pc, stored, inbox, queue, delivered>> /\ lost \subseteq lost'
    BY Zenon, <1>10 DEF StoreFails, handlerVars, inboxVars
  <2> QED
    BY Zenon, <2>1 DEF Kept, IsClosed
<1>11. ASSUME NEW r \in Receiver, HandleProcessedPacket(r) PROVE Kept(m)'
  <2>1. UNCHANGED <<pc, stored, inbox, queue, delivered, lost>>
    BY Zenon, <1>11 DEF HandleProcessedPacket, inboxVars
  <2> QED
    BY Zenon, <2>1 DEF Kept, IsClosed
<1> QED
  BY Zenon, <1>1, <1>2, <1>3, <1>4, <1>5, <1>6, <1>7, <1>8, <1>9, <1>10, <1>11, QuietSteps
     DEF Moving, MixStep, GatewayRestarts

\* A message is kept from the step on that acknowledges it.
LEMMA AckedStep ==
    ASSUME TypeInv, [Next]_vars, NEW m \in acked', m \notin acked
    PROVE  Kept(m)'
<1>1. CASE Quiet
  BY Zenon, <1>1 DEF Quiet
<1>2. ASSUME NEW r \in Receiver, TryPushMessageToClient(r) PROVE Kept(m)'
  <2>1. PICK d : d = cache[r]
    BY Zenon
  <2>2. ~IsClosed(d) /\ m = pushing[r] /\ m \in Msg
    BY Zenon, <1>2, <2>1 DEF TypeInv, MixType, HasSender, TryPushMessageToClient
  <2>3. queue' = [queue EXCEPT ![d] = Append(@, m)] /\ UNCHANGED pc
    BY Zenon, <1>2, <2>1, <2>2 DEF TryPushMessageToClient, handlerVars
  <2>4. d \in Conn
    BY Zenon, <1>2, <2>1 DEF TypeInv, MixType, HasSender, TryPushMessageToClient
  <2>5. queue'[d] = Append(queue[d], m) /\ queue[d] \in Seq(Msg)
    BY Zenon, <2>3, <2>4 DEF TypeInv, MixType, HasSender
  <2>6. m \in Range(queue'[d])
    <3>1. Range(Append(queue[d], m)) = Range(queue[d]) \union {m}
      BY Zenon, <2>2, <2>5, QueueRange
    <3> QED
      BY Zenon, <2>5, <3>1
  <2>7. ~IsClosed(d)'
    BY Zenon, <2>2, <2>3 DEF IsClosed
  <2> QED
    BY Zenon, <2>4, <2>6, <2>7 DEF Kept
<1>3. ASSUME NEW r \in Receiver, StoreMessage(r) PROVE Kept(m)'
  <2>1. /\ m = storing[r] /\ stored' = Append(stored, m)
        /\ inbox' = inbox \union {Len(stored) + 1}
    BY Zenon, <1>3 DEF StoreMessage
  <2>2. stored'[Len(stored) + 1] = m
    <3>1. stored \in Seq(Msg)
      BY Zenon DEF TypeInv, InboxType
    <3> QED
      BY Zenon, <2>1, <3>1, Appended
  <2> QED
    BY Zenon, <2>1, <2>2 DEF Kept
<1>4. ASSUME NEW r \in Receiver, StoreFails(r) \/ HandleProcessedPacket(r) PROVE Kept(m)'
  BY Zenon, <1>4 DEF StoreFails, HandleProcessedPacket, Kept
<1>5. CASE LoseMemory
  BY Zenon, <1>5 DEF LoseMemory
<1>6. ASSUME NEW c \in Conn,
             \/ AuthenticateClient(c) \/ CreateBandwidthEntry(c) \/ RetrieveMessages(c)
             \/ PushMessages(c) \/ RemoveMessages(c) \/ (Respond(c) /\ ~LoseMemory)
             \/ PushMixMessage(c) \/ Drop(c)
      PROVE  FALSE
  BY Zenon, <1>6 DEF AuthenticateClient, CreateBandwidthEntry, RetrieveMessages, PushMessages,
              RemoveMessages, Respond, PushMixMessage, Drop, mixVars
<1> QED
  BY Zenon, <1>1, <1>2, <1>3, <1>4, <1>5, <1>6, QuietSteps DEF Moving, MixStep, GatewayRestarts

\* A message whose ack was forwarded is delivered, in the inbox or in the queue of a handler
\* that still reads it, unless that handler ended or storing failed: a handler that ends
\* between check_cache and unbounded_send does not take it along, whatever senders the
\* receivers have cached and however the handlers of the client replace each other.
THEOREM AckedMessagesKeptHolds == Spec => []AckedMessagesKept
<1>1. AckedMessagesKept <=> \A m \in acked : Kept(m)
  BY Zenon DEF AckedMessagesKept, Kept
<1>2. Init => AckedMessagesKept
  BY Zenon DEF Init, AckedMessagesKept
<1>3. TypeInv /\ FlushInv /\ AckedMessagesKept /\ [Next]_vars => AckedMessagesKept'
  <2> SUFFICES ASSUME TypeInv, FlushInv, AckedMessagesKept, [Next]_vars, NEW m \in acked'
               PROVE  Kept(m)'
    BY Zenon, <1>1 DEF AckedMessagesKept, Kept
  <2>1. CASE m \in acked
    BY Zenon, <1>1, <2>1, KeptStep
  <2>2. CASE m \notin acked
    BY Zenon, <2>2, AckedStep
  <2> QED
    BY Zenon, <2>1, <2>2
<1> QED
  BY <1>2, <1>3, FlushInvariant, TypeInvariant, PTL DEF Spec
=============================================================================
