-------------------------- MODULE ReplySurbsProofs --------------------------
(***************************************************************************)
(* Proofs about ReplySurbs: the state keeps its shape, a SURB that was     *)
(* spent is gone, and the requester can read what is sent with the SURBs   *)
(* it gave out.                                                            *)
(*                                                                         *)
(* The handlers of the ReplyController are chains of the same few steps    *)
(* on its memory m; the predicate Sound says what each of them keeps of m, *)
(* and the lemmas about the steps are put together once per handler.       *)
(***************************************************************************)
EXTENDS ReplySurbs, FiniteSetTheorems, TLAPS

\* Time for the leaves that expand much.
USE SMTT(30), ZenonT(30)

-----------------------------------------------------------------------------
(* The shape of the state when the SURBs below N have been made.           *)

Surbs(N) == 1..(N - 1)
Ages == 0..SurbAge
Entries(N) == [data : Seq(Surbs(N)), pendingReception : Nat, age : Ages]
DataFragment == {Data(n) : n \in Reply}
Fragments(N) ==
    DataFragment \cup {SurbRequest(n, a) : n \in Surbs(N), a \in 1..MaxRequest}
SentPackets(N) == [frag : Fragments(N), surb : Surbs(N)]
Messages(N) == [surbs : Seq(Surbs(N)), requested : BOOLEAN]

MemType(m, N) ==
    /\ m \in [entry : Entries(N) \cup {NoEntry}, replies : Seq(DataFragment),
              retransmissions : SUBSET Fragments(N), unacked : SUBSET Fragments(N),
              reconstructed : SUBSET Messages(N), out : SUBSET SentPackets(N),
              failures : Nat]
    /\ IsFiniteSet(m.retransmissions)

Held(entry) == IF entry = NoEntry THEN {} ELSE Range(entry.data)

\* A SURB that an entry has twice is in D.
Once(entry, D) ==
    entry # NoEntry =>
        \A i, j \in DOMAIN entry.data :
            i # j /\ entry.data[i] = entry.data[j] => entry.data[i] \in D

\* m has SURBs of A only, and what it has twice, or has sent and kept, or sent
\* twice, is in D.
Sound(m, A, D) ==
    /\ Held(m.entry) \subseteq A
    /\ Once(m.entry, D)
    /\ \A p \in m.out : p.surb \in A
    /\ \A p \in m.out : p.surb \in Held(m.entry) => p.surb \in D
    /\ \A p, q \in m.out : p # q /\ p.surb = q.surb => p.surb \in D

Good(m, N, A, D) == MemType(m, N) /\ Sound(m, A, D)

-----------------------------------------------------------------------------
(* Sequences.                                                              *)

\* A function on an interval from 1 is a sequence.
LEMMA FunctionIsSeq ==
    ASSUME NEW T, NEW n \in Nat, NEW f \in [1..n -> T] PROVE f \in Seq(T)
  OBVIOUS

\* Listed lists a finite set.
LEMMA ListedType ==
    ASSUME NEW S, IsFiniteSet(S)
    PROVE  Listed(S) \in Seq(S) /\ Len(Listed(S)) = Cardinality(S)
<1>1. Cardinality(S) \in Nat /\ ExistsBijection(1..Cardinality(S), S)
  BY Zenon, FS_CardinalityType
<1>2. \E f \in [1..Cardinality(S) -> S] : IsInjective(f)
  BY Zenon, <1>1 DEF ExistsBijection, Bijection, Injection, IsInjective
<1>3. Listed(S) \in [1..Cardinality(S) -> S]
  BY Zenon, <1>2 DEF Listed
<1> QED
  BY <1>1, <1>3

\* VecDeque::drain: the first n elements and the others.
LEMMA SplitType ==
    ASSUME NEW T, NEW s \in Seq(T), NEW n \in 0..Len(s)
    PROVE  /\ SubSeq(s, 1, n) \in Seq(T) /\ Len(SubSeq(s, 1, n)) = n
           /\ \A i \in 1..n : SubSeq(s, 1, n)[i] = s[i]
           /\ Drop(s, n) \in Seq(T) /\ Len(Drop(s, n)) = Len(s) - n
           /\ \A i \in 1..(Len(s) - n) : Drop(s, n)[i] = s[i + n]
<1>1. Len(s) \in Nat /\ n \in Int /\ \A i \in 1..Len(s) : s[i] \in T
  OBVIOUS
<1>2. /\ SubSeq(s, 1, n) \in Seq(T)
      /\ Len(SubSeq(s, 1, n)) = IF 1 <= n THEN n - 1 + 1 ELSE 0
      /\ \A i \in 1..(n - 1 + 1) : SubSeq(s, 1, n)[i] = s[1 + i - 1]
  BY <1>1
<1>3. /\ SubSeq(s, n + 1, Len(s)) \in Seq(T)
      /\ Len(SubSeq(s, n + 1, Len(s))) =
            IF n + 1 <= Len(s) THEN Len(s) - (n + 1) + 1 ELSE 0
      /\ \A i \in 1..(Len(s) - (n + 1) + 1) :
            SubSeq(s, n + 1, Len(s))[i] = s[n + 1 + i - 1]
  BY <1>1
<1>4. n - 1 + 1 = n /\ Len(s) - (n + 1) + 1 = Len(s) - n
  BY <1>1
<1>5. \A i \in 1..n : 1 + i - 1 = i
  BY <1>1
<1>6. \A i \in 1..(Len(s) - n) : n + 1 + i - 1 = i + n
  BY <1>1
<1>7. /\ SubSeq(s, 1, n) \in Seq(T) /\ Len(SubSeq(s, 1, n)) = n
      /\ \A i \in 1..n : SubSeq(s, 1, n)[i] = s[i]
  <2>1. Len(SubSeq(s, 1, n)) = n
    BY <1>1, <1>2
  <2> QED
    BY Zenon, <1>2, <1>4, <1>5, <2>1
<1>8. /\ SubSeq(s, n + 1, Len(s)) \in Seq(T) /\ Len(SubSeq(s, n + 1, Len(s))) = Len(s) - n
      /\ \A i \in 1..(Len(s) - n) : SubSeq(s, n + 1, Len(s))[i] = s[i + n]
  <2>1. Len(SubSeq(s, n + 1, Len(s))) = Len(s) - n
    BY <1>1, <1>3
  <2> QED
    BY ZenonT(30), <1>3, <1>4, <1>6, <2>1
<1> QED
  BY Zenon, <1>7, <1>8 DEF Drop

\* The elements of a sequence.
LEMMA ElementsOf ==
    ASSUME NEW T, NEW s \in Seq(T)
    PROVE  Range(s) = {s[i] : i \in 1..Len(s)} /\ Range(s) \subseteq T
BY DEF Range

-----------------------------------------------------------------------------
(* The SURBs of the sender.                                                *)

\* NoEntry is not taken for an entry.
LEMMA EntryIsNone ==
    ASSUME NEW N \in Nat \ {0}
    PROVE  NoEntry \notin Entries(N)
<1>1. Surbs(N) \subseteq Nat
  BY DEF Surbs
<1>2. Seq(Surbs(N)) \subseteq Seq(Nat)
  BY <1>1
<1> QED
  BY Zenon, <1>2, NoEntryAssumption DEF Entries, Ages

\* get_reply_surbs drains the SURBs it returns.
LEMMA TakeSurbs ==
    ASSUME NEW N \in Nat \ {0}, NEW e \in Entries(N), NEW n \in 0..Len(e.data)
    PROVE  /\ Taken(e, n) \in Seq(Surbs(N)) /\ Len(Taken(e, n)) = n
           /\ \A i \in 1..n : Taken(e, n)[i] = e.data[i]
           /\ Without(e, n) \in Entries(N)
           /\ Len(Without(e, n).data) = Len(e.data) - n
           /\ \A i \in 1..(Len(e.data) - n) : Without(e, n).data[i] = e.data[i + n]
<1>1. e.data \in Seq(Surbs(N)) /\ e.pendingReception \in Nat /\ e.age \in Ages
  BY Zenon DEF Entries
<1>2. /\ SubSeq(e.data, 1, n) \in Seq(Surbs(N)) /\ Len(SubSeq(e.data, 1, n)) = n
      /\ \A i \in 1..n : SubSeq(e.data, 1, n)[i] = e.data[i]
      /\ Drop(e.data, n) \in Seq(Surbs(N)) /\ Len(Drop(e.data, n)) = Len(e.data) - n
      /\ \A i \in 1..(Len(e.data) - n) : Drop(e.data, n)[i] = e.data[i + n]
  BY ZenonT(30), <1>1, SplitType
<1>3. Without(e, n) \in Entries(N) /\ Without(e, n).data = Drop(e.data, n)
  BY ZenonT(30), <1>1, <1>2 DEF Without, Entries
<1> QED
  BY Zenon, <1>2, <1>3 DEF Taken

\* insert_surbs appends, whether the SURBs are new or come back.
LEMMA InsertType ==
    ASSUME NEW N \in Nat \ {0}, NEW e \in Entries(N) \cup {NoEntry},
           NEW s \in Seq(Surbs(N))
    PROVE  /\ InsertSurbs(e, s) \in Entries(N)
           /\ e # NoEntry => InsertSurbs(e, s).data = e.data \o s
           /\ e = NoEntry => InsertSurbs(e, s).data = s
<1> 0 \in Ages
  BY DEF Ages, SurbAge
<1>1. CASE e = NoEntry
  BY Zenon, <1>1 DEF InsertSurbs, NewEntry, Entries
<1>2. CASE e # NoEntry
  <2>1. e \in Entries(N) /\ e.data \in Seq(Surbs(N))
    BY Zenon, <1>2 DEF Entries
  <2>2. e.data \o s \in Seq(Surbs(N))
    BY <2>1
  <2>3. InsertSurbs(e, s) = [e EXCEPT !.data = e.data \o s, !.age = 0]
    BY Zenon, <1>2 DEF InsertSurbs
  <2> QED
    BY ZenonT(30), <1>2, <2>1, <2>2, <2>3 DEF Entries
<1> QED
  BY Zenon, <1>1, <1>2

\* The SURBs held are the elements of data.
LEMMA HeldOf ==
    ASSUME NEW N \in Nat \ {0}, NEW e \in Entries(N)
    PROVE  /\ e # NoEntry
           /\ e.data \in Seq(Surbs(N)) /\ Len(e.data) \in Nat
           /\ DOMAIN e.data = 1..Len(e.data)
           /\ Held(e) = {e.data[i] : i \in 1..Len(e.data)} /\ Held(e) \subseteq Surbs(N)
<1>1. e # NoEntry /\ e.data \in Seq(Surbs(N))
  BY Zenon, EntryIsNone DEF Entries
<1> QED
  BY <1>1, ElementsOf DEF Held

\* The packets of a reply carry one SURB each.
LEMMA PacketsType ==
    ASSUME NEW N \in Nat \ {0}, NEW frags \in Seq(Fragments(N)),
           NEW surbs \in Seq(Surbs(N)), Len(surbs) = Len(frags)
    PROVE  /\ Packets(frags, surbs) \subseteq SentPackets(N)
           /\ Range(frags) \subseteq Fragments(N)
<1>1. ASSUME NEW i \in 1..Len(frags)
      PROVE  frags[i] \in Fragments(N) /\ surbs[i] \in Surbs(N)
  BY <1>1
<1>2. Range(frags) \subseteq Fragments(N)
  BY Zenon, ElementsOf
<1> QED
  BY <1>1, <1>2 DEF Packets, SentPackets

\* try_send_reply_chunks: every SURB taken is in one packet, or all are put back.
LEMMA SpendGood ==
    ASSUME NEW N \in Nat \ {0}, NEW A, NEW D, NEW m, Good(m, N, A, D),
           m.entry # NoEntry, NEW frags \in Seq(Fragments(N)),
           Len(frags) <= Len(m.entry.data), NEW ok \in BOOLEAN
    PROVE  LET r == Spend(m, frags, ok) IN
           /\ Good(r, N, A, D)
           /\ r.entry # NoEntry
           /\ r.replies = m.replies
           /\ r.retransmissions = m.retransmissions
<1> DEFINE e == m.entry
           n == Len(frags)
           taken == Taken(e, n)
           left == Without(e, n)
           r == Spend(m, frags, ok)
<1>1. MemType(m, N) /\ Sound(m, A, D)
  BY Zenon DEF Good
<1>2. e \in Entries(N) /\ n \in 0..Len(e.data) /\ n \in Nat
  <2>1. e \in Entries(N)
    BY Zenon, <1>1 DEF MemType
  <2>2. Len(e.data) \in Nat /\ n \in Nat
    BY <2>1, HeldOf
  <2> QED
    BY <2>1, <2>2
<1>3. /\ e.data \in Seq(Surbs(N)) /\ Len(e.data) \in Nat /\ DOMAIN e.data = 1..Len(e.data)
      /\ Held(e) = {e.data[i] : i \in 1..Len(e.data)} /\ Held(e) \subseteq Surbs(N)
  BY Zenon, <1>2, HeldOf
<1>4. /\ taken \in Seq(Surbs(N)) /\ Len(taken) = n
      /\ \A i \in 1..n : taken[i] = e.data[i]
      /\ left \in Entries(N)
      /\ Len(left.data) = Len(e.data) - n
      /\ \A i \in 1..(Len(e.data) - n) : left.data[i] = e.data[i + n]
  BY ZenonT(30), <1>2, TakeSurbs
<1>5. /\ left # NoEntry /\ left.data \in Seq(Surbs(N)) /\ DOMAIN left.data = 1..Len(left.data)
      /\ Held(left) = {left.data[i] : i \in 1..Len(left.data)}
  BY Zenon, <1>4, HeldOf
<1>6. \A i, j \in 1..Len(e.data) : i # j /\ e.data[i] = e.data[j] => e.data[i] \in D
  BY Zenon, <1>1, <1>3 DEF Sound, Once
<1>7. ASSUME ok
      PROVE  /\ Good(r, N, A, D) /\ r.entry # NoEntry
             /\ r.replies = m.replies /\ r.retransmissions = m.retransmissions
  <2> DEFINE new == Packets(frags, taken)
  <2>1. r = [m EXCEPT !.entry = left, !.out = @ \cup new, !.unacked = @ \cup Range(frags)]
    BY Zenon, <1>7 DEF Spend
  <2>2. new \subseteq SentPackets(N) /\ Range(frags) \subseteq Fragments(N)
    BY Zenon, <1>4, PacketsType
  <2>3. \A p \in new : \E i \in 1..n : p = [frag |-> frags[i], surb |-> e.data[i]]
    BY Zenon, <1>4 DEF Packets
  <2>4. /\ MemType(r, N) /\ r.entry = left /\ r.out = m.out \cup new
        /\ r.replies = m.replies /\ r.retransmissions = m.retransmissions
    <3> HIDE DEF r, new, left
    <3> QED
      BY ZenonT(30), <1>1, <1>4, <2>1, <2>2 DEF MemType
  <2> HIDE DEF r, new, left, taken, e
  <2>5. Held(left) \subseteq Held(e)
    <3>1. \A i \in 1..(Len(e.data) - n) : i + n \in 1..Len(e.data)
      BY <1>2, <1>3
    <3>2. \A x \in Held(left) : \E i \in 1..(Len(e.data) - n) : x = e.data[i + n]
      BY ZenonT(30), <1>4, <1>5
    <3> QED
      BY Zenon, <1>3, <3>1, <3>2
  <2>6. \A p \in new : p.surb \in Held(e)
    <3>1. 1..n \subseteq 1..Len(e.data)
      BY <1>2, <1>3
    <3> QED
      BY <1>3, <2>3, <3>1
  <2>7. \A p \in new : p.surb \in Held(left) => p.surb \in D
    <3> SUFFICES ASSUME NEW p \in new, p.surb \in Held(left)
                 PROVE  p.surb \in D
      BY Zenon
    <3>1. PICK i \in 1..n : p.surb = e.data[i]
      BY <2>3
    <3>2. PICK j \in 1..(Len(e.data) - n) : p.surb = e.data[j + n]
      BY ZenonT(30), <1>4, <1>5
    <3>3. i \in 1..Len(e.data) /\ j + n \in 1..Len(e.data) /\ i # j + n
      BY <1>2, <1>3
    <3> QED
      BY ZenonT(30), <1>6, <3>1, <3>2, <3>3
  <2>8. \A p, q \in new : p # q /\ p.surb = q.surb => p.surb \in D
    <3> SUFFICES ASSUME NEW p \in new, NEW q \in new, p # q, p.surb = q.surb
                 PROVE  p.surb \in D
      BY Zenon
    <3>1. PICK i \in 1..n : p = [frag |-> frags[i], surb |-> e.data[i]]
      BY Zenon, <2>3
    <3>2. PICK j \in 1..n : q = [frag |-> frags[j], surb |-> e.data[j]]
      BY Zenon, <2>3
    <3>3. i \in 1..Len(e.data) /\ j \in 1..Len(e.data) /\ i # j
      BY <1>2, <1>3, <3>1, <3>2
    <3> QED
      BY Zenon, <1>6, <3>1, <3>2, <3>3
  <2>9. Once(left, D)
    <3> SUFFICES ASSUME NEW i \in 1..(Len(e.data) - n), NEW j \in 1..(Len(e.data) - n), i # j,
                        left.data[i] = left.data[j]
                 PROVE  left.data[i] \in D
      BY ZenonT(30), <1>4, <1>5 DEF Once
    <3>1. i + n \in 1..Len(e.data) /\ j + n \in 1..Len(e.data) /\ i + n # j + n
      BY <1>2, <1>3
    <3> QED
      BY Zenon, <1>4, <1>6, <3>1
  <2>10. Sound(r, A, D)
    <3>1. Held(e) \subseteq A /\ \A p \in m.out : p.surb \in A /\ (p.surb \in Held(e) => p.surb \in D)
      BY Zenon, <1>1 DEF Sound, e
    <3>2. \A p, q \in m.out : p # q /\ p.surb = q.surb => p.surb \in D
      BY Zenon, <1>1 DEF Sound
    <3>3. \A p, q \in r.out : p # q /\ p.surb = q.surb => p.surb \in D
      BY Zenon, <2>4, <2>6, <2>8, <3>1, <3>2
    <3> QED
      BY Zenon, <2>4, <2>5, <2>6, <2>7, <2>9, <3>1, <3>3 DEF Sound
  <2> QED
    BY Zenon, <1>5, <2>4, <2>10 DEF Good, left, e
<1>8. ASSUME ~ok
      PROVE  /\ Good(r, N, A, D) /\ r.entry # NoEntry
             /\ r.replies = m.replies /\ r.retransmissions = m.retransmissions
  <2> DEFINE back == InsertSurbs(left, taken)
  <2>1. r = [m EXCEPT !.entry = back, !.failures = @ + 1]
    BY Zenon, <1>8 DEF Spend
  <2>2. back \in Entries(N) /\ back.data = left.data \o taken
    <3> HIDE DEF left, taken
    <3> QED
      BY <1>4, <1>5, InsertType
  <2>3. /\ MemType(r, N) /\ r.entry = back /\ r.out = m.out
        /\ r.replies = m.replies /\ r.retransmissions = m.retransmissions
    <3> HIDE DEF r, back
    <3>1. PICK k \in Nat : k = m.failures + 1
      BY <1>1 DEF MemType
    <3>2. r = [m EXCEPT !.entry = back, !.failures = k]
      BY Zenon, <2>1, <3>1
    <3> QED
      BY ZenonT(30), <1>1, <2>2, <3>2 DEF MemType
  <2>4. /\ back # NoEntry /\ DOMAIN back.data = 1..Len(back.data)
        /\ Held(back) = {back.data[i] : i \in 1..Len(back.data)}
    BY ZenonT(30), <2>2, HeldOf
  <2> DEFINE from(i) == IF i <= Len(e.data) - n THEN i + n ELSE i - (Len(e.data) - n)
  <2> HIDE DEF r, back, left, taken, e
  <2>5. /\ Len(back.data) = Len(e.data)
        /\ \A i \in 1..Len(e.data) : from(i) \in 1..Len(e.data) /\ back.data[i] = e.data[from(i)]
    <3>1. /\ Len(left.data \o taken) = Len(left.data) + Len(taken)
          /\ \A i \in 1..(Len(left.data) + Len(taken)) : (left.data \o taken)[i] =
                IF i <= Len(left.data) THEN left.data[i] ELSE taken[i - Len(left.data)]
      <4> DEFINE d == left.data
      <4>1. d \in Seq(Surbs(N)) /\ taken \in Seq(Surbs(N))
        BY Zenon, <1>4, <1>5
      <4> HIDE DEF d
      <4>2. /\ Len(d \o taken) = Len(d) + Len(taken)
            /\ \A i \in 1..(Len(d) + Len(taken)) : (d \o taken)[i] =
                  IF i <= Len(d) THEN d[i] ELSE taken[i - Len(d)]
        BY <4>1
      <4> QED
        BY Zenon, <4>2 DEF d
    <3>2. Len(left.data) + Len(taken) = Len(e.data)
      BY <1>2, <1>3, <1>4
    <3>3. ASSUME NEW i \in 1..Len(e.data)
          PROVE  from(i) \in 1..Len(e.data) /\ (left.data \o taken)[i] = e.data[from(i)]
      <4>1. CASE i <= Len(e.data) - n
        <5>1. i \in 1..(Len(e.data) - n) /\ i + n \in 1..Len(e.data)
          BY <1>2, <1>3, <4>1
        <5> QED
          BY Zenon, <1>4, <3>1, <3>2, <4>1, <5>1
      <4>2. CASE ~(i <= Len(e.data) - n)
        <5>1. i - (Len(e.data) - n) \in 1..n /\ i - (Len(e.data) - n) \in 1..Len(e.data)
          BY <1>2, <1>3, <4>2
        <5> QED
          BY ZenonT(30), <1>4, <3>1, <3>2, <4>2, <5>1
      <4> QED
        BY ZenonT(30), <4>1, <4>2
    <3> QED
      BY ZenonT(30), <2>2, <3>1, <3>2, <3>3
  <2>6. \A i, j \in 1..Len(e.data) : i # j => from(i) # from(j)
    <3>1. \A L \in Nat : \A k \in 0..L, i \in 1..L, j \in 1..L :
              i # j => (IF i <= L - k THEN i + k ELSE i - (L - k))
                       # (IF j <= L - k THEN j + k ELSE j - (L - k))
      OBVIOUS
    <3> QED
      BY ZenonT(30), <1>2, <1>3, <3>1
  <2> HIDE DEF from
  <2>7. Once(back, D)
    <3> SUFFICES ASSUME NEW i \in 1..Len(e.data), NEW j \in 1..Len(e.data), i # j,
                        back.data[i] = back.data[j]
                 PROVE  back.data[i] \in D
      BY Zenon, <2>4, <2>5 DEF Once
    <3>1. from(i) # from(j) /\ from(i) \in 1..Len(e.data) /\ from(j) \in 1..Len(e.data)
      BY Zenon, <2>5, <2>6
    <3> QED
      BY ZenonT(30), <1>6, <2>5, <3>1
  <2>8. Held(back) \subseteq Held(e)
    BY ZenonT(30), <1>3, <2>4, <2>5
  <2>9. Sound(r, A, D)
    <3>1. Held(e) \subseteq A /\ \A p \in m.out : p.surb \in A /\ (p.surb \in Held(e) => p.surb \in D)
      BY Zenon, <1>1 DEF Sound, e
    <3>2. \A p, q \in m.out : p # q /\ p.surb = q.surb => p.surb \in D
      BY Zenon, <1>1 DEF Sound
    <3> QED
      BY Zenon, <2>3, <2>7, <2>8, <3>1, <3>2 DEF Sound
  <2> QED
    BY Zenon, <2>3, <2>4, <2>9 DEF Good
<1> QED
  BY Zenon, <1>7, <1>8

-----------------------------------------------------------------------------
(* The other steps of the handlers.                                        *)

\* The queue of replies is not about SURBs.
LEMMA GoodReplies ==
    ASSUME NEW N \in Nat \ {0}, NEW A, NEW D, NEW m, Good(m, N, A, D),
           NEW q \in Seq(DataFragment)
    PROVE  LET r == [m EXCEPT !.replies = q] IN
           /\ Good(r, N, A, D) /\ r.replies = q /\ r.entry = m.entry
           /\ r.retransmissions = m.retransmissions
BY ZenonT(30) DEF Good, MemType, Sound

\* Neither is the queue of retransmissions.
LEMMA GoodRetransmissions ==
    ASSUME NEW N \in Nat \ {0}, NEW A, NEW D, NEW m, Good(m, N, A, D),
           NEW R \in SUBSET Fragments(N), IsFiniteSet(R)
    PROVE  LET r == [m EXCEPT !.retransmissions = R] IN
           /\ Good(r, N, A, D) /\ r.replies = m.replies /\ r.entry = m.entry
           /\ r.retransmissions = R
BY Zenon DEF Good, MemType, Sound

\* Nor are the counts kept in an entry.
LEMMA GoodEntry ==
    ASSUME NEW N \in Nat \ {0}, NEW A, NEW D, NEW m, Good(m, N, A, D),
           m.entry # NoEntry, NEW e \in Entries(N), e.data = m.entry.data
    PROVE  LET r == [m EXCEPT !.entry = e] IN
           /\ Good(r, N, A, D) /\ r.entry = e
           /\ r.replies = m.replies /\ r.retransmissions = m.retransmissions
<1> DEFINE r == [m EXCEPT !.entry = e]
<1>1. MemType(r, N) /\ r.entry = e /\ r.out = m.out /\ r.replies = m.replies
      /\ r.retransmissions = m.retransmissions
  BY ZenonT(30) DEF Good, MemType
<1>2. e # NoEntry
  BY Zenon, EntryIsNone
<1>3. Held(e) = Held(m.entry) /\ (Once(m.entry, D) => Once(e, D))
  BY Zenon, <1>2 DEF Held, Once
<1>4. Sound(r, A, D)
  BY Zenon, <1>1, <1>3 DEF Good, Sound
<1> QED
  BY Zenon, <1>1, <1>4 DEF Good

\* What can be taken for data is there.
LEMMA SpendableBound ==
    ASSUME NEW N \in Nat \ {0}, NEW e \in Entries(N) \cup {NoEntry}
    PROVE  /\ Spendable(e) \in Nat /\ AvailableSurbs(e) \in Nat
           /\ Spendable(e) <= AvailableSurbs(e)
           /\ AvailableSurbs(e) > 0 => e \in Entries(N) /\ AvailableSurbs(e) = Len(e.data)
<1>1. MinThreshold \in Nat
  BY Zenon, ConfigAssumption
<1>2. AvailableSurbs(e) \in Nat
  BY Zenon, HeldOf DEF AvailableSurbs
<1>3. AvailableSurbs(e) > 0 => e \in Entries(N) /\ AvailableSurbs(e) = Len(e.data)
  BY DEF AvailableSurbs
<1> HIDE DEF AvailableSurbs
<1> QED
  BY <1>1, <1>2, <1>3 DEF Spendable

\* pop_at_most_pending_replies, and re_insert_pending_replies after a failure.
LEMMA SendFirstGood ==
    ASSUME NEW N \in Nat \ {0}, NEW A, NEW D, NEW m, Good(m, N, A, D), NEW ok \in BOOLEAN,
           NEW n \in 0..Len(m.replies), n <= AvailableSurbs(m.entry)
    PROVE  Good(SendFirst(m, n, ok), N, A, D)
<1> DEFINE first == SubSeq(m.replies, 1, n)
           rest == Drop(m.replies, n)
           popped == [m EXCEPT !.replies = rest]
<1>1. m.replies \in Seq(DataFragment) /\ m.entry \in Entries(N) \cup {NoEntry}
  BY Zenon DEF Good, MemType
<1>2. /\ first \in Seq(DataFragment) /\ Len(first) = n /\ rest \in Seq(DataFragment)
  BY <1>1, SplitType
<1>3. CASE n = 0
  BY Zenon, <1>3 DEF SendFirst
<1>4. ASSUME n # 0 PROVE Good(SendFirst(m, n, ok), N, A, D)
  <2>1. m.entry \in Entries(N) /\ n <= Len(m.entry.data) /\ m.entry # NoEntry
    <3>1. n \in Nat /\ AvailableSurbs(m.entry) \in Nat
      BY <1>1, SpendableBound
    <3> QED
      BY <1>1, <1>4, <3>1, SpendableBound, EntryIsNone
  <2>2. Good(popped, N, A, D) /\ popped.entry = m.entry /\ popped.replies = rest
    <3> HIDE DEF rest
    <3> QED
      BY <1>2, GoodReplies
  <2>3. first \in Seq(Fragments(N))
    <3>1. DataFragment \subseteq Fragments(N)
      BY DEF Fragments
    <3> QED
      BY <1>2, <3>1
  <2> HIDE DEF first, rest, popped
  <2>4. /\ Good(Spend(popped, first, ok), N, A, D)
        /\ Spend(popped, first, ok).replies = rest
    BY <1>2, <2>1, <2>2, <2>3, SpendGood
  <2>5. rest \o first \in Seq(DataFragment)
    BY <1>2
  <2>6. Good([Spend(popped, first, ok) EXCEPT !.replies = rest \o first], N, A, D)
    BY ZenonT(30), <2>4, <2>5, GoodReplies
  <2>7. SendFirst(m, n, ok) = IF ok THEN Spend(popped, first, ok)
                              ELSE [Spend(popped, first, ok) EXCEPT !.replies = @ \o first]
    BY Zenon, <1>4 DEF SendFirst, popped, first, rest
  <2> QED
    BY Zenon, <2>4, <2>6, <2>7
<1> QED
  BY Zenon, <1>3, <1>4

\* try_clear_pending_queue.
LEMMA ClearQueueGood ==
    ASSUME NEW N \in Nat \ {0}, NEW A, NEW D, NEW m, Good(m, N, A, D), NEW ok \in BOOLEAN
    PROVE  Good(TryClearPendingQueue(m, ok), N, A, D)
<1> DEFINE n == MinOf(Len(m.replies), Spendable(m.entry))
<1>1. m.replies \in Seq(DataFragment) /\ m.entry \in Entries(N) \cup {NoEntry}
  BY Zenon DEF Good, MemType
<1>2. /\ Len(m.replies) \in Nat /\ Spendable(m.entry) \in Nat
      /\ AvailableSurbs(m.entry) \in Nat /\ Spendable(m.entry) <= AvailableSurbs(m.entry)
  BY <1>1, SpendableBound
<1>3. n \in 0..Len(m.replies) /\ n <= AvailableSurbs(m.entry)
  BY <1>2 DEF MinOf
<1> HIDE DEF n
<1>4. Good(SendFirst(m, n, ok), N, A, D)
  BY Zenon, <1>3, SendFirstGood
<1> QED
  BY Zenon, <1>4 DEF TryClearPendingQueue, n

\* What waits for SURBs can be counted.
LEMMA TotalQueueType ==
    ASSUME NEW N \in Nat \ {0}, NEW m, MemType(m, N)
    PROVE  TotalQueue(m) \in Nat
<1>1. Len(m.replies) \in Nat
  BY DEF MemType
<1>2. Cardinality(m.retransmissions) \in Nat
  BY Zenon, FS_CardinalityType DEF MemType
<1> QED
  BY <1>1, <1>2 DEF TotalQueue

\* request_reply_surbs_for_queue_clearing takes one SURB for its request.
LEMMA RequestGood ==
    ASSUME NEW N \in Nat \ {0}, NEW A, NEW D, NEW m, Good(m, N, A, D), NEW ok \in BOOLEAN
    PROVE  Good(RequestReplySurbsForQueueClearing(m, ok), N, A, D)
<1> DEFINE size == MinOf(MaxRequest, MaxOf(TotalQueue(m), MinRequest))
           frags == <<SurbRequest(Head(m.entry.data), size)>>
           spent == Spend(m, frags, ok)
           r == RequestReplySurbsForQueueClearing(m, ok)
<1>1. CASE TotalQueue(m) = 0 \/ AvailableSurbs(m.entry) = 0
  BY Zenon, <1>1 DEF RequestReplySurbsForQueueClearing
<1>2. ASSUME TotalQueue(m) # 0, AvailableSurbs(m.entry) # 0 PROVE Good(r, N, A, D)
  <2>1. MemType(m, N) /\ m.entry \in Entries(N) \cup {NoEntry}
    BY Zenon DEF Good, MemType
  <2>2. m.entry \in Entries(N) /\ Len(m.entry.data) \in Nat /\ Len(m.entry.data) >= 1
    BY <1>2, <2>1, SpendableBound
  <2>3. size \in 1..MaxRequest
    <3>1. TotalQueue(m) \in Nat /\ MaxRequest \in Nat \ {0} /\ MinRequest \in Nat
      BY Zenon, <2>1, TotalQueueType, ConfigAssumption
    <3> QED
      BY <1>2, <3>1 DEF MinOf, MaxOf
  <2>4. Head(m.entry.data) \in Surbs(N)
    <3>1. m.entry.data \in Seq(Surbs(N)) /\ m.entry.data # << >>
      BY <2>2 DEF Entries
    <3> QED
      BY <3>1
  <2>5. frags \in Seq(Fragments(N)) /\ Len(frags) = 1
    <3> HIDE DEF size
    <3>1. SurbRequest(Head(m.entry.data), size) \in Fragments(N)
      BY <2>3, <2>4 DEF Fragments
    <3> QED
      BY <3>1
  <2> HIDE DEF frags
  <2>6. Good(spent, N, A, D) /\ spent.entry # NoEntry
    <3>1. m.entry # NoEntry /\ Len(frags) <= Len(m.entry.data)
      BY Zenon, <2>2, <2>5, EntryIsNone
    <3> HIDE DEF size
    <3>2. /\ Good(Spend(m, frags, ok), N, A, D)
          /\ Spend(m, frags, ok).entry # NoEntry
      <4>1. frags \in Seq(Fragments(N))
        BY Zenon, <2>5
      <4> QED
        BY <3>1, <4>1, SpendGood
    <3> QED
      BY Zenon, <3>2
  <2> HIDE DEF spent, size
  <2>7. r = IF ok THEN [spent EXCEPT !.entry = IncrementPendingReception(@, size)] ELSE spent
    BY Zenon, <1>2 DEF RequestReplySurbsForQueueClearing, spent, size, frags
  <2>8. Good([spent EXCEPT !.entry = IncrementPendingReception(@, size)], N, A, D)
    <3> DEFINE e == IncrementPendingReception(spent.entry, size)
    <3>1. spent.entry \in Entries(N)
      BY Zenon, <2>6 DEF Good, MemType
    <3>2. PICK k \in Nat : k = spent.entry.pendingReception + size
      BY <2>3, <3>1 DEF Entries
    <3>3. e = [spent.entry EXCEPT !.pendingReception = k]
      BY Zenon, <3>2 DEF IncrementPendingReception
    <3>4. e \in Entries(N) /\ e.data = spent.entry.data
      BY Zenon, <3>1, <3>3 DEF Entries
    <3> HIDE DEF e
    <3>5. Good([spent EXCEPT !.entry = e], N, A, D)
      BY Zenon, <2>6, <3>4, GoodEntry
    <3> QED
      BY Zenon, <3>5 DEF e
  <2> QED
    BY Zenon, <2>6, <2>7, <2>8
<1> QED
  BY Zenon, <1>1, <1>2

\* request_additional_reply_surbs, if should_request_more_surbs.
LEMMA RequestIfNeededGood ==
    ASSUME NEW N \in Nat \ {0}, NEW A, NEW D, NEW m, Good(m, N, A, D), NEW ok \in BOOLEAN
    PROVE  Good(RequestIfNeeded(m, ok), N, A, D)
BY Zenon, RequestGood DEF RequestIfNeeded

-----------------------------------------------------------------------------
(* The queue of retransmissions.                                           *)

\* Among the subsets of a finite set there are minimal ones.
LEMMA MinimalSubset ==
    ASSUME NEW U, IsFiniteSet(U), NEW F, \A T \in F : T \subseteq U, F # {}
    PROVE  \E T \in F : \A V \in F : V \subseteq T => V = T
<1>1. IsWellFoundedOn(StrictSubsetOrdering(U), SUBSET U)
  BY ZenonT(30), FS_StrictSubsetOrderingWellFounded, FS_FiniteSubsetsOfFinite
<1>2. PICK T \in F : \A V \in F : ~(<<V, T>> \in StrictSubsetOrdering(U))
  <2>1. F \subseteq SUBSET U
    BY Zenon
  <2> QED
    BY Zenon, <1>1, <2>1, WFMin
<1> QED
  BY ZenonT(30), <1>2 DEF StrictSubsetOrdering

\* A position of a queue that something holds of is preceded by a first one.
LEMMA FirstPosition ==
    ASSUME NEW n \in Nat, NEW S \in SUBSET (0..n), S # {}
    PROVE  \E x \in S : \A y \in S : x <= y
<1>1. IsFiniteSet(S)
  <2>1. IsFiniteSet(0..n)
    BY FS_Interval
  <2> QED
    BY ZenonT(30), <2>1, FS_Subset
<1>2. \A x \in S : x \in Int
  OBVIOUS
<1> DEFINE Upto(x) == {y \in S : y <= x}
           F == {Upto(x) : x \in S}
<1>3. F # {} /\ \A T \in F : T \subseteq S
  BY ZenonT(30)
<1>4. PICK T \in F : \A V \in F : V \subseteq T => V = T
  <2> HIDE DEF F
  <2> QED
    BY <1>1, <1>3, MinimalSubset
<1>5. PICK x \in S : T = Upto(x)
  BY Zenon
<1>6. ASSUME NEW y \in S, y < x PROVE FALSE
  <2>1. \A z \in S : z <= y => z <= x
    BY <1>2, <1>6
  <2>2. Upto(y) \subseteq Upto(x)
    BY ZenonT(30), <2>1
  <2>3. x \in Upto(x) /\ x \notin Upto(y)
    BY <1>2, <1>6
  <2>4. Upto(y) = Upto(x)
    BY ZenonT(30), <1>4, <1>5, <2>2
  <2> QED
    BY Zenon, <2>3, <2>4
<1> QED
  BY <1>2, <1>6

\* The fragments among the first i of the queue whose ack has not come, and where
\* try_clear_pending_retransmission stops popping.
Alive(queue, U, i) == {queue[j] : j \in 1..i} \cap U
Popped(queue, U, n) ==
    CHOOSE i \in 0..Len(queue) :
        /\ i = Len(queue) \/ Cardinality(Alive(queue, U, i)) = n
        /\ \A j \in 0..(i - 1) : Cardinality(Alive(queue, U, j)) < n

\* It stops when it has n of them, or when the queue is empty: it never has more.
LEMMA PopsEnough ==
    ASSUME NEW S, IsFiniteSet(S), NEW U, NEW n \in Nat \ {0},
           NEW queue, queue = Listed(S)
    PROVE  LET popped == Popped(queue, U, n)
               sent == Alive(queue, U, popped)
           IN  /\ popped \in 0..Len(queue) /\ sent \subseteq S
               /\ IsFiniteSet(sent) /\ Cardinality(sent) <= n
<1> DEFINE alive(i) == Alive(queue, U, i)
           Stops(i) == /\ i = Len(queue) \/ Cardinality(alive(i)) = n
                       /\ \A j \in 0..(i - 1) : Cardinality(alive(j)) < n
           popped == Popped(queue, U, n)
<1>1. queue \in Seq(S) /\ Len(queue) \in Nat /\ \A j \in 1..Len(queue) : queue[j] \in S
  BY ListedType
<1>2. ASSUME NEW i \in 0..Len(queue)
      PROVE  alive(i) \subseteq S /\ IsFiniteSet(alive(i)) /\ Cardinality(alive(i)) \in Nat
  <2>1. alive(i) \subseteq S
    BY <1>1 DEF Alive
  <2> HIDE DEF alive
  <2>2. IsFiniteSet(alive(i))
    BY Zenon, <2>1, FS_Subset
  <2> QED
    BY Zenon, <2>1, <2>2, FS_CardinalityType
<1>3. ASSUME NEW i \in 0..Len(queue), \A j \in 0..(i - 1) : Cardinality(alive(j)) < n
      PROVE  Cardinality(alive(i)) <= n
  <2>1. CASE i = 0
    <3>1. alive(i) = {}
      BY <2>1 DEF Alive
    <3> HIDE DEF alive
    <3> QED
      BY <3>1, FS_EmptySet
  <2>2. CASE i # 0
    <3>1. i - 1 \in 0..Len(queue) /\ i - 1 \in 0..(i - 1)
      BY <1>1, <2>2
    <3>2. alive(i) \subseteq alive(i - 1) \cup {queue[i]}
      <4>1. \A j \in 1..i : j \in 1..(i - 1) \/ j = i
        BY <1>1
      <4> QED
        BY Zenon, <4>1 DEF Alive
    <3>3. /\ IsFiniteSet(alive(i - 1)) /\ Cardinality(alive(i - 1)) \in Nat
          /\ Cardinality(alive(i)) \in Nat /\ Cardinality(alive(i - 1)) < n
      BY Zenon, <1>2, <1>3, <3>1
    <3> HIDE DEF alive
    <3>4. /\ IsFiniteSet(alive(i - 1) \cup {queue[i]})
          /\ \/ Cardinality(alive(i - 1) \cup {queue[i]}) = Cardinality(alive(i - 1)) + 1
             \/ Cardinality(alive(i - 1) \cup {queue[i]}) = Cardinality(alive(i - 1))
      BY ZenonT(30), <3>3, FS_AddElement
    <3>5. Cardinality(alive(i)) <= Cardinality(alive(i - 1) \cup {queue[i]})
      BY Zenon, <3>2, <3>4, FS_Subset
    <3> QED
      BY <3>3, <3>4, <3>5
  <2> QED
    BY Zenon, <2>1, <2>2
<1>4. \E i \in 0..Len(queue) : Stops(i)
  <2> DEFINE Z == {i \in 0..Len(queue) : i = Len(queue) \/ ~(Cardinality(alive(i)) < n)}
  <2> HIDE DEF alive
  <2>1. Z \in SUBSET (0..Len(queue)) /\ Z # {}
    BY <1>1
  <2>2. PICK i \in Z : \A y \in Z : i <= y
    <3> HIDE DEF Z
    <3> QED
      BY ZenonT(30), <1>1, <2>1, FirstPosition
  <2>3. \A j \in 0..(i - 1) : Cardinality(alive(j)) < n
    <3> SUFFICES ASSUME NEW j \in 0..(i - 1) PROVE Cardinality(alive(j)) < n
      BY Zenon
    <3>1. j \in 0..Len(queue) /\ ~(i <= j)
      BY <1>1, <2>1
    <3>2. j \notin Z
      BY Zenon, <2>2, <3>1
    <3> QED
      BY Zenon, <3>1, <3>2
  <2>4. Cardinality(alive(i)) <= n /\ Cardinality(alive(i)) \in Nat
    BY Zenon, <1>2, <1>3, <2>3
  <2> QED
    BY <2>2, <2>3, <2>4
<1>5. popped \in 0..Len(queue) /\ Stops(popped)
  BY Zenon, <1>4 DEF Popped
<1> HIDE DEF popped
<1>6. Cardinality(alive(popped)) <= n
  BY Zenon, <1>3, <1>5
<1>7. alive(popped) \subseteq S /\ IsFiniteSet(alive(popped))
  BY Zenon, <1>2, <1>5
<1> HIDE DEF alive
<1> QED
  BY Zenon, <1>5, <1>6, <1>7 DEF popped, alive

\* try_clear_pending_retransmission.
LEMMA ClearRetransmissionsGood ==
    ASSUME NEW N \in Nat \ {0}, NEW A, NEW D, NEW m, Good(m, N, A, D), NEW ok \in BOOLEAN
    PROVE  Good(TryClearPendingRetransmission(m, ok), N, A, D)
<1> DEFINE n == Spendable(m.entry)
           queue == Listed(m.retransmissions)
           popped == Popped(queue, m.unacked, n)
           sent == Alive(queue, m.unacked, popped)
           taken == Listed(sent)
           kept == Range(Drop(queue, popped))
           rest == [m EXCEPT !.retransmissions = kept]
           r == TryClearPendingRetransmission(m, ok)
<1>1. /\ m.entry \in Entries(N) \cup {NoEntry}
      /\ IsFiniteSet(m.retransmissions) /\ m.retransmissions \subseteq Fragments(N)
  BY Zenon DEF Good, MemType
<1>2. CASE n = 0
  BY Zenon, <1>2 DEF TryClearPendingRetransmission
<1>3. ASSUME n # 0 PROVE Good(r, N, A, D)
  <2>1. n \in Nat \ {0} /\ m.entry \in Entries(N) /\ n <= Len(m.entry.data) /\ m.entry # NoEntry
    BY <1>1, <1>3, SpendableBound, EntryIsNone
  <2>2. r = IF taken = << >> THEN rest
            ELSE IF ok THEN Spend(rest, taken, ok)
            ELSE [Spend(rest, taken, ok) EXCEPT !.retransmissions = @ \cup Range(taken)]
    BY Zenon, <1>3 DEF TryClearPendingRetransmission, Popped, Alive
  <2> HIDE DEF n, r
  <2>3. /\ popped \in 0..Len(queue) /\ sent \subseteq m.retransmissions
        /\ IsFiniteSet(sent) /\ Cardinality(sent) <= n
    BY Zenon, <1>1, <2>1, PopsEnough
  <2>4. queue \in Seq(m.retransmissions)
    BY Zenon, <1>1, ListedType
  <2> HIDE DEF queue, popped, sent
  <2>5. kept \subseteq m.retransmissions /\ IsFiniteSet(kept)
    <3>1. Drop(queue, popped) \in Seq(m.retransmissions)
      BY Zenon, <2>3, <2>4, SplitType
    <3>2. kept \subseteq m.retransmissions
      BY Zenon, <3>1, ElementsOf
    <3> QED
      BY Zenon, <1>1, <3>2, FS_Subset
  <2> HIDE DEF kept
  <2>6. /\ taken \in Seq(sent) /\ taken \in Seq(Fragments(N)) /\ Len(taken) = Cardinality(sent)
        /\ Range(taken) \subseteq sent
    <3>1. taken \in Seq(sent) /\ Len(taken) = Cardinality(sent)
      BY Zenon, <2>3, ListedType
    <3>2. sent \subseteq Fragments(N)
      BY Zenon, <1>1, <2>3
    <3> QED
      BY <3>1, <3>2, ElementsOf
  <2> HIDE DEF taken
  <2>7. /\ Good(rest, N, A, D) /\ rest.entry = m.entry /\ rest.retransmissions = kept
    BY <1>1, <2>5, GoodRetransmissions
  <2> HIDE DEF rest
  <2>8. Len(taken) <= Len(rest.entry.data) /\ rest.entry # NoEntry
    <3>1. Len(taken) \in Nat /\ Len(m.entry.data) \in Nat
      BY <2>1, <2>6, HeldOf
    <3> QED
      BY <2>1, <2>3, <2>6, <2>7, <3>1
  <2>9. /\ Good(Spend(rest, taken, ok), N, A, D)
        /\ Spend(rest, taken, ok).retransmissions = kept
    BY <2>6, <2>7, <2>8, SpendGood
  <2>10. Good([Spend(rest, taken, ok) EXCEPT !.retransmissions = kept \cup Range(taken)], N, A, D)
    <3>1. kept \cup Range(taken) \subseteq m.retransmissions
      BY Zenon, <2>3, <2>5, <2>6
    <3>2. IsFiniteSet(kept \cup Range(taken)) /\ kept \cup Range(taken) \subseteq Fragments(N)
      BY Zenon, <1>1, <3>1, FS_Subset
    <3> QED
      BY Zenon, <2>9, <3>2, GoodRetransmissions
  <2> QED
    BY Zenon, <2>2, <2>7, <2>9, <2>10
<1> QED
  BY Zenon, <1>2, <1>3

-----------------------------------------------------------------------------
(* The invariants.                                                         *)

Budgets == [losses : Nat, topology : Nat, refusals : Nat, messages : Nat, crashes : Nat,
            shutdowns : Nat, database : Nat, halfDays : Nat, delays : Nat, overtakes : Nat]
Phases == {"down", "loaded", "session", "nosession", "shutdown", "flushing", "dumped",
           "flushed", "stopped"}
Idles == 0..2
Files(N) == [flushInProgress : BOOLEAN, flushed : BOOLEAN, clientInUse : BOOLEAN,
             entry : Entries(N) \cup {NoEntry}, idle : Idles]
Requests(N) == {f \in Fragments(N) : f.type = "request"}
PeerShape(p) ==
    p = [keys |-> p.keys, next |-> p.next, requests |-> p.requests, seen |-> p.seen,
         owed |-> p.owed, storing |-> p.storing]
PeerType(p) ==
    /\ PeerShape(p)
    /\ p.next \in Nat \ {0}
    /\ p.keys \in [DOMAIN p.keys -> Nat] /\ DOMAIN p.keys \subseteq Surbs(p.next)
    /\ p.requests \subseteq Requests(p.next) /\ p.seen \subseteq Fragments(p.next)
    /\ p.owed \in Nat /\ p.storing \subseteq Messages(p.next)
Histories == [stored : SUBSET Nat, spent : SUBSET Nat, doubled : SUBSET Nat,
              purged : SUBSET Nat]

\* The shape of the state between two steps.
TypeInv ==
    /\ env \in Environments
    /\ budget \in Budgets
    /\ phase \in Phases
    /\ ctl \in {"on", "last", "gone"}
    /\ phase = "down" => ctl = "gone"
    /\ phase \in {"loaded", "session"} => ctl = "on"
    /\ db \in Files(peer.next)
    /\ todo \subseteq Reply
    /\ MemType(mem, peer.next) /\ mem.out = {} /\ mem.failures = 0
    /\ net \subseteq SentPackets(peer.next)
    /\ inbox \subseteq Messages(peer.next)
    /\ PeerType(peer)
    /\ history \in Histories

\* The SURBs whose keys the requester holds or is about to store.
Keyed(p) == DOMAIN p.keys \cup UNION {Range(msg.surbs) : msg \in p.storing}

\* What the requester can read, or cannot for a known reason.
Readable == Keyed(peer) \cup history.doubled \cup history.purged

\* The SURBs of a file that may be loaded again.
DbSafe ==
    /\ Held(db.entry) \cap history.spent \subseteq history.doubled
    /\ Held(db.entry) \subseteq Readable

\* Where the SURBs are.
MemInv ==
    /\ Sound(mem, history.stored, history.doubled)
    /\ Held(mem.entry) \cap history.spent \subseteq history.doubled
    /\ Held(mem.entry) \subseteq Readable

NetInv ==
    /\ history.spent \subseteq history.stored
    /\ \A p \in net : p.surb \in history.spent /\ p.surb \in Readable
    /\ \A p, q \in net : p # q /\ p.surb = q.surb => p.surb \in history.doubled
    /\ \A msg \in inbox :
          /\ \A i, j \in DOMAIN msg.surbs : i # j => msg.surbs[i] # msg.surbs[j]
          /\ Range(msg.surbs) \subseteq Keyed(peer) \cup history.purged \cup history.stored

\* A file is marked as in use while SURBs of it can be spent unnoticed.
DbInv ==
    /\ Held(db.entry) \subseteq history.stored
    /\ Once(db.entry, history.doubled)
    /\ phase \in {"session", "shutdown"} => db.clientInUse
    /\ db.clientInUse \/ DbSafe
    /\ phase \in {"loaded", "nosession", "flushing", "dumped", "flushed"} => DbSafe

SurbInv == MemInv /\ NetInv /\ DbInv

-----------------------------------------------------------------------------
(* The steps of the ReplyController.                                       *)

\* More SURBs only add to what there may be.
LEMMA Grows ==
    ASSUME NEW N \in Nat \ {0}, NEW M \in Nat \ {0}, N <= M
    PROVE  /\ Entries(N) \subseteq Entries(M) /\ Fragments(N) \subseteq Fragments(M)
           /\ SentPackets(N) \subseteq SentPackets(M) /\ Messages(N) \subseteq Messages(M)
           /\ Requests(N) \subseteq Requests(M) /\ Files(N) \subseteq Files(M)
           /\ Surbs(N) \subseteq Surbs(M)
           /\ \A m : MemType(m, N) => MemType(m, M)
<1>1. Surbs(N) \subseteq Surbs(M)
  BY DEF Surbs
<1>2. Seq(Surbs(N)) \subseteq Seq(Surbs(M))
  BY <1>1
<1>3. Entries(N) \subseteq Entries(M)
  BY Zenon, <1>2 DEF Entries
<1>4. Fragments(N) \subseteq Fragments(M)
  BY <1>1 DEF Fragments
<1>5. SentPackets(N) \subseteq SentPackets(M)
  BY Zenon, <1>1, <1>4 DEF SentPackets
<1>6. Messages(N) \subseteq Messages(M)
  BY Zenon, <1>2 DEF Messages
<1>7. Requests(N) \subseteq Requests(M)
  BY Zenon, <1>4 DEF Requests
<1>8. Files(N) \subseteq Files(M)
  BY Zenon, <1>3 DEF Files
<1>9. \A m : MemType(m, N) => MemType(m, M)
  BY Zenon, <1>3, <1>4, <1>5, <1>6 DEF MemType
<1> QED
  BY <1>1, <1>3, <1>4, <1>5, <1>6, <1>7, <1>8, <1>9

\* decrement_pending_reception, reset_pending_reception and time leave the SURBs.
LEMMA EntryCounts ==
    ASSUME NEW N \in Nat \ {0}, NEW e \in Entries(N) \cup {NoEntry}, NEW k \in Nat,
           NEW r \in {DecrementPendingReception(e, k), ResetPendingReception(e), Aged(e)}
    PROVE  /\ r \in Entries(N) \cup {NoEntry}
           /\ r = NoEntry <=> e = NoEntry
           /\ e # NoEntry => r \in Entries(N) /\ r.data = e.data
           /\ Held(r) = Held(e)
           /\ \A D : Once(e, D) => Once(r, D)
<1>1. CASE e = NoEntry
  BY Zenon, <1>1 DEF DecrementPendingReception, ResetPendingReception, Aged
<1>2. ASSUME e # NoEntry
      PROVE  r \in Entries(N) /\ r # NoEntry /\ r.data = e.data
  <2>1. e \in Entries(N) /\ e.pendingReception \in Nat /\ SurbAge \in Ages
    BY <1>2 DEF Entries, Ages, SurbAge
  <2>2. PICK c \in Nat : c = IF e.pendingReception > k THEN e.pendingReception - k ELSE 0
    BY <2>1
  <2>3. \/ r = [e EXCEPT !.pendingReception = c]
        \/ r = [e EXCEPT !.pendingReception = 0]
        \/ r = [e EXCEPT !.age = SurbAge]
    BY Zenon, <1>2, <2>2 DEF DecrementPendingReception, ResetPendingReception, Aged
  <2>4. r \in Entries(N) /\ r.data = e.data
    BY <2>1, <2>3 DEF Entries
  <2> QED
    BY Zenon, <2>4, EntryIsNone
<1>3. e # NoEntry => Held(r) = Held(e) /\ \A D : Once(e, D) => Once(r, D)
  BY Zenon, <1>2 DEF Held, Once
<1> QED
  BY Zenon, <1>1, <1>2, <1>3, EntryIsNone

\* A handler that could not prepare its packets uses up that fault.
LEMMA FailedType ==
    ASSUME budget \in Budgets, NEW m, m.failures \in Nat, m.failures <= budget.topology
    PROVE  Failed(m) \in Budgets /\ Failed(m).losses = budget.losses
<1>1. PICK k \in Nat : k = budget.topology - m.failures
  BY DEF Budgets
<1>2. Failed(m) = [budget EXCEPT !.topology = k]
  BY Zenon, <1>1 DEF Failed
<1> QED
  BY Zenon, <1>2 DEF Budgets

\* The SURBs that the messages bring, and those that may be spent twice for it.
Brought(msgs) == UNION {Range(msg.surbs) : msg \in msgs}
Doubled(msgs) == history.doubled \cup (Brought(msgs) \cap history.stored)

\* What a handler has to keep of the memory it works on.
Kept(m, msgs) == Good(m, peer.next, Held(mem.entry) \cup Brought(msgs), Doubled(msgs))

\* A handler that kept the memory good keeps the invariants: what it spent was held
\* or new, and if it is in the file as well, the file is not trusted or it counts as
\* liable to be spent twice.
LEMMA DoneStep ==
    ASSUME TypeInv, SurbInv, NEW m, NEW msgs \in SUBSET inbox, Kept(m, msgs), Done(m, msgs),
           budget' \in Budgets, todo' \subseteq Reply, inbox' \subseteq inbox,
           UNCHANGED <<env, phase, db, peer>>
    PROVE  TypeInv' /\ SurbInv'
<1> DEFINE N == peer.next
           new == Brought(msgs)
           A == Held(mem.entry) \cup new
           D == Doubled(msgs)
           spent == {p.surb : p \in m.out}
<1>1. N \in Nat \ {0} /\ MemType(m, N) /\ Sound(m, A, D)
  BY Zenon DEF Kept, Good, TypeInv, PeerType
<1>2. m.out \subseteq SentPackets(N) /\ m.entry \in Entries(N) \cup {NoEntry}
  BY Zenon, <1>1 DEF MemType
<1>3. /\ mem' = [m EXCEPT !.out = {}, !.failures = 0] /\ net' = net \cup m.out
      /\ ctl' = IF ctl = "last" THEN "gone" ELSE ctl
      /\ history' = [history EXCEPT
            !.spent = @ \cup spent, !.stored = @ \cup new,
            !.doubled = @ \cup {s \in spent : Exposed(s)} \cup (new \cap history.stored)]
  BY Zenon DEF Done, Brought
<1>4. spent \subseteq A /\ A \subseteq Nat /\ new \subseteq Nat
  <2>1. Held(mem.entry) \subseteq Nat
    <3>1. \A e \in Entries(N) \cup {NoEntry} : Held(e) \subseteq Surbs(N)
      BY Zenon, <1>1, HeldOf DEF Held
    <3>2. mem.entry \in Entries(N) \cup {NoEntry}
      BY Zenon DEF TypeInv, MemType
    <3> QED
      BY <3>1, <3>2 DEF Surbs
  <2>2. new \subseteq Nat
    <3>1. \A msg \in msgs : msg.surbs \in Seq(Surbs(N))
      BY Zenon DEF TypeInv, Messages
    <3>2. \A msg \in msgs : Range(msg.surbs) \subseteq Surbs(N)
      BY Zenon, <3>1, ElementsOf
    <3> QED
      BY <3>2 DEF Brought, Surbs
  <2>3. spent \subseteq A
    BY Zenon, <1>1 DEF Sound
  <2> QED
    BY Zenon, <2>1, <2>2, <2>3
<1> HIDE DEF N, new, A, D, spent
<1>5. history \in Histories
  BY Zenon DEF TypeInv
<1>6. /\ history' \in Histories
      /\ history'.spent = history.spent \cup spent /\ history'.stored = history.stored \cup new
      /\ history'.doubled = history.doubled \cup {s \in spent : Exposed(s)}
                               \cup (new \cap history.stored)
      /\ history'.purged = history.purged
  BY ZenonT(30), <1>3, <1>4, <1>5 DEF Histories
<1>7. /\ mem'.entry = m.entry /\ mem'.out = {} /\ mem'.failures = 0 /\ MemType(mem', N)
  BY ZenonT(30), <1>1, <1>3 DEF MemType
<1>8. TypeInv'
  <2>1. net' \subseteq SentPackets(N) /\ peer'.next = N /\ N = peer.next
    BY Zenon, <1>2, <1>3 DEF TypeInv, N
  <2>2. ctl' \in {"on", "last", "gone"} /\ (phase = "down" => ctl' = "gone")
        /\ (phase \in {"loaded", "session"} => ctl' = "on")
    BY Zenon, <1>3 DEF TypeInv
  <2> QED
    BY Zenon, <1>6, <1>7, <2>1, <2>2 DEF TypeInv
<1>9. D \subseteq history'.doubled /\ history.doubled \subseteq history'.doubled /\ D = history.doubled \cup (new \cap history.stored)
  BY Zenon, <1>6 DEF D, Doubled, new
<1>10. A = Held(mem.entry) \cup new
  BY Zenon DEF A, new
<1>11. /\ Held(mem.entry) \subseteq history.stored /\ Held(mem.entry) \cap history.spent \subseteq history.doubled
       /\ Held(mem.entry) \subseteq Readable /\ history.spent \subseteq history.stored
       /\ new \subseteq Keyed(peer) \cup history.purged \cup history.stored
  <2>1. new \subseteq Keyed(peer) \cup history.purged \cup history.stored
    BY Zenon DEF SurbInv, NetInv, new, Brought
  <2> QED
    BY Zenon, <2>1 DEF SurbInv, MemInv, NetInv, Sound
<1>12. Readable \subseteq Readable' /\ A \subseteq Readable'
  BY Zenon, <1>6, <1>9, <1>10, <1>11 DEF Readable
<1>13. A \subseteq history'.stored /\ A \cap history.spent \subseteq history'.doubled
  BY Zenon, <1>6, <1>9, <1>10, <1>11
<1>14. MemInv'
  <2>1. /\ Held(m.entry) \subseteq A /\ Once(m.entry, D) /\ Held(m.entry) \cap spent \subseteq D
    BY Zenon, <1>1 DEF Sound, spent
  <2>2. Once(m.entry, history'.doubled)
    BY Zenon, <1>9, <2>1 DEF Once
  <2>3. Sound(mem', history'.stored, history'.doubled)
    BY Zenon, <1>7, <1>13, <2>1, <2>2 DEF Sound
  <2>4. Held(mem'.entry) \cap history'.spent \subseteq history'.doubled
    BY Zenon, <1>6, <1>7, <1>9, <1>13, <2>1
  <2>5. Held(mem'.entry) \subseteq Readable'
    BY Zenon, <1>7, <1>12, <2>1
  <2> QED
    BY Zenon, <2>3, <2>4, <2>5 DEF MemInv
<1>15. NetInv'
  <2>1. history'.spent \subseteq history'.stored
    BY ZenonT(30), <1>4, <1>6, <1>11, <1>13
  <2>2. \A p \in m.out : p.surb \in spent
    BY Zenon DEF spent
  <2>3. \A p \in net' : p.surb \in history'.spent /\ p.surb \in Readable'
    BY Zenon, <1>3, <1>4, <1>6, <1>12, <2>2 DEF SurbInv, NetInv
  <2>4. ASSUME NEW p \in net', NEW q \in net', p # q, p.surb = q.surb
        PROVE  p.surb \in history'.doubled
    <3>1. p \in m.out /\ q \in m.out => p.surb \in D
      BY Zenon, <1>1, <2>4 DEF Sound
    <3>2. p \in net /\ q \in net => p.surb \in history.doubled
      BY Zenon, <2>4 DEF SurbInv, NetInv
    <3>3. (p \in net /\ q \in m.out) \/ (p \in m.out /\ q \in net)
            => p.surb \in A \cap history.spent
      BY ZenonT(30), <1>4, <2>2, <2>4 DEF SurbInv, NetInv
    <3> QED
      BY <1>3, <1>9, <1>13, <3>1, <3>2, <3>3
  <2>5. \A msg \in inbox' :
          /\ \A i, j \in DOMAIN msg.surbs : i # j => msg.surbs[i] # msg.surbs[j]
          /\ Range(msg.surbs) \subseteq Keyed(peer') \cup history'.purged \cup history'.stored
    BY Zenon, <1>6 DEF SurbInv, NetInv
  <2> QED
    BY Zenon, <2>1, <2>3, <2>4, <2>5 DEF NetInv
<1>16. DbInv'
  <2>1. Held(db'.entry) \subseteq history'.stored /\ Once(db'.entry, history'.doubled)
    BY Zenon, <1>6, <1>9 DEF SurbInv, DbInv, Once
  <2>2. ASSUME phase \notin {"session", "shutdown"}, DbSafe PROVE DbSafe'
    <3>1. ASSUME NEW s \in Held(db.entry), s \in spent PROVE s \in history'.doubled
      <4>1. Exposed(s)
        BY Zenon, <2>2, <3>1 DEF Exposed, Held
      <4> QED
        BY Zenon, <1>6, <3>1, <4>1
    <3> QED
      BY Zenon, <1>6, <1>9, <1>12, <2>2, <3>1 DEF DbSafe
  <2>3. phase' = phase /\ db' = db
    BY Zenon
  <2> QED
    BY Zenon, <2>1, <2>2, <2>3 DEF SurbInv, DbInv
<1> QED
  BY Zenon, <1>8, <1>14, <1>15, <1>16 DEF SurbInv

\* The memory a handler starts from.
LEMMA KeptMem ==
    ASSUME TypeInv, SurbInv, NEW msgs
    PROVE  Kept(mem, msgs)
<1>1. /\ Sound(mem, history.stored, history.doubled) /\ mem.out = {} /\ MemType(mem, peer.next)
  BY Zenon DEF SurbInv, MemInv, TypeInv
<1>2. Once(mem.entry, Doubled(msgs))
  BY Zenon, <1>1 DEF Sound, Once, Doubled
<1> QED
  BY Zenon, <1>1, <1>2 DEF Kept, Good, Sound

\* A handler that needs no SURBs of a message, and may have failed to send.
LEMMA QuietDone ==
    ASSUME TypeInv, SurbInv, NEW m, Kept(m, {}), Done(m, {}), todo' \subseteq Reply,
           UNCHANGED <<env, phase, db, inbox, peer>>,
           budget' = Failed(m) \/ UNCHANGED budget
    PROVE  TypeInv' /\ SurbInv'
<1>1. m.failures \in Nat /\ m.failures <= budget.topology /\ budget \in Budgets
  BY Zenon DEF Kept, Good, MemType, Done, TypeInv
<1>2. budget' \in Budgets
  BY Zenon, <1>1, FailedType
<1> QED
  BY Zenon, <1>2, DoneStep

-----------------------------------------------------------------------------
(* The handlers of the ReplyController.                                    *)

\* handle_send_reply.
LEMMA SendReplyStep ==
    ASSUME TypeInv, SurbInv, NEW S \in SUBSET todo, HandleSendReply(S)
    PROVE  TypeInv' /\ SurbInv'
<1>1. todo' \subseteq Reply /\ UNCHANGED <<env, phase, db, inbox, peer>>
  BY Zenon DEF HandleSendReply, TypeInv
<1>2. CASE mem.entry = NoEntry
  <2>1. Done(mem, {}) /\ UNCHANGED budget
    BY Zenon, <1>2 DEF HandleSendReply
  <2> QED
    BY Zenon, <1>1, <2>1, KeptMem, QuietDone
<1>3. CASE mem.entry # NoEntry
  <2> DEFINE frags == DataOf(Listed(S))
             n == MinOf(Len(frags), Spendable(mem.entry))
             sent(ok) == SendFirst([mem EXCEPT !.replies = frags], n, ok)
             queued(ok) == [sent(ok) EXCEPT !.replies = mem.replies \o (IF ok THEN @ ELSE frags)]
             A == Held(mem.entry) \cup Brought({})
             D == Doubled({})
             N == peer.next
  <2>1. PICK ok \in BOOLEAN, ok2 \in BOOLEAN :
            /\ Done(RequestIfNeeded(queued(ok), ok2), {})
            /\ budget' = Failed(RequestIfNeeded(queued(ok), ok2))
    BY ZenonT(30), <1>3 DEF HandleSendReply, Topology
  <2>2. frags \in Seq(DataFragment) /\ Len(frags) \in Nat
    <3>1. S \subseteq Reply /\ IsFiniteSet(S)
      BY ZenonT(30), ConfigAssumption, FS_Subset DEF TypeInv
    <3>2. Listed(S) \in Seq(S)
      BY Zenon, <3>1, ListedType
    <3> DEFINE ids == Listed(S)
    <3> HIDE DEF ids
    <3>3. ids \in Seq(S)
      BY Zenon, <3>2 DEF ids
    <3>4. DOMAIN ids = 1..Len(ids) /\ Len(ids) \in Nat /\ \A i \in 1..Len(ids) : ids[i] \in S
      BY <3>3
    <3>5. DataOf(ids) \in [1..Len(ids) -> DataFragment]
      BY Zenon, <3>1, <3>4 DEF DataOf, DataFragment
    <3>6. DataOf(ids) \in Seq(DataFragment)
      BY Zenon, <3>4, <3>5, FunctionIsSeq
    <3> QED
      BY <3>6 DEF ids
  <2>3. N \in Nat \ {0} /\ Good(mem, N, A, D) /\ mem.replies \in Seq(DataFragment)
        /\ mem.entry \in Entries(N) \cup {NoEntry}
    BY Zenon, KeptMem DEF Kept, TypeInv, PeerType, MemType
  <2> HIDE DEF frags, A, D, N
  <2>4. /\ Good([mem EXCEPT !.replies = frags], N, A, D)
        /\ [mem EXCEPT !.replies = frags].replies = frags
        /\ [mem EXCEPT !.replies = frags].entry = mem.entry
    BY <2>2, <2>3, GoodReplies
  <2>5. n \in 0..Len(frags) /\ n <= AvailableSurbs(mem.entry)
    <3>1. /\ Spendable(mem.entry) \in Nat /\ AvailableSurbs(mem.entry) \in Nat
          /\ Spendable(mem.entry) <= AvailableSurbs(mem.entry)
      BY Zenon, <2>3, SpendableBound
    <3> QED
      BY <2>2, <3>1 DEF MinOf
  <2> HIDE DEF n
  <2>6. Good(sent(ok), N, A, D)
    <3> DEFINE m0 == [mem EXCEPT !.replies = frags]
    <3>1. Good(m0, N, A, D) /\ n \in 0..Len(m0.replies) /\ n <= AvailableSurbs(m0.entry)
      BY Zenon, <2>4, <2>5
    <3> HIDE DEF m0
    <3>2. Good(SendFirst(m0, n, ok), N, A, D)
      BY Zenon, <2>3, <3>1, SendFirstGood
    <3> QED
      BY Zenon, <3>2 DEF m0
  <2>7. Good(queued(ok), N, A, D)
    <3> DEFINE sm == sent(ok)
               q == mem.replies \o (IF ok THEN sm.replies ELSE frags)
    <3>1. Good(sm, N, A, D) /\ queued(ok) = [sm EXCEPT !.replies = q]
      BY Zenon, <2>6
    <3> HIDE DEF sm
    <3>2. sm.replies \in Seq(DataFragment)
      BY Zenon, <3>1 DEF Good, MemType
    <3>3. q \in Seq(DataFragment)
      BY <2>2, <2>3, <3>2
    <3> HIDE DEF q
    <3>4. Good([sm EXCEPT !.replies = q], N, A, D)
      BY ZenonT(30), <2>3, <3>1, <3>3, GoodReplies
    <3> HIDE DEF queued
    <3> QED
      BY Zenon, <3>1, <3>4
  <2> HIDE DEF queued
  <2>8. Good(RequestIfNeeded(queued(ok), ok2), N, A, D)
    BY Zenon, <2>3, <2>7, RequestIfNeededGood
  <2>9. Kept(RequestIfNeeded(queued(ok), ok2), {})
    BY Zenon, <2>8 DEF Kept, A, D, N
  <2> QED
    BY Zenon, <1>1, <2>1, <2>9, QuietDone
<1> QED
  BY Zenon, <1>2, <1>3

\* handle_received_surbs stores the SURBs of a message it has not had before.
LEMMA StoredKept ==
    ASSUME TypeInv, SurbInv, NEW msg \in inbox
    PROVE  LET entry == IF msg.requested
                        THEN DecrementPendingReception(mem.entry, Len(msg.surbs))
                        ELSE mem.entry
           IN  Kept([mem EXCEPT !.entry = InsertSurbs(entry, msg.surbs),
                                !.reconstructed = @ \cup {msg}], {msg})
<1> DEFINE N == peer.next
           x == msg.surbs
           e == IF msg.requested THEN DecrementPendingReception(mem.entry, Len(x)) ELSE mem.entry
           new == InsertSurbs(e, x)
           m == [mem EXCEPT !.entry = new, !.reconstructed = @ \cup {msg}]
           D == Doubled({msg})
<1>1. /\ N \in Nat \ {0} /\ msg \in Messages(N) /\ x \in Seq(Surbs(N))
      /\ mem.entry \in Entries(N) \cup {NoEntry} /\ MemType(mem, N) /\ mem.out = {}
  BY Zenon DEF TypeInv, PeerType, Messages, MemType
<1>2. Len(x) \in Nat /\ DOMAIN x = 1..Len(x) /\ Range(x) = {x[i] : i \in 1..Len(x)}
  BY <1>1, ElementsOf
<1>3. /\ Held(mem.entry) \subseteq history.stored /\ Once(mem.entry, history.doubled)
  BY Zenon DEF SurbInv, MemInv, Sound
<1>4. \A i, j \in 1..Len(x) : i # j => x[i] # x[j]
  BY Zenon, <1>2 DEF SurbInv, NetInv
<1>5. Brought({msg}) = Range(x) /\ D = history.doubled \cup (Range(x) \cap history.stored)
  BY Zenon DEF Brought, Doubled
<1> HIDE DEF N, x, D
<1>6. /\ e \in Entries(N) \cup {NoEntry} /\ Held(e) = Held(mem.entry)
      /\ Once(e, history.doubled)
  BY <1>1, <1>2, <1>3, EntryCounts
<1> HIDE DEF e
<1>7. /\ new \in Entries(N) /\ (e # NoEntry => new.data = e.data \o x)
      /\ (e = NoEntry => new.data = x)
  BY <1>1, <1>6, InsertType
<1> HIDE DEF new
<1>8. /\ new # NoEntry /\ DOMAIN new.data = 1..Len(new.data)
      /\ Held(new) = {new.data[i] : i \in 1..Len(new.data)}
  BY Zenon, <1>1, <1>7, HeldOf
<1>9. Once(new, D) /\ Held(new) \subseteq Held(e) \cup Range(x)
  <2>1. CASE e = NoEntry
    BY Zenon, <1>2, <1>4, <1>7, <1>8, <2>1 DEF Once
  <2>2. ASSUME e # NoEntry PROVE Once(new, D) /\ Held(new) \subseteq Held(e) \cup Range(x)
    <3> DEFINE d == e.data
    <3>1. /\ d \in Seq(Surbs(N)) /\ Len(d) \in Nat /\ DOMAIN d = 1..Len(d)
          /\ Held(e) = {d[i] : i \in 1..Len(d)}
      BY Zenon, <1>1, <1>6, <2>2, HeldOf
    <3>2. \A i, j \in 1..Len(d) : i # j /\ d[i] = d[j] => d[i] \in history.doubled
      BY Zenon, <1>6, <2>2, <3>1 DEF Once
    <3> HIDE DEF d
    <3>3. /\ Len(d \o x) = Len(d) + Len(x)
          /\ \A i \in 1..(Len(d) + Len(x)) :
                (d \o x)[i] = IF i <= Len(d) THEN d[i] ELSE x[i - Len(d)]
      BY <1>1, <3>1
    <3>4. new.data = d \o x
      BY Zenon, <1>7, <2>2 DEF d
    <3>5. ASSUME NEW i \in 1..(Len(d) + Len(x))
          PROVE  \/ i \in 1..Len(d) /\ new.data[i] = d[i] /\ d[i] \in Held(e)
                 \/ /\ i - Len(d) \in 1..Len(x) /\ new.data[i] = x[i - Len(d)]
                    /\ x[i - Len(d)] \in Range(x)
      <4>1. CASE i <= Len(d)
        <5>1. i \in 1..Len(d)
          BY <3>1, <4>1
        <5> QED
          BY Zenon, <3>1, <3>3, <3>4, <4>1, <5>1
      <4>2. CASE ~(i <= Len(d))
        <5>1. i - Len(d) \in 1..Len(x)
          BY <1>2, <3>1, <4>2
        <5> QED
          BY Zenon, <1>2, <3>3, <3>4, <4>2, <5>1
      <4> QED
        BY Zenon, <4>1, <4>2
    <3>6. DOMAIN new.data = 1..(Len(d) + Len(x))
      BY Zenon, <1>8, <3>3, <3>4
    <3>7. Held(new) \subseteq Held(e) \cup Range(x)
      BY Zenon, <1>8, <3>3, <3>4, <3>5
    <3>8. ASSUME NEW i \in 1..(Len(d) + Len(x)), NEW j \in 1..(Len(d) + Len(x)), i # j,
                 new.data[i] = new.data[j]
          PROVE  new.data[i] \in D
      <4>1. i - Len(d) # j - Len(d)
        BY <1>2, <3>1, <3>8
      <4>2. new.data[i] \in Held(e) /\ new.data[i] \in Range(x) => new.data[i] \in D
        BY Zenon, <1>3, <1>5, <1>6
      <4>3. i \in 1..Len(d) /\ new.data[i] = d[i] /\ j \in 1..Len(d) /\ new.data[j] = d[j]
              => new.data[i] \in D
        BY ZenonT(30), <1>5, <3>2, <3>8
      <4>4. ~(/\ i - Len(d) \in 1..Len(x) /\ new.data[i] = x[i - Len(d)]
              /\ j - Len(d) \in 1..Len(x) /\ new.data[j] = x[j - Len(d)])
        BY Zenon, <1>4, <3>8, <4>1
      <4> QED
        BY Zenon, <3>5, <3>8, <4>2, <4>3, <4>4
    <3> QED
      BY Zenon, <3>6, <3>7, <3>8 DEF Once
  <2> QED
    BY Zenon, <2>1, <2>2
<1>10. MemType(m, N) /\ m.entry = new /\ m.out = {}
  BY ZenonT(30), <1>1, <1>7 DEF MemType
<1> HIDE DEF m
<1>11. Sound(m, Held(mem.entry) \cup Brought({msg}), D)
  BY Zenon, <1>5, <1>6, <1>9, <1>10 DEF Sound
<1>12. Kept(m, {msg})
  BY Zenon, <1>10, <1>11 DEF Kept, Good, N, D
<1> QED
  BY Zenon, <1>12 DEF m, new, e, x

\* handle_received_surbs, and the queues it clears.
LEMMA ReceivedStep ==
    ASSUME TypeInv, SurbInv, NEW msg \in inbox, NEW again \in BOOLEAN,
           HandleReceivedSurbs(msg, again)
    PROVE  TypeInv' /\ SurbInv'
<1> DEFINE entry == IF msg.requested THEN DecrementPendingReception(mem.entry, Len(msg.surbs))
                    ELSE mem.entry
           stored == [mem EXCEPT !.entry = InsertSurbs(entry, msg.surbs),
                                 !.reconstructed = @ \cup {msg}]
           handled(ok, ok2, ok3) ==
               RequestIfNeeded(TryClearPendingQueue(
                   TryClearPendingRetransmission(stored, ok), ok2), ok3)
           msgs == {msg} \ mem.reconstructed
<1>a. PICK x \in {entry}, ok \in Topology, ok2 \in Topology, ok3 \in Topology :
        \E after \in {[mem EXCEPT !.entry = InsertSurbs(x, msg.surbs),
                                  !.reconstructed = @ \cup {msg}]} :
        \E cleared \in {TryClearPendingRetransmission(after, ok)} :
        \E emptied \in {TryClearPendingQueue(cleared, ok2)} :
        \E m \in {IF msg \in mem.reconstructed THEN mem
                  ELSE RequestIfNeeded(emptied, ok3)} :
          /\ Done(m, msgs)
          /\ budget' = [Failed(m) EXCEPT !.losses = IF again THEN @ - 1 ELSE @]
  BY ZenonT(30) DEF HandleReceivedSurbs
<1> HIDE DEF msgs
<1>b. PICK m \in {IF msg \in mem.reconstructed THEN mem ELSE handled(ok, ok2, ok3)} :
        /\ Done(m, msgs)
        /\ budget' = [Failed(m) EXCEPT !.losses = IF again THEN @ - 1 ELSE @]
  BY ZenonT(30), <1>a
<1>1. ok \in BOOLEAN /\ ok2 \in BOOLEAN /\ ok3 \in BOOLEAN
  BY Zenon DEF Topology
<1>2. /\ again => budget.losses > 0
      /\ inbox' \subseteq inbox /\ UNCHANGED <<env, phase, db, todo, peer>>
  BY Zenon DEF HandleReceivedSurbs
<1>3. Kept(stored, {msg})
  BY ZenonT(30), StoredKept
<1> HIDE DEF stored
<1>4. peer.next \in Nat \ {0}
  BY ZenonT(30) DEF TypeInv, PeerType
<1>5. Kept(handled(ok, ok2, ok3), {msg})
  <2>1. Kept(TryClearPendingRetransmission(stored, ok), {msg})
    BY Zenon, <1>1, <1>3, <1>4, ClearRetransmissionsGood DEF Kept
  <2>2. Kept(TryClearPendingQueue(TryClearPendingRetransmission(stored, ok), ok2), {msg})
    BY Zenon, <1>1, <1>4, <2>1, ClearQueueGood DEF Kept
  <2> QED
    BY Zenon, <1>1, <1>4, <2>2, RequestIfNeededGood DEF Kept
<1> HIDE DEF handled
<1>6. Kept(m, msgs)
  <2>1. CASE msg \in mem.reconstructed
    BY Zenon, <1>b, <2>1, KeptMem DEF msgs
  <2>2. CASE msg \notin mem.reconstructed
    <3>1. msgs = {msg} /\ m = handled(ok, ok2, ok3)
      BY Zenon, <1>b, <2>2 DEF msgs
    <3> QED
      BY Zenon, <1>5, <3>1
  <2> QED
    BY Zenon, <2>1, <2>2
<1>7. Done(m, msgs) /\ budget' = [Failed(m) EXCEPT !.losses = IF again THEN @ - 1 ELSE @]
  BY ZenonT(30), <1>b
<1>8. m.failures \in Nat /\ m.failures <= budget.topology /\ budget \in Budgets
  BY Zenon, <1>6, <1>7 DEF Kept, Good, MemType, Done, TypeInv
<1>9. Failed(m) \in Budgets /\ Failed(m).losses = budget.losses
  BY Zenon, <1>8, FailedType
<1>10. budget' \in Budgets
  <2>1. PICK k \in Nat : k = IF again THEN budget.losses - 1 ELSE budget.losses
    BY <1>2, <1>8 DEF Budgets
  <2>2. budget' = [Failed(m) EXCEPT !.losses = k]
    BY Zenon, <1>7, <1>9, <2>1
  <2> QED
    BY Zenon, <1>9, <2>2 DEF Budgets
<1>11. todo' \subseteq Reply /\ msgs \in SUBSET inbox
  BY <1>2, ZenonT(30) DEF TypeInv, msgs
<1> QED
  BY <1>2, <1>6, <1>7, <1>10, <1>11, DoneStep

\* handle_reply_retransmission.
LEMMA RetransmissionStep ==
    ASSUME TypeInv, SurbInv, NEW f \in mem.unacked, HandleReplyRetransmission(f)
    PROVE  TypeInv' /\ SurbInv'
<1> DEFINE finds == FindsSurb(mem.entry, f.type = "request")
           sent(ok) == IF finds THEN Spend(mem, <<f>>, ok) ELSE mem
           queued(ok) == [sent(ok) EXCEPT !.retransmissions = @ \cup {f}]
           A == Held(mem.entry) \cup Brought({})
           D == Doubled({})
           N == peer.next
<1>1. PICK ok \in BOOLEAN, ok2 \in BOOLEAN :
        LET m == IF finds /\ ok THEN sent(ok) ELSE RequestIfNeeded(queued(ok), ok2) IN
        Done(m, {}) /\ budget' = Failed(m)
  <2>1. PICK b \in {finds}, ok \in Topology, ok2 \in Topology :
          \E s \in {IF b THEN Spend(mem, <<f>>, ok) ELSE mem} :
          \E q \in {[s EXCEPT !.retransmissions = @ \cup {f}]} :
          \E m \in {IF b /\ ok THEN s ELSE RequestIfNeeded(q, ok2)} :
            Done(m, {}) /\ budget' = Failed(m)
    BY ZenonT(30) DEF HandleReplyRetransmission
  <2>2. b = finds /\ ok \in BOOLEAN /\ ok2 \in BOOLEAN
    BY ZenonT(30) DEF Topology
  <2> HIDE DEF finds
  <2>3. LET m == IF finds /\ ok THEN sent(ok) ELSE RequestIfNeeded(queued(ok), ok2) IN
        Done(m, {}) /\ budget' = Failed(m)
    BY Zenon, <2>1, <2>2
  <2> QED
    BY ZenonT(30), <2>2, <2>3
<1>2. mem.entry # NoEntry /\ UNCHANGED <<env, phase, db, todo, inbox, peer>>
  BY ZenonT(30) DEF HandleReplyRetransmission
<1>3. /\ N \in Nat \ {0} /\ Good(mem, N, A, D) /\ f \in Fragments(N)
      /\ mem.entry \in Entries(N)
  BY Zenon, <1>2, KeptMem DEF Kept, TypeInv, PeerType, MemType
<1> HIDE DEF A, D, N
<1>4. Good(sent(ok), N, A, D)
  <2>1. CASE finds
    <3>1. AvailableSurbs(mem.entry) > 0
      BY Zenon, <2>1 DEF FindsSurb
    <3>2. <<f>> \in Seq(Fragments(N)) /\ Len(<<f>>) = 1
      BY <1>3
    <3>3. Len(<<f>>) <= Len(mem.entry.data)
      <4>1. Len(mem.entry.data) \in Nat /\ AvailableSurbs(mem.entry) = Len(mem.entry.data)
        BY Zenon, <1>3, <3>1, SpendableBound, HeldOf
      <4> QED
        BY <3>1, <3>2, <4>1
    <3> DEFINE frags == <<f>>
    <3>4. frags \in Seq(Fragments(N)) /\ Len(frags) <= Len(mem.entry.data)
      BY Zenon, <3>2, <3>3
    <3> HIDE DEF frags
    <3>5. Good(Spend(mem, frags, ok), N, A, D)
      BY Zenon, <1>2, <1>3, <3>4, SpendGood
    <3> QED
      BY Zenon, <2>1, <3>5 DEF frags
  <2>2. CASE ~finds
    BY Zenon, <1>3, <2>2
  <2> QED
    BY Zenon, <2>1, <2>2
<1> HIDE DEF sent
<1>5. Good(queued(ok), N, A, D)
  <2> DEFINE sm == sent(ok)
             R == sm.retransmissions \cup {f}
  <2>1. Good(sm, N, A, D)
    BY Zenon, <1>4
  <2>2. queued(ok) = [sm EXCEPT !.retransmissions = R]
    BY Zenon
  <2> HIDE DEF sm, queued
  <2>3. IsFiniteSet(sm.retransmissions) /\ sm.retransmissions \subseteq Fragments(N)
    BY Zenon, <2>1 DEF Good, MemType
  <2>4. IsFiniteSet(R) /\ R \in SUBSET Fragments(N)
    BY Zenon, <1>3, <2>3, FS_AddElement
  <2> HIDE DEF R
  <2> QED
    BY <1>3, <2>1, <2>2, <2>4, GoodRetransmissions
<1> HIDE DEF queued
<1>6. Good(RequestIfNeeded(queued(ok), ok2), N, A, D)
  BY Zenon, <1>3, <1>5, RequestIfNeededGood
<1> DEFINE m == IF finds /\ ok THEN sent(ok) ELSE RequestIfNeeded(queued(ok), ok2)
<1>7. Done(m, {}) /\ budget' = Failed(m)
  BY Zenon, <1>1
<1>8. Kept(m, {})
  <2>1. Good(m, N, A, D)
    BY Zenon, <1>4, <1>6
  <2> HIDE DEF m
  <2> QED
    BY Zenon, <2>1 DEF Kept, A, D, N
<1> HIDE DEF m
<1>9. todo' \subseteq Reply
  BY Zenon, <1>2 DEF TypeInv
<1> QED
  BY Zenon, <1>2, <1>7, <1>8, <1>9, QuietDone

\* inspect_stale_entries.
LEMMA InspectStep ==
    ASSUME TypeInv, SurbInv, InspectStaleEntries
    PROVE  TypeInv' /\ SurbInv'
<1> DEFINE A == Held(mem.entry) \cup Brought({})
           D == Doubled({})
           N == peer.next
           asked(ok) == RequestReplySurbsForQueueClearing(mem, ok)
           reset(ok) == [asked(ok) EXCEPT !.entry = ResetPendingReception(@)]
           dropped == [mem EXCEPT !.replies = << >>]
<1>1. \/ Done(dropped, {}) /\ UNCHANGED budget
      \/ \E ok \in BOOLEAN : Done(reset(ok), {}) /\ budget' = Failed(reset(ok))
  BY ZenonT(30) DEF InspectStaleEntries, Topology
<1>2. UNCHANGED <<env, phase, db, todo, inbox, peer>> /\ todo' \subseteq Reply
  BY ZenonT(30) DEF InspectStaleEntries, TypeInv
<1>3. N \in Nat \ {0} /\ Good(mem, N, A, D)
  BY Zenon, KeptMem DEF Kept, TypeInv, PeerType
<1> HIDE DEF A, D, N
<1>4. CASE Done(dropped, {}) /\ UNCHANGED budget
  <2>1. << >> \in Seq(DataFragment)
    OBVIOUS
  <2>2. Good(dropped, N, A, D)
    BY ZenonT(30), <1>3, <2>1, GoodReplies
  <2> HIDE DEF dropped
  <2>3. Kept(dropped, {})
    BY Zenon, <2>2 DEF Kept, A, D, N
  <2> QED
    BY Zenon, <1>2, <1>4, <2>3, QuietDone
<1>5. ASSUME NEW ok \in BOOLEAN, Done(reset(ok), {}), budget' = Failed(reset(ok))
      PROVE  TypeInv' /\ SurbInv'
  <2> DEFINE am == asked(ok)
             e == ResetPendingReception(am.entry)
  <2>1. Good(am, N, A, D)
    BY Zenon, <1>3, RequestGood
  <2>2. reset(ok) = [am EXCEPT !.entry = e]
    BY Zenon
  <2> HIDE DEF am, reset
  <2>3. am.entry \in Entries(N) \cup {NoEntry} /\ am = [am EXCEPT !.entry = am.entry]
    BY Zenon, <2>1 DEF Good, MemType
  <2>4. /\ am.entry = NoEntry => e = am.entry
        /\ am.entry # NoEntry => e \in Entries(N) /\ e.data = am.entry.data
    BY Zenon, <1>3, <2>3, EntryCounts
  <2> HIDE DEF e
  <2>5. Good(reset(ok), N, A, D)
    BY <1>3, <2>1, <2>2, <2>3, <2>4, GoodEntry
  <2>6. Kept(reset(ok), {})
    BY Zenon, <2>5 DEF Kept, A, D, N
  <2> QED
    BY Zenon, <1>2, <1>5, <2>6, QuietDone
<1> QED
  BY ZenonT(30), <1>1, <1>4, <1>5

\* invalidate_old_data forgets the SURBs.
LEMMA InvalidateStep ==
    ASSUME TypeInv, SurbInv, InvalidateOldData
    PROVE  TypeInv' /\ SurbInv'
<1> DEFINE m == [mem EXCEPT !.entry = NoEntry]
<1>1. /\ Done(m, {}) /\ UNCHANGED <<env, budget, phase, db, todo, inbox, peer>>
      /\ todo' \subseteq Reply
  BY Zenon DEF InvalidateOldData, TypeInv
<1>2. MemType(m, peer.next) /\ m.out = {} /\ m.entry = NoEntry
  BY Zenon DEF TypeInv, MemType
<1> HIDE DEF m
<1>3. Kept(m, {})
  BY Zenon, <1>2 DEF Kept, Good, Sound, Held, Once
<1> QED
  BY Zenon, <1>1, <1>3, QuietDone

-----------------------------------------------------------------------------
(* The process and its storage task.                                       *)

\* A client that starts has what its file gave it.
LEMMA BootedType ==
    ASSUME NEW N \in Nat \ {0}, NEW e \in Entries(N) \cup {NoEntry}
    PROVE  /\ MemType(Booted(e), N) /\ Booted(e).entry = e
           /\ Booted(e).out = {} /\ Booted(e).failures = 0
<1>1. << >> \in Seq(DataFragment) /\ IsFiniteSet({})
  BY FS_EmptySet
<1> QED
  BY Zenon, <1>1 DEF Booted, MemType

\* setup_fs_reply_surb_backend: the SURBs of a file are kept if its client had
\* stopped using it, and then they are safe.
LEMMA StartStep ==
    ASSUME TypeInv, SurbInv, Start
    PROVE  TypeInv' /\ SurbInv'
<1> DEFINE N == peer.next
<1>1. /\ phase = "down" /\ phase' = "loaded" /\ ctl' = "on" /\ mem' = Booted(db'.entry)
      /\ UNCHANGED <<env, budget, todo, net, inbox, peer, history>>
  BY ZenonT(30) DEF Start, Load
<1>2. N \in Nat \ {0} /\ db \in Files(N)
  BY Zenon DEF TypeInv, PeerType
<1>3. db' \in Files(N) /\ (db'.entry = NoEntry \/ (db' = db /\ ~db.clientInUse))
  <2>1. FreshDb \in Files(N) /\ FreshDb.entry = NoEntry
    <3>1. 0 \in Idles
      BY DEF Idles
    <3> QED
      BY Zenon, <3>1 DEF FreshDb, Files
  <2>2. [db EXCEPT !.entry = NoEntry] \in Files(N) /\ [db EXCEPT !.entry = NoEntry].entry = NoEntry
    BY Zenon, <1>2 DEF Files
  <2>3. \/ db' = FreshDb
        \/ db' = db /\ ~db.clientInUse
        \/ db' = [db EXCEPT !.entry = NoEntry]
    BY Zenon DEF Start, Load, Trusts
  <2> QED
    BY ZenonT(30), <1>2, <2>1, <2>2, <2>3
<1>4. db'.entry \in Entries(N) \cup {NoEntry}
  BY Zenon, <1>3 DEF Files
<1>5. MemType(mem', N) /\ mem'.entry = db'.entry /\ mem'.out = {} /\ mem'.failures = 0
  BY Zenon, <1>1, <1>2, <1>4, BootedType
<1>6. TypeInv'
  BY Zenon, <1>1, <1>3, <1>5 DEF TypeInv, Phases
<1>7. /\ Held(db'.entry) \subseteq history.stored /\ Once(db'.entry, history.doubled)
      /\ Held(db'.entry) \cap history.spent \subseteq history.doubled
      /\ Held(db'.entry) \subseteq Readable
  BY Zenon, <1>3 DEF SurbInv, DbInv, DbSafe, Held, Once
<1>8. MemInv'
  BY Zenon, <1>1, <1>5, <1>7 DEF MemInv, Sound, Readable
<1>9. NetInv'
  BY Zenon, <1>1 DEF SurbInv, NetInv, Readable
<1>10. DbInv'
  BY Zenon, <1>1, <1>7 DEF DbInv, DbSafe, Readable
<1> QED
  BY Zenon, <1>6, <1>8, <1>9, <1>10 DEF SurbInv

\* A write that fails uses up that fault.
LEMMA DatabaseFault ==
    ASSUME budget \in Budgets, budget.database > 0
    PROVE  [budget EXCEPT !.database = @ - 1] \in Budgets
<1>1. PICK k \in Nat : k = budget.database - 1
  BY DEF Budgets
<1>2. [budget EXCEPT !.database = k] \in Budgets
  BY Zenon DEF Budgets
<1> QED
  BY Zenon, <1>1, <1>2

\* flush_on_shutdown: the file is marked as in use from the start of the session to
\* the end of the flush, and is written while its SURBs are in memory.
LEMMA StorageStep ==
    ASSUME TypeInv, SurbInv, StorageTask
    PROVE  TypeInv' /\ SurbInv'
<1> DEFINE N == peer.next
<1>1. UNCHANGED <<todo, ctl, mem, net, inbox, peer, history>>
  BY ZenonT(30) DEF StorageTask, controllerVars
<1>2. /\ N \in Nat \ {0} /\ db \in Files(N) /\ mem.entry \in Entries(N) \cup {NoEntry}
      /\ budget \in Budgets /\ (phase = "loaded" => ctl = "on") /\ phase \in Phases
  BY Zenon DEF TypeInv, PeerType, MemType
<1>3. ASSUME NEW e, db' = [db EXCEPT !.entry = e], e \in Entries(N) \cup {NoEntry}
      PROVE  db' \in Files(N) /\ db'.entry = e
  BY <1>2, <1>3, ZenonT(30) DEF Files
<1>4. ASSUME db' \in Files(N), budget' \in Budgets, env' = env,
             phase' \in Phases \ {"down", "loaded"}, phase' = "session" => ctl = "on"
      PROVE  TypeInv'
  BY <1>1, <1>4, ZenonT(30) DEF TypeInv
<1>5. MemInv' /\ NetInv' /\ (db'.entry = db.entry => (DbSafe <=> DbSafe'))
  BY Zenon, <1>1 DEF SurbInv, MemInv, NetInv, Readable, DbSafe
<1>6. ASSUME db'.entry = db.entry,
             phase' \in {"session", "shutdown"} => db'.clientInUse,
             db'.clientInUse \/ DbSafe,
             phase' \in {"loaded", "nosession", "flushing", "dumped", "flushed"} => DbSafe
      PROVE  DbInv'
  BY Zenon, <1>1, <1>5, <1>6 DEF SurbInv, DbInv
<1>7. /\ phase = "loaded" => DbSafe
      /\ phase \in {"flushing", "dumped", "flushed"} => DbSafe
      /\ db.clientInUse \/ DbSafe
  BY Zenon DEF SurbInv, DbInv
<1>8. CASE StartStorageSession
  <2>1. db' \in Files(N) /\ db'.entry = db.entry /\ db'.clientInUse
    BY ZenonT(30), <1>2, <1>8 DEF StartStorageSession, Files
  <2>2. TypeInv'
    BY Zenon, <1>2, <1>4, <1>8, <2>1 DEF StartStorageSession, Phases
  <2>3. DbInv'
    BY <1>6, <1>8, <2>1 DEF StartStorageSession
  <2> QED
    BY Zenon, <1>5, <2>2, <2>3 DEF SurbInv
<1>9. CASE StartStorageSessionFails \/ FlushFails \/ StopStorageSessionFails
  <2>1. /\ db' = db /\ env' = env /\ budget' \in Budgets /\ phase' \in {"nosession", "flushed", "stopped"}
        /\ phase' \in {"nosession", "flushed"} => phase \in {"loaded", "flushing", "dumped"}
    BY Zenon, <1>2, <1>9, DatabaseFault DEF StartStorageSessionFails, FlushFails, StopStorageSessionFails
  <2>2. TypeInv'
    BY Zenon, <1>2, <1>4, <2>1 DEF Phases
  <2>3. DbInv'
    BY <1>6, <1>7, <2>1
  <2> QED
    BY Zenon, <1>5, <2>2, <2>3 DEF SurbInv
<1>10. CASE RotateAndStartFlush
  <2>1. db' \in Files(N) /\ db'.entry = NoEntry /\ db'.clientInUse
    <3>1. 0 \in Idles
      BY DEF Idles
    <3> QED
      BY ZenonT(30), <1>10, <3>1 DEF RotateAndStartFlush, FreshDb, Files
  <2>2. TypeInv'
    BY Zenon, <1>2, <1>4, <1>10, <2>1 DEF RotateAndStartFlush, Phases
  <2>3. DbInv'
    BY <1>10, <2>1 DEF RotateAndStartFlush, DbInv, DbSafe, Held, Once
  <2> QED
    BY Zenon, <1>5, <2>2, <2>3 DEF SurbInv
<1>11. CASE DumpReplySurbs(mem.entry)
  <2> DEFINE e == ResetPendingReception(mem.entry)
  <2>1. /\ e \in Entries(N) \cup {NoEntry} /\ Held(e) = Held(mem.entry)
        /\ \A D : Once(mem.entry, D) => Once(e, D)
    BY Zenon, <1>2, EntryCounts
  <2> HIDE DEF e
  <2>2. db' \in Files(N) /\ db'.entry = e
    BY Zenon, <1>3, <1>11, <2>1 DEF DumpReplySurbs, e
  <2>3. TypeInv'
    BY Zenon, <1>2, <1>4, <1>11, <2>2 DEF DumpReplySurbs, Phases
  <2>4. DbSafe'
    BY Zenon, <1>1, <2>1, <2>2 DEF SurbInv, MemInv, DbSafe, Readable
  <2>5. DbInv'
    BY <1>1, <1>11, <2>1, <2>2, <2>4 DEF DumpReplySurbs, DbInv, SurbInv, MemInv, Sound
  <2> QED
    BY Zenon, <1>5, <2>3, <2>5 DEF SurbInv
<1>12. CASE EndStorageFlush
  <2>1. db' \in Files(N) /\ db'.entry = db.entry /\ db'.clientInUse = db.clientInUse
    BY ZenonT(30), <1>2, <1>12 DEF EndStorageFlush, Files
  <2>2. TypeInv'
    BY Zenon, <1>2, <1>4, <1>12, <2>1 DEF EndStorageFlush, Phases
  <2>3. DbInv'
    BY <1>6, <1>7, <1>12, <2>1 DEF EndStorageFlush
  <2> QED
    BY Zenon, <1>5, <2>2, <2>3 DEF SurbInv
<1>13. CASE StopStorageSession
  <2>1. db' \in Files(N) /\ db'.entry = db.entry
    BY ZenonT(30), <1>2, <1>13 DEF StopStorageSession, Files
  <2>2. TypeInv'
    BY Zenon, <1>2, <1>4, <1>13, <2>1 DEF StopStorageSession, Phases
  <2>3. DbInv'
    BY Zenon, <1>6, <1>7, <1>13, <2>1 DEF StopStorageSession
  <2> QED
    BY Zenon, <1>5, <2>2, <2>3 DEF SurbInv
<1> QED
  BY <1>8, <1>9, <1>10, <1>11, <1>12, <1>13 DEF StorageTask

\* The process is asked to stop, stops, or is stopped.
LEMMA ProcessStep ==
    ASSUME TypeInv, SurbInv, Shutdown \/ Exit \/ Crash \/ UnknownRecipientPanics
    PROVE  TypeInv' /\ SurbInv'
<1> DEFINE N == peer.next
<1>1. N \in Nat \ {0} /\ budget \in Budgets
  BY Zenon DEF TypeInv, PeerType
<1>2. CASE Shutdown
  <2>1. PICK k \in Nat : k = budget.shutdowns - 1
    BY <1>1, <1>2 DEF Shutdown, Budgets
  <2>2. budget' = [budget EXCEPT !.shutdowns = k]
    BY Zenon, <1>2, <2>1 DEF Shutdown
  <2>3. budget' \in Budgets
    BY Zenon, <1>1, <2>2 DEF Budgets
  <2>4. TypeInv'
    BY Zenon, <1>2, <2>3 DEF Shutdown, TypeInv, Phases
  <2>5. SurbInv'
    BY Zenon, <1>2 DEF Shutdown, SurbInv, MemInv, NetInv, DbInv, DbSafe, Readable
  <2> QED
    BY Zenon, <2>4, <2>5
<1>3. ASSUME Ends, budget' \in Budgets PROVE TypeInv' /\ SurbInv'
  <2>1. /\ phase' = "down" /\ ctl' = "gone" /\ mem' = Booted(NoEntry)
        /\ UNCHANGED <<env, db, todo, net, inbox, peer, history>>
    BY Zenon, <1>3 DEF Ends
  <2>2. MemType(mem', N) /\ mem'.entry = NoEntry /\ mem'.out = {} /\ mem'.failures = 0
    BY Zenon, <1>1, <2>1, BootedType
  <2>3. TypeInv'
    BY Zenon, <1>3, <2>1, <2>2 DEF TypeInv, Phases
  <2>4. MemInv'
    BY Zenon, <2>2 DEF MemInv, Sound, Held, Once
  <2>5. NetInv' /\ DbInv'
    BY Zenon, <2>1 DEF SurbInv, NetInv, DbInv, DbSafe, Readable
  <2> QED
    BY Zenon, <2>3, <2>4, <2>5 DEF SurbInv
<1>4. CASE Crash
  <2>1. PICK k \in Nat : k = budget.crashes - 1
    BY <1>1, <1>4 DEF Crash, Budgets
  <2>2. budget' = [budget EXCEPT !.crashes = k]
    BY Zenon, <1>4, <2>1 DEF Crash
  <2>3. budget' \in Budgets
    BY Zenon, <1>1, <2>2 DEF Budgets
  <2> QED
    BY Zenon, <1>3, <1>4, <2>3 DEF Crash
<1>5. CASE Exit \/ UnknownRecipientPanics
  BY Zenon, <1>1, <1>3, <1>5 DEF Exit, UnknownRecipientPanics
<1> QED
  BY Zenon, <1>2, <1>4, <1>5

-----------------------------------------------------------------------------
(* The mixnet.                                                             *)

\* A packet that is lost uses up that fault.
LEMMA LossFault ==
    ASSUME budget \in Budgets, budget.losses > 0
    PROVE  [budget EXCEPT !.losses = @ - 1] \in Budgets
<1>1. PICK k \in Nat : k = budget.losses - 1
  BY DEF Budgets
<1>2. [budget EXCEPT !.losses = k] \in Budgets
  BY Zenon DEF Budgets
<1> QED
  BY Zenon, <1>1, <1>2

\* A packet that arrives takes the key of its SURB, which no other packet needs
\* unless it was spent twice.
LEMMA DeliverStep ==
    ASSUME TypeInv, SurbInv, NEW p \in net, NEW acked \in BOOLEAN, Deliver(p, acked)
    PROVE  TypeInv' /\ SurbInv'
<1> DEFINE N == peer.next
<1> DEFINE keys == [s \in DOMAIN peer.keys \ {p.surb} |-> peer.keys[s]]
<1>1. N \in Nat \ {0} /\ PeerType(peer) /\ MemType(mem, N) /\ p \in SentPackets(N)
  BY Zenon DEF TypeInv, PeerType
<1>2. p.frag \in Fragments(N)
  BY Zenon, <1>1 DEF SentPackets
<1>3. budget' \in Budgets
  <2>1. budget \in Budgets /\ budget.losses \in Nat /\ budget.overtakes \in Nat
    BY Zenon DEF TypeInv, Budgets
  <2>2. PICK k \in Nat, l \in Nat :
          /\ k = IF acked THEN budget.losses ELSE budget.losses - 1
          /\ l = IF p.surb \in Unstored THEN budget.overtakes - 1 ELSE budget.overtakes
    BY <2>1 DEF Deliver
  <2>3. budget' = [budget EXCEPT !.losses = k, !.overtakes = l]
    BY Zenon, <2>2 DEF Deliver
  <2> QED
    BY ZenonT(30), <2>1, <2>3 DEF Budgets
<1>4. /\ MemType(mem', N) /\ mem'.entry = mem.entry
      /\ mem'.out = mem.out /\ mem'.failures = mem.failures
  <2>1. mem' = mem \/ mem' = [mem EXCEPT !.unacked = @ \ {p.frag}]
    BY Zenon DEF Deliver
  <2> QED
    BY Zenon, <1>1, <2>1 DEF MemType
<1>5. PICK seen \in SUBSET Fragments(N), requests \in SUBSET Requests(N) :
          peer' = [peer EXCEPT !.keys = keys, !.seen = seen, !.requests = requests]
  <2>1. peer.seen \subseteq Fragments(N) /\ peer.requests \subseteq Requests(N)
    BY Zenon, <1>1 DEF PeerType
  <2>2. p.frag.type = "request" => p.frag \in Requests(N)
    BY Zenon, <1>2 DEF Requests
  <2>3. /\ peer.seen \cup {p.frag} \in SUBSET Fragments(N)
        /\ p.frag.type = "request" => peer.requests \cup {p.frag} \in SUBSET Requests(N)
    BY Zenon, <1>2, <2>1, <2>2
  <2> DEFINE known == p.surb \in DOMAIN peer.keys
  <2> DEFINE new == known /\ p.frag \notin peer.seen
  <2> DEFINE sn == IF known THEN peer.seen \cup {p.frag} ELSE peer.seen
  <2> DEFINE rq == IF new /\ p.frag.type = "request" THEN peer.requests \cup {p.frag} ELSE peer.requests
  <2>4. sn \in SUBSET Fragments(N) /\ rq \in SUBSET Requests(N)
    BY Zenon, <2>1, <2>3
  <2>5. peer' = [peer EXCEPT !.keys = keys, !.seen = sn, !.requests = rq]
    BY Zenon DEF Deliver
  <2> HIDE DEF sn, rq
  <2> QED
    BY ZenonT(30), <2>4, <2>5
<1>6. keys \in [DOMAIN peer.keys \ {p.surb} -> Nat] /\ DOMAIN keys = DOMAIN peer.keys \ {p.surb}
  BY Zenon, <1>1 DEF PeerType
<1> HIDE DEF keys
<1>7. /\ PeerShape(peer') /\ peer'.next = N /\ peer'.keys = keys /\ peer'.requests = requests
      /\ peer'.seen = seen /\ peer'.owed = peer.owed /\ peer'.storing = peer.storing
  BY ZenonT(30), <1>1, <1>5 DEF PeerType, PeerShape
<1>8. PeerType(peer')
  <2>1. keys \in [DOMAIN keys -> Nat] /\ DOMAIN keys \subseteq Surbs(N)
    BY Zenon, <1>1, <1>6 DEF PeerType
  <2> QED
    BY ZenonT(30), <1>1, <1>5, <1>7, <2>1 DEF PeerType
<1>9. UNCHANGED <<env, phase, db, todo, ctl, inbox, history>> /\ net' = net \ {p}
  BY Zenon DEF Deliver
<1>10. TypeInv'
  BY Zenon, <1>3, <1>4, <1>7, <1>8, <1>9 DEF TypeInv
<1>17. Keyed(peer) \subseteq Keyed(peer') \cup {p.surb}
  BY Zenon, <1>6, <1>7 DEF Keyed
<1>11. Readable \subseteq Readable' \cup {p.surb} /\ history.doubled \subseteq Readable'
  BY Zenon, <1>9, <1>17 DEF Readable
<1>12. p.surb \in history.spent /\ p.surb \in history.stored
  BY Zenon DEF SurbInv, NetInv
<1>13. MemInv'
  BY Zenon, <1>4, <1>9, <1>11, <1>12 DEF SurbInv, MemInv, Sound
<1>14. NetInv'
  <2>1. \A q \in net' : q.surb \in history.spent /\ q.surb \in Readable'
    <3> SUFFICES ASSUME NEW q \in net' PROVE q.surb \in history.spent /\ q.surb \in Readable'
      BY Zenon
    <3>1. q \in net /\ q # p
      BY Zenon, <1>9
    <3>2. q.surb = p.surb => q.surb \in history.doubled
      BY Zenon, <3>1 DEF SurbInv, NetInv
    <3> QED
      BY Zenon, <1>11, <3>1, <3>2 DEF SurbInv, NetInv
  <2>2. \A msg \in inbox :
          Range(msg.surbs) \subseteq Keyed(peer') \cup history.purged \cup history.stored
    BY Zenon, <1>12, <1>17 DEF SurbInv, NetInv
  <2> QED
    BY Zenon, <1>9, <2>1, <2>2 DEF SurbInv, NetInv
<1>15. DbSafe => DbSafe'
  BY Zenon, <1>9, <1>11, <1>12 DEF DbSafe
<1>16. DbInv'
  BY Zenon, <1>9, <1>15 DEF SurbInv, DbInv
<1> QED
  BY <1>10, <1>13, <1>14, <1>16, ZenonT(30) DEF SurbInv

\* A packet lost is a packet less.
LEMMA LoseStep ==
    ASSUME TypeInv, SurbInv, NEW p \in net, Lose(p)
    PROVE  TypeInv' /\ SurbInv'
<1>1. /\ budget' \in Budgets /\ net' = net \ {p}
      /\ UNCHANGED <<env, phase, db, todo, ctl, mem, inbox, peer, history>>
  BY Zenon, LossFault DEF Lose, TypeInv, controllerVars
<1>2. TypeInv'
  BY Zenon, <1>1 DEF TypeInv
<1>3. MemInv' /\ DbInv'
  BY Zenon, <1>1 DEF SurbInv, MemInv, DbInv, DbSafe, Readable
<1>4. NetInv'
  BY Zenon, <1>1 DEF SurbInv, NetInv, Readable
<1> QED
  BY Zenon, <1>2, <1>3, <1>4 DEF SurbInv

-----------------------------------------------------------------------------
(* The requester.                                                          *)

\* The requester may do as it likes with its state if it keeps the keys it has or
\* is about to store and sends SURBs of such keys only, each once.
LEMMA RequesterStep ==
    ASSUME TypeInv, SurbInv, PeerType(peer'), peer.next <= peer'.next,
           Keyed(peer) \subseteq Keyed(peer'), budget' \in Budgets,
           UNCHANGED <<env, phase, db, todo, ctl, mem, net, history>>,
           \A msg \in inbox' : \/ msg \in inbox
                                \/ /\ msg \in Messages(peer'.next)
                                   /\ \A i, j \in DOMAIN msg.surbs :
                                          i # j => msg.surbs[i] # msg.surbs[j]
                                   /\ Range(msg.surbs) \subseteq Keyed(peer')
    PROVE  TypeInv' /\ SurbInv'
<1>1. peer.next \in Nat \ {0} /\ peer'.next \in Nat \ {0}
  BY Zenon DEF TypeInv, PeerType
<1>2. /\ db \in Files(peer'.next) /\ MemType(mem, peer'.next)
      /\ net \subseteq SentPackets(peer'.next) /\ inbox \subseteq Messages(peer'.next)
  BY Zenon, <1>1, Grows DEF TypeInv
<1>3. TypeInv'
  BY Zenon, <1>2 DEF TypeInv
<1>4. Readable \subseteq Readable'
  BY ZenonT(30) DEF Readable
<1>5. MemInv'
  BY Zenon, <1>4 DEF SurbInv, MemInv
<1>6. NetInv'
  BY Zenon, <1>4 DEF SurbInv, NetInv
<1>7. DbInv'
  BY Zenon, <1>4 DEF SurbInv, DbInv, DbSafe
<1> QED
  BY <1>3, <1>5, <1>6, <1>7, ZenonT(30) DEF SurbInv

\* The SURBs of a message, made in order.
NewSurbs(first, n) == [i \in 1..n |-> first + i - 1]

\* Each is made once.
LEMMA NewSurbsType ==
    ASSUME NEW first \in Nat \ {0}, NEW n \in Nat, NEW M \in Nat \ {0}, first + n <= M
    PROVE  /\ NewSurbs(first, n) \in Seq(Surbs(M))
           /\ \A i, j \in DOMAIN NewSurbs(first, n) :
                 i # j => NewSurbs(first, n)[i] # NewSurbs(first, n)[j]
           /\ Range(NewSurbs(first, n)) = first..(first + n - 1)
<1> DEFINE s == NewSurbs(first, n)
<1>1. DOMAIN s = 1..n /\ \A i \in 1..n : s[i] = first + i - 1
  BY Zenon DEF NewSurbs
<1>2. \A i \in 1..n : s[i] \in Surbs(M)
  BY <1>1 DEF Surbs
<1>3. s \in [1..n -> Surbs(M)]
  BY Zenon, <1>2 DEF NewSurbs
<1>4. s \in Seq(Surbs(M))
  BY <1>3
<1>5. \A i, j \in DOMAIN s : i # j => s[i] # s[j]
  BY <1>1
<1>6. \A k \in first..(first + n - 1) : k - first + 1 \in 1..n /\ s[k - first + 1] = k
  BY <1>1
<1>7. \A i \in 1..n : s[i] \in first..(first + n - 1)
  BY <1>1
<1> HIDE DEF s
<1>8. Range(s) = first..(first + n - 1)
  BY ZenonT(30), <1>1, <1>6, <1>7 DEF Range
<1> QED
  BY Zenon, <1>4, <1>5, <1>8 DEF s

\* p has these fields, and the seen fragments of q.
PeerTuple(q, keys, next, requests, owed, storing, p) ==
    /\ PeerShape(p) /\ p.keys = keys /\ p.next = next /\ p.requests = requests
    /\ p.seen = q.seen /\ p.owed = owed /\ p.storing = storing

\* What EXCEPT makes of the requester's state.
LEMMA PeerExcept ==
    ASSUME NEW q, PeerShape(q), NEW keys, NEW next, NEW requests, NEW owed, NEW storing, NEW p
    PROVE  /\ p = [q EXCEPT !.keys = keys]
                => PeerTuple(q, keys, q.next, q.requests, q.owed, q.storing, p)
           /\ p = [q EXCEPT !.keys = keys, !.storing = storing]
                => PeerTuple(q, keys, q.next, q.requests, q.owed, storing, p)
           /\ p = [q EXCEPT !.next = next, !.owed = owed, !.storing = storing]
                => PeerTuple(q, q.keys, next, q.requests, owed, storing, p)
           /\ p = [q EXCEPT !.next = next, !.owed = owed]
                => PeerTuple(q, q.keys, next, q.requests, owed, q.storing, p)
           /\ p = [q EXCEPT !.requests = requests, !.owed = owed]
                => PeerTuple(q, q.keys, q.next, requests, owed, q.storing, p)
<1>1. p = [q EXCEPT !.keys = keys]
        => PeerTuple(q, keys, q.next, q.requests, q.owed, q.storing, p)
  BY ZenonT(30) DEF PeerTuple, PeerShape
<1>2. p = [q EXCEPT !.keys = keys, !.storing = storing]
        => PeerTuple(q, keys, q.next, q.requests, q.owed, storing, p)
  BY ZenonT(30) DEF PeerTuple, PeerShape
<1>3. p = [q EXCEPT !.next = next, !.owed = owed, !.storing = storing]
        => PeerTuple(q, q.keys, next, q.requests, owed, storing, p)
  BY ZenonT(30) DEF PeerTuple, PeerShape
<1>4. p = [q EXCEPT !.next = next, !.owed = owed]
        => PeerTuple(q, q.keys, next, q.requests, owed, q.storing, p)
  BY ZenonT(30) DEF PeerTuple, PeerShape
<1>5. p = [q EXCEPT !.requests = requests, !.owed = owed]
        => PeerTuple(q, q.keys, q.next, requests, owed, q.storing, p)
  BY ZenonT(30) DEF PeerTuple, PeerShape
<1> QED
  BY Zenon, <1>1, <1>2, <1>3, <1>4, <1>5

\* It has its type again if the SURBs made are not fewer.
LEMMA PeerAgain ==
    ASSUME NEW q, PeerType(q), NEW p, PeerShape(p), p.next \in Nat \ {0}, q.next <= p.next,
           p.keys \in [DOMAIN p.keys -> Nat], DOMAIN p.keys \subseteq Surbs(p.next),
           p.requests \subseteq q.requests, p.seen = q.seen, p.owed \in Nat,
           p.storing \subseteq Messages(p.next)
    PROVE  PeerType(p)
<1>1. q.next \in Nat \ {0} /\ q.requests \subseteq Requests(q.next) /\ q.seen \subseteq Fragments(q.next)
  BY Zenon DEF PeerType
<1>2. Requests(q.next) \subseteq Requests(p.next) /\ Fragments(q.next) \subseteq Fragments(p.next)
  BY Zenon, <1>1, Grows
<1>3. p.requests \subseteq Requests(p.next) /\ p.seen \subseteq Fragments(p.next)
  BY Zenon, <1>1, <1>2
<1> QED
  BY Zenon, <1>3 DEF PeerType

\* What a message that is sent brings: SURBs never made before, whose keys are
\* stored next.
LEMMA SendingType ==
    ASSUME TypeInv, NEW n \in Nat, NEW requested \in BOOLEAN, requested => n <= peer.owed,
           Sending(n, requested)
    PROVE  /\ PeerType(peer') /\ peer.next <= peer'.next /\ Keyed(peer) \subseteq Keyed(peer')
           /\ \A m \in inbox' : \/ m \in inbox
                                \/ /\ m \in Messages(peer'.next)
                                   /\ \A i, j \in DOMAIN m.surbs : i # j => m.surbs[i] # m.surbs[j]
                                   /\ Range(m.surbs) \subseteq Keyed(peer')
<1> DEFINE msg == [surbs |-> NewSurbs(peer.next, n), requested |-> requested]
<1>1. /\ PeerType(peer) /\ peer.next \in Nat \ {0} /\ peer.owed \in Nat
      /\ peer.storing \subseteq Messages(peer.next) /\ DOMAIN peer.keys \subseteq Surbs(peer.next)
      /\ peer.keys \in [DOMAIN peer.keys -> Nat]
  BY Zenon DEF TypeInv, PeerType
<1>2. PICK M \in Nat \ {0} : M = peer.next + n /\ peer.next <= M
  BY <1>1
<1>3. PICK owed \in Nat : owed = IF requested THEN peer.owed - n ELSE peer.owed
  BY <1>1
<1>4. /\ NewSurbs(peer.next, n) \in Seq(Surbs(M))
      /\ \A i, j \in DOMAIN NewSurbs(peer.next, n) :
            i # j => NewSurbs(peer.next, n)[i] # NewSurbs(peer.next, n)[j]
  <2>1. peer.next + n <= M
    BY <1>1, <1>2
  <2> QED
    BY ZenonT(30), <1>1, <1>2, <2>1, NewSurbsType
<1>5. msg \in Messages(M) /\ msg.surbs = NewSurbs(peer.next, n)
  BY Zenon, <1>4 DEF Messages
<1>6. /\ inbox' = inbox \cup {msg}
      /\ peer' = [peer EXCEPT !.next = M, !.owed = owed, !.storing = @ \cup {msg}]
  BY Zenon, <1>2, <1>3 DEF Sending, NewSurbs
<1> HIDE DEF msg
<1> DEFINE storing == peer.storing \cup {msg}
<1>7. storing \in SUBSET Messages(M) /\ Surbs(peer.next) \subseteq Surbs(M)
  <2>1. Messages(peer.next) \subseteq Messages(M) /\ Surbs(peer.next) \subseteq Surbs(M)
    BY Zenon, <1>1, <1>2, Grows
  <2> QED
    BY Zenon, <1>1, <1>5, <2>1
<1>8. peer' = [peer EXCEPT !.next = M, !.owed = owed, !.storing = storing]
  BY Zenon, <1>6
<1> HIDE DEF storing
<1>9. PeerTuple(peer, peer.keys, M, peer.requests, owed, storing, peer')
  BY Zenon, <1>1, <1>8, PeerExcept DEF PeerType
<1>10. /\ PeerType(peer') /\ peer'.next = M /\ peer'.keys = peer.keys /\ peer'.storing = storing
  <2>1. DOMAIN peer.keys \subseteq Surbs(M) /\ peer.requests \in SUBSET peer.requests
    BY Zenon, <1>1, <1>7
  <2> QED
    BY Zenon, <1>1, <1>2, <1>3, <1>7, <1>9, <2>1, PeerAgain DEF PeerTuple
<1>11. Keyed(peer) \subseteq Keyed(peer') /\ Range(msg.surbs) \subseteq Keyed(peer')
  BY Zenon, <1>10 DEF Keyed, storing
<1> QED
  BY Zenon, <1>2, <1>4, <1>5, <1>6, <1>10, <1>11

\* try_send_message_with_reply_surbs will store the keys of what it sends.
LEMMA SendMessageStep ==
    ASSUME TypeInv, SurbInv, TrySendMessageWithReplySurbs
    PROVE  TypeInv' /\ SurbInv'
<1>1. env.surbs \in Nat /\ budget \in Budgets
  BY Zenon, EnvironmentsAssumption DEF TypeInv
<1>2. budget' \in Budgets
  <2>1. PICK k \in Nat : k = budget.messages - 1
    BY <1>1 DEF TrySendMessageWithReplySurbs, Budgets
  <2>2. budget' = [budget EXCEPT !.messages = k]
    BY Zenon, <2>1 DEF TrySendMessageWithReplySurbs
  <2> QED
    BY Zenon, <1>1, <2>2 DEF Budgets
<1>3. Sending(env.surbs, FALSE) /\ UNCHANGED <<env, phase, db, todo, ctl, mem, net, history>>
  BY Zenon DEF TrySendMessageWithReplySurbs, controllerVars
<1> QED
  BY Zenon, <1>1, <1>2, <1>3, SendingType, RequesterStep

\* A batch answering a request, sent or given up.
LEMMA SendAdditionalStep ==
    ASSUME TypeInv, SurbInv, TrySendAdditionalReplySurbs
    PROVE  TypeInv' /\ SurbInv'
<1>1. /\ PeerType(peer) /\ peer.next \in Nat \ {0} /\ peer.owed \in Nat /\ budget \in Budgets
      /\ peer.storing \subseteq Messages(peer.next) /\ DOMAIN peer.keys \subseteq Surbs(peer.next)
      /\ peer.keys \in [DOMAIN peer.keys -> Nat]
  BY Zenon DEF TypeInv, PeerType
<1>2. PICK n \in Nat : n = MinOf(BatchSize, peer.owed) /\ n <= peer.owed
  BY <1>1, ConfigAssumption DEF MinOf
<1>3. UNCHANGED <<env, phase, db, todo, ctl, mem, net, history>>
  BY Zenon DEF TrySendAdditionalReplySurbs, controllerVars
<1>4. CASE Sending(n, TRUE) /\ UNCHANGED budget
  BY Zenon, <1>1, <1>2, <1>3, <1>4, SendingType, RequesterStep
<1>5. CASE /\ budget.refusals > 0 /\ budget' = [budget EXCEPT !.refusals = @ - 1]
           /\ peer' = [peer EXCEPT !.next = @ + n, !.owed = @ - n] /\ UNCHANGED inbox
  <2>1. budget' \in Budgets
    <3>1. PICK k \in Nat : k = budget.refusals - 1
      BY <1>1, <1>5 DEF Budgets
    <3> QED
      BY Zenon, <1>1, <1>5, <3>1 DEF Budgets
  <2>2. PICK M \in Nat \ {0}, owed \in Nat :
          M = peer.next + n /\ owed = peer.owed - n /\ peer.next <= M
    BY <1>1, <1>2
  <2>3. peer' = [peer EXCEPT !.next = M, !.owed = owed]
    BY Zenon, <1>5, <2>2
  <2>4. PeerTuple(peer, peer.keys, M, peer.requests, owed, peer.storing, peer')
    BY Zenon, <1>1, <2>3, PeerExcept DEF PeerType
  <2>5. /\ DOMAIN peer.keys \subseteq Surbs(M) /\ peer.requests \in SUBSET peer.requests
        /\ peer.storing \in SUBSET Messages(M)
    <3>1. Messages(peer.next) \subseteq Messages(M) /\ Surbs(peer.next) \subseteq Surbs(M)
      BY Zenon, <1>1, <2>2, Grows
    <3> QED
      BY Zenon, <1>1, <3>1
  <2>6. /\ PeerType(peer') /\ peer'.next = M /\ peer'.keys = peer.keys
        /\ peer'.storing = peer.storing
    BY Zenon, <1>1, <2>2, <2>4, <2>5, PeerAgain DEF PeerTuple
  <2>7. Keyed(peer) \subseteq Keyed(peer')
    BY Zenon, <2>6 DEF Keyed
  <2> QED
    BY Zenon, <1>3, <1>5, <2>1, <2>2, <2>6, <2>7, RequesterStep
<1> QED
  BY Zenon, <1>2, <1>4, <1>5 DEF TrySendAdditionalReplySurbs

\* handle_surb_request takes up the request.
LEMMA SurbRequestStep ==
    ASSUME TypeInv, SurbInv, NEW r \in peer.requests, HandleSurbRequest(r)
    PROVE  TypeInv' /\ SurbInv'
<1>1. /\ PeerType(peer) /\ peer.next \in Nat \ {0} /\ budget \in Budgets
      /\ peer.storing \in SUBSET Messages(peer.next) /\ DOMAIN peer.keys \subseteq Surbs(peer.next)
      /\ peer.keys \in [DOMAIN peer.keys -> Nat] /\ r \in Requests(peer.next)
  BY Zenon DEF TypeInv, PeerType
<1>2. PICK owed \in Nat : owed = MinOf(r.amount, MaxAllowed)
  <2>1. r.amount \in Nat
    <3>1. r \in Fragments(peer.next)
      BY Zenon, <1>1 DEF Requests
    <3> QED
      BY <3>1, ConfigAssumption DEF Fragments, DataFragment, Data, SurbRequest
  <2> QED
    BY Zenon, <2>1, ConfigAssumption DEF MinOf
<1> DEFINE requests == peer.requests \ {r}
<1>3. /\ peer' = [peer EXCEPT !.requests = requests, !.owed = owed]
      /\ UNCHANGED <<env, budget, phase, db, todo, ctl, mem, net, inbox, history>>
  BY Zenon, <1>2 DEF HandleSurbRequest, controllerVars
<1>4. requests \in SUBSET peer.requests
  BY Zenon
<1> HIDE DEF requests
<1>5. PeerTuple(peer, peer.keys, peer.next, requests, owed, peer.storing, peer')
  BY Zenon, <1>1, <1>3, PeerExcept DEF PeerType
<1>6. peer.next <= peer.next
  BY <1>1
<1>7. PeerType(peer') /\ peer'.next = peer.next /\ peer'.keys = peer.keys
      /\ peer'.storing = peer.storing
  BY Zenon, <1>1, <1>2, <1>4, <1>5, <1>6, PeerAgain DEF PeerTuple
<1>8. Keyed(peer) \subseteq Keyed(peer') /\ budget' \in Budgets
  BY Zenon, <1>1, <1>3, <1>7 DEF Keyed
<1> QED
  BY Zenon, <1>3, <1>6, <1>7, <1>8, RequesterStep

\* insert_multiple: keys that were about to be stored are.
LEMMA StoreKeysStep ==
    ASSUME TypeInv, SurbInv, NEW msg \in peer.storing, StoreReplyKeys(msg)
    PROVE  TypeInv' /\ SurbInv'
<1> DEFINE new == Range(msg.surbs)
<1> DEFINE keys == [s \in DOMAIN peer.keys \cup new |-> IF s \in new THEN 0 ELSE peer.keys[s]]
<1> DEFINE storing == peer.storing \ {msg}
<1>1. /\ PeerType(peer) /\ peer.next \in Nat \ {0} /\ budget \in Budgets /\ peer.owed \in Nat
      /\ peer.storing \subseteq Messages(peer.next) /\ DOMAIN peer.keys \subseteq Surbs(peer.next)
      /\ peer.keys \in [DOMAIN peer.keys -> Nat]
  BY Zenon DEF TypeInv, PeerType
<1>2. new \subseteq Surbs(peer.next)
  <2>1. msg.surbs \in Seq(Surbs(peer.next))
    BY Zenon, <1>1 DEF Messages
  <2> QED
    BY Zenon, <2>1, ElementsOf
<1>3. /\ peer' = [peer EXCEPT !.keys = keys, !.storing = storing]
      /\ UNCHANGED <<env, budget, phase, db, todo, ctl, mem, net, inbox, history>>
  BY ZenonT(30) DEF StoreReplyKeys, controllerVars
<1> HIDE DEF new
<1>4. DOMAIN keys = DOMAIN peer.keys \cup new /\ keys \in [DOMAIN keys -> Nat]
  BY Zenon, <1>1
<1>5. DOMAIN keys \subseteq Surbs(peer.next)
  BY Zenon, <1>1, <1>2, <1>4
<1>6. storing \in SUBSET Messages(peer.next) /\ peer.requests \in SUBSET peer.requests
      /\ peer.next <= peer.next
  BY <1>1
<1>7. peer.storing \subseteq storing \cup {msg}
  BY Zenon
<1> HIDE DEF keys, storing
<1>8. PeerTuple(peer, keys, peer.next, peer.requests, peer.owed, storing, peer')
  BY Zenon, <1>1, <1>3, PeerExcept DEF PeerType
<1>9. PeerType(peer') /\ peer'.next = peer.next /\ peer'.keys = keys /\ peer'.storing = storing
  BY Zenon, <1>1, <1>4, <1>5, <1>6, <1>8, PeerAgain DEF PeerTuple
<1>10. Keyed(peer) \subseteq Keyed(peer')
  BY Zenon, <1>4, <1>7, <1>9 DEF Keyed, new
<1> QED
  BY Zenon, <1>1, <1>3, <1>6, <1>9, <1>10, RequesterStep

\* The requester's invalidate_old_data: keys given up for their age are purged.
LEMMA InvalidateKeysStep ==
    ASSUME TypeInv, SurbInv, InvalidateReplyKeys
    PROVE  TypeInv' /\ SurbInv'
<1> DEFINE old == {s \in DOMAIN peer.keys : peer.keys[s] >= 2}
<1> DEFINE keys == [s \in DOMAIN peer.keys \ old |-> peer.keys[s]]
<1>1. /\ peer' = [peer EXCEPT !.keys = keys]
      /\ history' = [history EXCEPT !.purged = @ \cup old]
      /\ UNCHANGED <<env, budget, phase, db, todo, ctl, mem, net, inbox>>
  BY ZenonT(30) DEF InvalidateReplyKeys, controllerVars
<1>2. old \subseteq DOMAIN peer.keys /\ PeerType(peer) /\ history \in Histories
  BY Zenon DEF TypeInv
<1> HIDE DEF old
<1>3. DOMAIN keys = DOMAIN peer.keys \ old /\ keys \in [DOMAIN keys -> Nat]
  BY Zenon, <1>2 DEF PeerType
<1> HIDE DEF keys
<1>4. /\ PeerType(peer') /\ peer'.next = peer.next /\ peer'.keys = keys
      /\ peer'.storing = peer.storing
  <2>1. DOMAIN keys \subseteq Surbs(peer.next)
    BY Zenon, <1>2, <1>3 DEF PeerType
  <2>2. PeerTuple(peer, keys, peer.next, peer.requests, peer.owed, peer.storing, peer')
    BY Zenon, <1>1, <1>2, PeerExcept DEF PeerType
  <2>3. peer.next \in Nat \ {0} /\ peer.next <= peer.next /\ peer.owed \in Nat
        /\ peer.storing \subseteq Messages(peer.next)
    BY <1>2 DEF PeerType
  <2> QED
    BY Zenon, <1>2, <1>3, <2>1, <2>2, <2>3, PeerAgain DEF PeerTuple
<1>5. old \subseteq Nat
  BY <1>2 DEF PeerType, Surbs
<1>6. /\ history' \in Histories /\ history'.purged = history.purged \cup old
      /\ history'.stored = history.stored /\ history'.spent = history.spent
      /\ history'.doubled = history.doubled
  BY Zenon, <1>1, <1>2, <1>5 DEF Histories
<1>7. TypeInv'
  BY Zenon, <1>1, <1>4, <1>6 DEF TypeInv
<1>12. Keyed(peer) \subseteq Keyed(peer') \cup old
  BY Zenon, <1>3, <1>4 DEF Keyed
<1>8. Readable \subseteq Readable'
  BY Zenon, <1>6, <1>12 DEF Readable
<1>9. MemInv'
  BY Zenon, <1>1, <1>6, <1>8 DEF SurbInv, MemInv
<1>10. NetInv'
  <2>1. \A msg \in inbox :
          Range(msg.surbs) \subseteq Keyed(peer') \cup history'.purged \cup history.stored
    BY Zenon, <1>6, <1>12 DEF SurbInv, NetInv
  <2> QED
    BY <1>1, <1>4, <1>6, <1>8, <2>1 DEF SurbInv, NetInv
<1>11. DbInv'
  BY Zenon, <1>1, <1>6, <1>8 DEF SurbInv, DbInv, DbSafe
<1> QED
  BY Zenon, <1>7, <1>9, <1>10, <1>11 DEF SurbInv

-----------------------------------------------------------------------------
(* Time.                                                                   *)

\* Time changes ages only.
LEMMA TimeStep ==
    ASSUME TypeInv, SurbInv, NEW e, NEW f, NEW idle \in Idles,
           mem' = [mem EXCEPT !.entry = e], db' = [db EXCEPT !.entry = f, !.idle = idle],
           e \in Entries(peer.next) \cup {NoEntry}, f \in Entries(peer.next) \cup {NoEntry},
           Held(e) = Held(mem.entry), \A D : Once(mem.entry, D) => Once(e, D),
           Held(f) = Held(db.entry), \A D : Once(db.entry, D) => Once(f, D),
           PeerType(peer'), peer'.next = peer.next, Keyed(peer') = Keyed(peer),
           budget' \in Budgets,
           UNCHANGED <<env, phase, todo, ctl, net, inbox, history>>
    PROVE  TypeInv' /\ SurbInv'
<1>1. /\ MemType(mem', peer.next) /\ mem'.entry = e
      /\ mem'.out = mem.out /\ mem'.failures = mem.failures
  BY Zenon DEF TypeInv, MemType
<1>2. db' \in Files(peer.next) /\ db'.entry = f /\ db'.clientInUse = db.clientInUse
  BY ZenonT(30) DEF TypeInv, Files
<1>3. TypeInv'
  BY Zenon, <1>1, <1>2 DEF TypeInv
<1>4. Readable' = Readable
  BY Zenon DEF Readable
<1>5. MemInv'
  BY Zenon, <1>1, <1>4 DEF SurbInv, MemInv, Sound
<1>6. NetInv'
  BY Zenon, <1>4 DEF SurbInv, NetInv
<1>7. DbInv'
  BY Zenon, <1>2, <1>4 DEF SurbInv, DbInv, DbSafe
<1> QED
  BY Zenon, <1>3, <1>5, <1>6, <1>7 DEF SurbInv

\* The sender is silent for some seconds.
LEMMA SecondsStep ==
    ASSUME TypeInv, SurbInv, SecondsPass
    PROVE  TypeInv' /\ SurbInv'
<1> DEFINE N == peer.next
<1>1. N \in Nat \ {0} /\ mem.entry \in Entries(N) /\ budget \in Budgets /\ db \in Files(N)
  BY Zenon DEF SecondsPass, TypeInv, PeerType, MemType
<1>2. PICK a \in Ages : a = mem.entry.age + 1
  <2>1. mem.entry.age \in 0..1
    BY <1>1 DEF SecondsPass, Entries, Ages, DropAge, SurbAge
  <2> QED
    BY <2>1 DEF Ages, SurbAge
<1> DEFINE e == [mem.entry EXCEPT !.age = a]
<1>3. e \in Entries(N) /\ e.data = mem.entry.data
  BY Zenon, <1>1 DEF Entries
<1>4. mem' = [mem EXCEPT !.entry = e]
  BY Zenon, <1>2 DEF SecondsPass, TypeInv, MemType
<1> HIDE DEF e
<1>5. Held(e) = Held(mem.entry) /\ \A D : Once(mem.entry, D) => Once(e, D)
  BY Zenon, <1>1, <1>3, EntryIsNone DEF Held, Once
<1>6. budget' \in Budgets
  <2>1. CASE budget.delays > 0
    <3>1. PICK k \in Nat : k = budget.delays - 1
      BY <1>1, <2>1 DEF Budgets
    <3>2. [budget EXCEPT !.delays = k] \in Budgets
      BY Zenon, <1>1 DEF Budgets
    <3> QED
      BY Zenon, <1>1, <3>1, <3>2 DEF SecondsPass
  <2> QED
    BY Zenon, <1>1, <2>1 DEF SecondsPass
<1>7. /\ db' = [db EXCEPT !.entry = db.entry, !.idle = db.idle] /\ db.idle \in Idles
      /\ db.entry \in Entries(N) \cup {NoEntry}
  BY ZenonT(30), <1>1 DEF SecondsPass, Files
<1>8. UNCHANGED <<env, phase, todo, ctl, net, inbox, peer, history>>
  BY Zenon DEF SecondsPass
<1>9. PeerType(peer') /\ peer'.next = peer.next /\ Keyed(peer') = Keyed(peer)
  BY Zenon, <1>8 DEF TypeInv
<1> QED
  BY ZenonT(30), <1>3, <1>4, <1>5, <1>6, <1>7, <1>8, <1>9, TimeStep

\* Half a day passes, for the file and the keys of the requester too.
LEMMA HalfDayStep ==
    ASSUME TypeInv, SurbInv, HalfDayPasses
    PROVE  TypeInv' /\ SurbInv'
<1> DEFINE N == peer.next
<1>1. /\ N \in Nat \ {0} /\ mem.entry \in Entries(N) \cup {NoEntry} /\ budget \in Budgets
      /\ db \in Files(N) /\ PeerType(peer)
  BY Zenon DEF TypeInv, PeerType, MemType
<1>2. db.entry \in Entries(N) \cup {NoEntry} /\ db.idle \in Idles
  BY <1>1, ZenonT(30) DEF Files
<1> DEFINE e == Aged(mem.entry)
<1> DEFINE f == Aged(db.entry)
<1>3. /\ e \in Entries(N) \cup {NoEntry} /\ Held(e) = Held(mem.entry)
      /\ \A D : Once(mem.entry, D) => Once(e, D)
  BY <1>1, EntryCounts, ZenonT(30)
<1>4. /\ f \in Entries(N) \cup {NoEntry} /\ Held(f) = Held(db.entry)
      /\ \A D : Once(db.entry, D) => Once(f, D)
  BY Zenon, <1>1, <1>2, EntryCounts
<1>5. PICK idle \in Idles : idle = MinOf(2, db.idle + 1)
  BY <1>2 DEF MinOf, Idles
<1>6. mem' = [mem EXCEPT !.entry = e] /\ db' = [db EXCEPT !.entry = f, !.idle = idle]
  BY Zenon, <1>5 DEF HalfDayPasses
<1>7. budget' \in Budgets
  <2>1. PICK k \in Nat : k = budget.halfDays - 1
    <3>1. budget.halfDays \in Nat /\ budget.halfDays > 0
      BY Zenon, <1>1 DEF HalfDayPasses, Budgets
    <3> QED
      BY <3>1
  <2>2. budget' = [budget EXCEPT !.halfDays = k]
    BY Zenon, <2>1 DEF HalfDayPasses
  <2> QED
    BY Zenon, <1>1, <2>2 DEF Budgets
<1> DEFINE keys == [s \in DOMAIN peer.keys |-> MinOf(2, peer.keys[s] + 1)]
<1>8. DOMAIN keys = DOMAIN peer.keys /\ keys \in [DOMAIN keys -> Nat]
  BY <1>1 DEF PeerType, MinOf
<1>9. peer' = [peer EXCEPT !.keys = keys]
  BY Zenon DEF HalfDayPasses
<1> HIDE DEF keys, e, f
<1>10. PeerType(peer') /\ peer'.next = peer.next /\ Keyed(peer') = Keyed(peer)
  <2>1. PeerTuple(peer, keys, peer.next, peer.requests, peer.owed, peer.storing, peer')
    BY Zenon, <1>1, <1>9, PeerExcept DEF PeerType
  <2>2. DOMAIN keys \subseteq Surbs(peer.next)
    BY Zenon, <1>1, <1>8 DEF PeerType
  <2>3. /\ PeerType(peer') /\ peer'.next = peer.next /\ peer'.keys = keys
        /\ peer'.storing = peer.storing
    <3>1. peer.next \in Nat \ {0} /\ peer.next <= peer.next /\ peer.owed \in Nat
          /\ peer.storing \subseteq Messages(peer.next)
      BY <1>1 DEF PeerType
    <3> QED
      BY Zenon, <1>1, <1>8, <2>1, <2>2, <3>1, PeerAgain DEF PeerTuple
  <2> QED
    BY Zenon, <1>8, <2>3 DEF Keyed
<1>11. UNCHANGED <<env, phase, todo, ctl, net, inbox, history>>
  BY Zenon DEF HalfDayPasses
<1> QED
  BY ZenonT(30), <1>3, <1>4, <1>6, <1>7, <1>8, <1>10, <1>11, TimeStep

-----------------------------------------------------------------------------
(* The theorems.                                                           *)

\* The first state.
LEMMA SurbsInitially == Init => TypeInv /\ SurbInv
<1> SUFFICES ASSUME Init PROVE TypeInv /\ SurbInv
  BY Zenon
<1>1. peer.next = 1 /\ peer.keys = << >> /\ DOMAIN peer.keys = {} /\ PeerType(peer)
  <2>1. peer = [keys |-> << >>, next |-> 1, requests |-> {}, seen |-> {},
                owed |-> 0, storing |-> {}]
    BY Zenon DEF Init
  <2>2. DOMAIN << >> = {} /\ << >> \in [{} -> Nat]
    OBVIOUS
  <2>3. /\ PeerShape(peer) /\ peer.next = 1 /\ peer.keys = << >> /\ peer.requests = {}
        /\ peer.seen = {} /\ peer.owed = 0 /\ peer.storing = {}
    BY Zenon, <2>1 DEF PeerShape
  <2> QED
    BY <2>2, <2>3 DEF PeerType
<1>2. budget \in Budgets
  <2>1. {env.losses, env.topology, env.refusals, env.messages, env.crashes,
            env.shutdowns, env.database, env.halfDays, env.delays, env.overtakes} \subseteq Nat
    BY Zenon, EnvironmentsAssumption DEF Init
  <2> QED
    BY Zenon, <2>1 DEF Init, Budgets
<1>3. db \in Files(1) /\ db.entry = NoEntry /\ db.clientInUse
  <2>1. 0 \in Idles
    BY DEF Idles
  <2> QED
    BY Zenon, <2>1 DEF Init, FreshDb, Files
<1>4. MemType(mem, 1) /\ mem.entry = NoEntry /\ mem.out = {} /\ mem.failures = 0
  <2>1. mem = Booted(NoEntry)
    BY Zenon DEF Init
  <2>2. 1 \in Nat \ {0} /\ NoEntry \in Entries(1) \cup {NoEntry}
    OBVIOUS
  <2> QED
    BY <2>1, <2>2, BootedType, Zenon
<1>5. history \in Histories /\ history.spent = {}
  BY Zenon DEF Init, Histories
<1>6. TypeInv
  BY Zenon, <1>1, <1>2, <1>3, <1>4, <1>5, EnvironmentsAssumption DEF Init, TypeInv, Phases
<1>7. SurbInv
  BY Zenon, <1>3, <1>4, <1>5 DEF Init, SurbInv, MemInv, NetInv, DbInv, DbSafe, Sound, Held, Once
<1> QED
  BY Zenon, <1>6, <1>7

\* Every step keeps the invariants.
LEMMA SurbsStep == TypeInv /\ SurbInv /\ [Next]_vars => TypeInv' /\ SurbInv'
<1> SUFFICES ASSUME TypeInv, SurbInv, [Next]_vars PROVE TypeInv' /\ SurbInv'
  BY Zenon
<1>1. CASE \E S \in SUBSET todo : HandleSendReply(S)
  BY Zenon, <1>1, SendReplyStep
<1>2. CASE \E msg \in inbox : HandleReceivedSurbs(msg, FALSE) \/ HandleReceivedSurbs(msg, TRUE)
  BY ZenonT(30), <1>2, ReceivedStep
<1>3. CASE \E f \in mem.unacked : HandleReplyRetransmission(f)
  BY Zenon, <1>3, RetransmissionStep
<1>4. CASE InspectStaleEntries
  BY Zenon, <1>4, InspectStep
<1>5. CASE InvalidateOldData
  BY <1>5, InvalidateStep
<1>6. CASE Start
  BY Zenon, <1>6, StartStep
<1>7. CASE StorageTask
  BY Zenon, <1>7, StorageStep
<1>8. CASE Shutdown \/ Exit \/ Crash \/ UnknownRecipientPanics
  BY Zenon, <1>8, ProcessStep
<1>9. CASE \E p \in net : Deliver(p, TRUE) \/ Deliver(p, FALSE)
  BY ZenonT(30), <1>9, DeliverStep
<1>10. CASE \E p \in net : Lose(p)
  BY <1>10, LoseStep
<1>11. CASE TrySendMessageWithReplySurbs
  BY Zenon, <1>11, SendMessageStep
<1>12. CASE \E r \in peer.requests : HandleSurbRequest(r)
  BY <1>12, SurbRequestStep
<1>17. CASE TrySendAdditionalReplySurbs
  BY Zenon, <1>17, SendAdditionalStep
<1>18. CASE \E msg \in peer.storing : StoreReplyKeys(msg)
  BY <1>18, StoreKeysStep
<1>13. CASE InvalidateReplyKeys
  BY Zenon, <1>13, InvalidateKeysStep
<1>14. CASE SecondsPass
  BY Zenon, <1>14, SecondsStep
<1>15. CASE HalfDayPasses
  BY Zenon, <1>15, HalfDayStep
<1>16. CASE UNCHANGED vars
  BY Zenon, <1>16 DEF vars, controllerVars, TypeInv, SurbInv, MemInv, NetInv, DbInv, DbSafe, Readable
<1> QED
  BY ZenonT(30), <1>1, <1>2, <1>3, <1>4, <1>5, <1>6, <1>7, <1>8, <1>9, <1>10, <1>11, <1>12, <1>13,
     <1>14, <1>15, <1>16, <1>17, <1>18 DEF Next, SystemStep

\* The invariant holds in every behaviour of the responder, its file and the
\* requester.
LEMMA SurbsInductive == Spec => [](TypeInv /\ SurbInv)
BY SurbsInitially, SurbsStep, PTL DEF Spec

\* The responder, its file and the requester keep their shape through every
\* interleaving of the controller, the storage task, the mixnet, crashes and
\* restarts, for all thresholds, batch sizes and numbers of replies.
THEOREM TypeCorrect == Spec => []TypeOK
<1>1. TypeInv => TypeOK
  <2> SUFFICES ASSUME TypeInv PROVE TypeOK
    BY ZenonT(30)
  <2> DEFINE N == peer.next
  <2>1. N \in Nat \ {0} /\ Surb = Surbs(N) /\ Entry = Entries(N) /\ Fragment = Fragments(N)
    BY DEF TypeInv, PeerType, Surb, Surbs, Entry, Entries, Ages, Fragment, Fragments, DataFragment
  <2>2. mem.entry = NoEntry \/ mem.entry \in Entry
    BY Zenon, <2>1 DEF TypeInv, MemType
  <2>3. db.entry = NoEntry \/ db.entry \in Entry
    BY Zenon, <2>1 DEF TypeInv, Files
  <2>4. Range(mem.replies) \subseteq {Data(n) : n \in Reply}
    BY Zenon, ElementsOf DEF TypeInv, MemType, DataFragment
  <2>5. mem.unacked \cup mem.retransmissions \subseteq Fragment
    BY <2>1, ZenonT(30) DEF TypeInv, MemType
  <2>6. net \subseteq [frag : Fragment, surb : Surb]
    BY Zenon, <2>1 DEF TypeInv, SentPackets
  <2>7. UNION {Range(m.surbs) : m \in inbox \cup peer.storing} \subseteq Surb
    <3>3. inbox \cup peer.storing \subseteq Messages(N)
      BY Zenon DEF TypeInv, PeerType
    <3>1. \A m \in inbox \cup peer.storing : m.surbs \in Seq(Surb)
      BY Zenon, <2>1, <3>3 DEF Messages
    <3>2. \A m \in inbox \cup peer.storing : Range(m.surbs) \subseteq Surb
      BY <3>1, ElementsOf, Zenon
    <3> QED
      BY <3>2, Zenon
  <2>8. DOMAIN peer.keys \subseteq Surb /\ peer.owed \in Nat
    BY Zenon, <2>1 DEF TypeInv, PeerType
  <2>9. \A b \in DOMAIN budget : budget[b] \in Nat
    BY Zenon DEF TypeInv, Budgets
  <2> QED
    BY Zenon, <2>2, <2>3, <2>4, <2>5, <2>6, <2>7, <2>8, <2>9 DEF TypeInv, TypeOK, Phases
<1> QED
  BY <1>1, SurbsInductive, PTL

\* A reply SURB is used once: what ReceivedReplySurbsMap has drained is not in
\* it again, nor in a database the next start would load, except the SURBs
\* whose file was not marked as in use and those of a repeated message.
THEOREM SpentOnce == Spec => []SpentSurbsAreGone
<1>1. TypeInv /\ SurbInv => SpentSurbsAreGone
  <2> SUFFICES ASSUME TypeInv, SurbInv PROVE SpentSurbsAreGone
    BY Zenon
  <2>1. TrustedSurbs \subseteq Held(db.entry) /\ (TrustedSurbs # {} => ~db.clientInUse)
    BY Zenon DEF TrustedSurbs, Held, Trusts
  <2>2. TrustedSurbs \cap history.spent \subseteq history.doubled
    BY Zenon, <2>1 DEF SurbInv, DbInv, DbSafe
  <2> QED
    BY Zenon, <2>2 DEF SpentSurbsAreGone, SurbInv, MemInv, Held
<1> QED
  BY <1>1, SurbsInductive, PTL

\* The requester has, or is about to store, the key of every packet that is
\* under way and of every SURB the responder can still use, unless the SURB was
\* spent twice or the key outlived maximum_reply_key_age.
THEOREM KeysOutliveSurbs == Spec => []RepliesReadable
<1>1. SurbInv => RepliesReadable
  BY Zenon DEF SurbInv, NetInv, MemInv, Readable, Keyed, Unstored, RepliesReadable, Held
<1> QED
  BY <1>1, SurbsInductive, PTL
=============================================================================
