-------------------------- MODULE AckControlProofs --------------------------
(* The inductive invariant of AckControl and the theorems, for every set of *)
(* fragments, every slab of timers and every number of attempts.            *)
EXTENDS AckControl, TLAPS

\* Time for the leaves that expand much.
USE SMTT(30), ZenonT(30)

-----------------------------------------------------------------------------
(* Every step keeps the shape of the state, and what sending and taking     *)
(* an Action changes in the channel.                                        *)

\* Sending one Action (the listeners' unbounded_send to the ActionController)
\* keeps its channel a sequence of Actions.
LEMMA PushType ==
    ASSUME TypeOK, NEW f \in Frag, NEW type \in ActionType, NEW n \in Nat,
           type # "RemovePending" => n > 0, Push(f, type, n)
    PROVE  actions' \in [Frag -> Seq(Action)]
<1>1. actions[f] \in Seq(Action) /\ [type |-> type, att |-> n] \in Action
  BY Zenon DEF TypeOK, Action
<1>2. Append(actions[f], [type |-> type, att |-> n]) \in Seq(Action)
  BY <1>1
<1> QED
  BY Zenon, <1>2 DEF Push, TypeOK

\* So does insert_pending_acks, which sends one Action per chunk of a batch.
LEMMA PushBatchType ==
    ASSUME TypeOK, NEW b \in Batch, NEW type \in ActionType, PushBatch(b, type)
    PROVE  actions' \in [Frag -> Seq(Action)]
<1>1. \A f \in Frag : actions[f] \in Seq(Action)
  BY Zenon DEF TypeOK
<1>2. \A f \in Frag : b[f] > 0 => [type |-> type, att |-> b[f]] \in Action
  BY Zenon DEF Action, Batch
<1>3. ASSUME NEW f \in Frag, b[f] > 0
      PROVE  Append(actions[f], [type |-> type, att |-> b[f]]) \in Seq(Action)
  BY <1>1, <1>2, <1>3
<1> QED
  BY Zenon, <1>1, <1>3 DEF PushBatch

\* A task that moves to another await point with a batch stays well-typed.
LEMMA GotoType ==
    ASSUME TypeOK, NEW t \in Task, NEW where \in Pc, NEW b \in Batch,
           Goto(t, where, b)
    PROVE  pc' \in [Task -> Pc] /\ batch' \in [Task -> Batch]
  BY Zenon DEF Goto, TypeOK

\* The batches the tasks build (none, one chunk) and the packets of a batch that
\* forward_messages hands to OutQueueControl have the types of the state.
LEMMA BatchType ==
    /\ Nothing \in Batch
    /\ \A f \in Frag, n \in Nat : Only(f, n) \in Batch
    /\ \A b \in Batch : Packets(b) \subseteq Ref
  BY DEF Nothing, Only, Packets, Batch, Ref

\* Taking the next Action off the channel (ActionController::run) leaves a channel
\* of Actions, and what was taken is an Action.
LEMMA NextActionType ==
    ASSUME TypeOK, NEW f \in Frag, NEW type, NextAction(f, type)
    PROVE  /\ actions' \in [Frag -> Seq(Action)]
           /\ Head(actions[f]) \in Action
<1>1. actions[f] \in Seq(Action) /\ actions[f] # << >>
  BY Zenon DEF NextAction, TypeOK
<1>2. Head(actions[f]) \in Action /\ Tail(actions[f]) \in Seq(Action)
  BY <1>1
<1> QED
  BY Zenon, <1>2 DEF NextAction, TypeOK

\* Every step keeps the shape of the state.
LEMMA TypeStep ==
    ASSUME TypeOK, Next PROVE TypeOK'
<1> USE DEF TypeOK, Batch, Ref, Pc, Task, ActionType, controllerVars, taskVars, outQueueVars
<1>1. ASSUME NEW f \in Frag, HandleInsert(f) PROVE TypeOK'
  <2>1. Head(actions[f]).att \in Nat
    BY <1>1, NextActionType, Zenon DEF HandleInsert, Action
  <2> QED
    BY <1>1, <2>1, NextActionType, Zenon DEF HandleInsert, controllerUnchanged
<1>2. ASSUME NEW f \in Frag, HandleStartTimer(f) PROVE TypeOK'
  BY <1>2, NextActionType, Zenon DEF HandleStartTimer, controllerUnchanged
<1>3. ASSUME NEW f \in Frag, HandleRemove(f) PROVE TypeOK'
  BY <1>3, NextActionType, Zenon DEF HandleRemove, controllerUnchanged
<1>4. ASSUME NEW f \in Frag, HandleUpdateDelay(f) PROVE TypeOK'
  <2>1. Head(actions[f]).att \in Nat
    BY <1>4, NextActionType, Zenon DEF HandleUpdateDelay, Action
  <2> QED
    BY <1>4, <2>1, NextActionType, Zenon DEF HandleUpdateDelay, controllerUnchanged
<1>5. ASSUME NEW f \in Frag, TryUnwrapPanics(f) PROVE TypeOK'
  BY <1>5, Zenon DEF TryUnwrapPanics, controllerUnchanged, controllerVars
<1>6. ASSUME NEW k \in Key, HandleExpiredAckTimer(k) PROVE TypeOK'
  <2>1. timers[k] \in Frag
    BY Zenon, <1>6 DEF HandleExpiredAckTimer
  <2>2. delay[timers[k]] # 0 => [frag |-> timers[k], att |-> delay[timers[k]]] \in Ref
    BY Zenon, <2>1
  <2>3. retransmissions' \in SUBSET Ref
    BY <1>6, <2>2 DEF HandleExpiredAckTimer
  <2>4. queueKey' \in [Frag -> Key \cup {NoKey}] /\ timers' \in [Key -> Frag \cup {NoFrag}]
    BY <1>6, <2>1, Zenon DEF HandleExpiredAckTimer
  <2> QED
    BY <1>6, <2>3, <2>4, Zenon DEF HandleExpiredAckTimer, controllerUnchanged
<1>7. ASSUME NEW p \in network, OnAck(p) PROVE TypeOK'
  BY <1>7, PushType, Zenon DEF OnAck
<1>8. ASSUME NEW p \in sentChannel, OnSentMessage(p) PROVE TypeOK'
  <2>1. p.frag \in Frag /\ p.att \in Nat /\ p.att > 0
    OBVIOUS
  <2> QED
    BY <1>8, <2>1, PushType, Zenon DEF OnSentMessage
<1>9. ASSUME NEW r \in retransmissions, OnRetransmissionRequest(r) PROVE TypeOK'
  BY <1>9, GotoType, BatchType, ZenonT(30) DEF OnRetransmissionRequest, listenerUnchanged
<1>10. ASSUME ReleaseArc PROVE TypeOK'
  BY <1>10, GotoType, BatchType, Zenon DEF ReleaseArc, listenerUnchanged
<1>11. ASSUME NEW f \in Frag, RetransmissionPreparationFails(f) PROVE TypeOK'
  BY <1>11, GotoType, BatchType, PushType, Zenon DEF RetransmissionPreparationFails, listenerUnchanged
<1>12. ASSUME NEW f \in Frag, RetransmissionPrepared(f) PROVE TypeOK'
  <2> DEFINE n == batch["RetransmissionRequestListener"][f]
  <2>1. n \in Nat /\ n + 1 \in Nat /\ n + 1 > 0
    OBVIOUS
  <2>2. Only(f, n + 1) \in Batch
    BY <2>1, BatchType, Zenon
  <2> HIDE DEF n
  <2> QED
    BY <1>12, <2>1, <2>2, GotoType, BatchType, PushType, Zenon
    DEF RetransmissionPrepared, listenerUnchanged, n
<1>13. ASSUME NEW r \in replyRequests, HandleReplyRetransmission(r) PROVE TypeOK'
  BY <1>13, GotoType, BatchType, Zenon DEF HandleReplyRetransmission, replyUnchanged
<1>14. ASSUME NEW S \in SUBSET Anonymous, TryClearPendingRetransmission(S) PROVE TypeOK'
  <2> DEFINE live == [f \in Frag |->
                       IF f \in S /\ Upgrades([frag |-> f, att |-> surbless[f]])
                       THEN surbless[f] ELSE 0]
  <2>1. live \in Batch
    BY Zenon
  <2>2. surbless' \in Batch
    BY Zenon, <1>14 DEF TryClearPendingRetransmission
  <2> HIDE DEF live
  <2> QED
    BY <1>14, <2>1, <2>2, GotoType, Zenon
    DEF TryClearPendingRetransmission, replyUnchanged, live
<1>15. ASSUME ReplyPreparationFails PROVE TypeOK'
  BY <1>15, GotoType, BatchType, Zenon DEF ReplyPreparationFails, replyUnchanged
<1>16. ASSUME ReplyPrepared PROVE TypeOK'
  <2> DEFINE held == batch["ReplyController"]
             next == [f \in Frag |-> IF held[f] > 0 THEN held[f] + 1 ELSE 0]
  <2>1. next \in Batch
    OBVIOUS
  <2>2. /\ PushBatch(next, "UpdateDelay")
        /\ Goto("ReplyController", "forward", next)
    BY Zenon, <1>16 DEF ReplyPrepared
  <2> HIDE DEF next
  <2>3. actions' \in [Frag -> Seq(Action)]
    BY <2>1, <2>2, PushBatchType, Zenon
  <2>4. pc' \in [Task -> Pc] /\ batch' \in [Task -> Batch]
    BY <2>1, <2>2, GotoType, Zenon
  <2> QED
    BY <1>16, <2>3, <2>4, Zenon DEF ReplyPrepared, replyUnchanged
<1>17. ASSUME NEW S \in SUBSET todo, TrySplitAndSendNonReplyMessage(S) PROVE TypeOK'
  <2> DEFINE first == [f \in Frag |-> IF f \in S THEN 1 ELSE 0]
  <2>1. first \in Batch
    BY Zenon
  <2>2. \/ /\ PushBatch(first, "InsertPending")
           /\ Goto("InputMessageListener", "forward", first)
        \/ UNCHANGED <<actions, pc, batch>>
    BY Zenon, <1>17 DEF TrySplitAndSendNonReplyMessage
  <2> HIDE DEF first
  <2>3. actions' \in [Frag -> Seq(Action)]
    BY <2>1, <2>2, PushBatchType, Zenon
  <2>4. pc' \in [Task -> Pc] /\ batch' \in [Task -> Batch]
    BY <2>1, <2>2, GotoType, Zenon
  <2> QED
    BY <1>17, <2>3, <2>4, Zenon DEF TrySplitAndSendNonReplyMessage
<1>18. ASSUME NEW S \in SUBSET todo, TrySendReplyChunks(S) PROVE TypeOK'
  <2> DEFINE first == [f \in Frag |-> IF f \in S THEN 1 ELSE 0]
  <2>1. first \in Batch
    BY Zenon
  <2>2. Goto("ReplyController", "forward", first)
    BY Zenon, <1>18 DEF TrySendReplyChunks
  <2> HIDE DEF first
  <2>3. pc' \in [Task -> Pc] /\ batch' \in [Task -> Batch]
    BY <2>1, <2>2, GotoType, Zenon
  <2> QED
    BY <1>18, <2>3, Zenon DEF TrySendReplyChunks
<1>19. ASSUME NEW t \in Task, ForwardMessages(t) PROVE TypeOK'
  BY <1>19, GotoType, BatchType, Zenon DEF ForwardMessages
<1>20. ASSUME InsertPendingAcks PROVE TypeOK'
  BY <1>20, GotoType, BatchType, PushBatchType, Zenon DEF InsertPendingAcks
<1>21. ASSUME NEW p \in buffer \cup Packets(realChannel), PollNextAndSend(p) PROVE TypeOK'
  BY <1>21, BatchType, Zenon DEF PollNextAndSend
<1>22. ASSUME NEW stale \in SUBSET StaleLanes, SentNotify(stale) PROVE TypeOK'
  <2> DEFINE pruned == {p \in buffer : LaneOf(p) \in stale}
  <2>1. {p.frag : p \in pruned} \subseteq Frag
    OBVIOUS
  <2> HIDE DEF pruned
  <2> QED
    BY <1>22, <2>1, Zenon DEF SentNotify, pruned
<1>23. ASSUME OnCloseConnection PROVE TypeOK'
  <2> DEFINE closed == {p \in buffer : LaneOf(p) = "ConnectionId"}
  <2>1. {p.frag : p \in closed} \subseteq Frag
    OBVIOUS
  <2> HIDE DEF closed
  <2> QED
    BY <1>23, <2>1, Zenon DEF OnCloseConnection, closed
<1>24. ASSUME NEW p \in network, Lose(p) PROVE TypeOK'
  BY <1>24, Zenon DEF Lose
<1> QED
  BY <1>1, <1>2, <1>3, <1>4, <1>5, <1>6, <1>7, <1>8, <1>9, <1>10, <1>11, <1>12, <1>13, <1>14, <1>15, <1>16, <1>17, <1>18, <1>19, <1>20, <1>21, <1>22, <1>23, <1>24, ZenonT(30) DEF Next, ControllerNext, ListenerNext, ReplyNext, SendNext

-----------------------------------------------------------------------------
(* What is queued for the ActionController.                                *)

\* The places between which the tasks hand a transmission on.
LEMMA PlaceNames ==
    /\ "InputMessageListener" \in Place /\ "RetransmissionRequestListener" \in Place
    /\ "ReplyController" \in Place /\ "todo" \in Place /\ "channel" \in Place
    /\ "buffer" \in Place /\ "sending" \in Place /\ "sent" \in Place
    /\ "action" \in Place /\ "timer" \in Place /\ "expired" \in Place
    /\ "reply" \in Place /\ "surbless" \in Place
BY Zenon DEF Place, Task

\* What it means for the next transmission of a fragment to be in each of them.
LEMMA InPlace ==
    ASSUME NEW g \in Frag
    PROVE  /\ \A t \in Task : In(t, g) <=> pc[t] \in {"prepare", "clear", "forward"} /\ batch[t][g] > 0
           /\ In("todo", g) <=> g \in todo
           /\ In("channel", g) <=> realChannel[g] > 0
           /\ In("buffer", g) <=> Among(buffer, g)
           /\ In("sending", g) <=> Among(sending, g)
           /\ In("sent", g) <=> Among(sentChannel, g)
           /\ In("action", g) <=> Queued(g, "StartTimer")
           /\ In("timer", g) <=> queueKey[g] # NoKey
           /\ In("expired", g) <=> Among(retransmissions, g)
           /\ In("reply", g) <=> Among(replyRequests, g)
           /\ In("surbless", g) <=> surbless[g] > 0
BY Zenon DEF In, Task

\* ... and after a step.
LEMMA InPlaceNext ==
    ASSUME NEW g \in Frag
    PROVE  /\ \A t \in Task : In(t, g)' <=> pc'[t] \in {"prepare", "clear", "forward"} /\ batch'[t][g] > 0
           /\ In("todo", g)' <=> g \in todo'
           /\ In("channel", g)' <=> realChannel'[g] > 0
           /\ In("buffer", g)' <=> Among(buffer, g)'
           /\ In("sending", g)' <=> Among(sending, g)'
           /\ In("sent", g)' <=> Among(sentChannel, g)'
           /\ In("action", g)' <=> Queued(g, "StartTimer")'
           /\ In("timer", g)' <=> queueKey'[g] # NoKey
           /\ In("expired", g)' <=> Among(retransmissions, g)'
           /\ In("reply", g)' <=> Among(replyRequests, g)'
           /\ In("surbless", g)' <=> surbless'[g] > 0
BY Zenon DEF In, Task

\* After an Action was sent, exactly that kind for that fragment is queued in
\* addition, and it is queued once if it was not queued before.
LEMMA PushQueued ==
    ASSUME TypeOK, NEW f \in Frag, NEW type \in ActionType, NEW n \in Nat,
           type # "RemovePending" => n > 0,
           Push(f, type, n), NEW g \in Frag, NEW ty \in ActionType
    PROVE  /\ Queued(g, ty)' <=> Queued(g, ty) \/ (g = f /\ ty = type)
           /\ QueuedOnce(g, ty) /\ (g = f /\ ty = type => ~Queued(g, ty))
                => QueuedOnce(g, ty)'
<1> DEFINE e == [type |-> type, att |-> n]
<1>1. CASE g = f
  <2>1. actions[f] \in Seq(Action) /\ e \in Action
    BY Zenon DEF TypeOK, Action
  <2>2. actions'[f] = Append(actions[f], e)
    BY Zenon DEF Push, TypeOK
  <2>3. /\ DOMAIN actions'[f] = 1 .. Len(actions[f]) + 1
        /\ DOMAIN actions[f] = 1 .. Len(actions[f])
        /\ Len(actions[f]) \in Nat
        /\ actions'[f][Len(actions[f]) + 1] = e
        /\ \A i \in 1 .. Len(actions[f]) : actions'[f][i] = actions[f][i]
    BY <2>1, <2>2
  <2>4. e.type = type
    BY Zenon
  <2> HIDE DEF e
  <2>5. \A i \in DOMAIN actions'[f] :
          \/ i \in DOMAIN actions[f] /\ actions'[f][i] = actions[f][i]
          \/ i = Len(actions[f]) + 1 /\ actions'[f][i].type = type
    BY <2>3, <2>4
  <2>6. Len(actions[f]) + 1 \in DOMAIN actions'[f]
    BY <2>3
  <2>7. \A i \in DOMAIN actions[f] : i \in DOMAIN actions'[f]
    BY <2>3
  <2>8. Queued(f, ty)' <=> Queued(f, ty) \/ ty = type
    <3>1. Queued(f, ty)' => Queued(f, ty) \/ ty = type
      BY Zenon, <2>5 DEF Queued
    <3>2. Queued(f, ty) => Queued(f, ty)'
      <4>1. \A i \in DOMAIN actions[f] : actions'[f][i] = actions[f][i]
        BY Zenon, <2>3
      <4> QED
        BY Zenon, <2>7, <4>1 DEF Queued
    <3>3. ty = type => Queued(f, ty)'
      BY Zenon, <2>3, <2>4, <2>6 DEF Queued
    <3> QED
      BY Zenon, <3>1, <3>2, <3>3
  <2>9. QueuedOnce(f, ty) /\ (ty = type => ~Queued(f, ty)) => QueuedOnce(f, ty)'
    BY Zenon, <2>5 DEF Queued, QueuedOnce
  <2> QED
    BY Zenon, <1>1, <2>8, <2>9
<1>2. CASE g # f
  <2>1. actions'[g] = actions[g]
    BY Zenon, <1>2 DEF Push, TypeOK
  <2> QED
    BY Zenon, <1>2, <2>1 DEF Queued, QueuedOnce
<1> QED
  BY Zenon, <1>1, <1>2

\* The same for the Actions of a batch (insert_pending_acks, the UpdateDelays of
\* a cleared reply queue): only the fragments of the batch gain one.
LEMMA PushBatchQueued ==
    ASSUME TypeOK, NEW b \in Batch, NEW type \in ActionType,
           PushBatch(b, type), NEW g \in Frag, NEW ty \in ActionType
    PROVE  /\ Queued(g, ty)' <=> Queued(g, ty) \/ (b[g] > 0 /\ ty = type)
           /\ QueuedOnce(g, ty) /\ (b[g] > 0 /\ ty = type => ~Queued(g, ty))
                => QueuedOnce(g, ty)'
<1> DEFINE e == [type |-> type, att |-> b[g]]
<1>1. CASE b[g] > 0
  <2>1. actions[g] \in Seq(Action) /\ e \in Action
    BY Zenon, <1>1 DEF TypeOK, Action, Batch
  <2>2. actions'[g] = Append(actions[g], e)
    BY Zenon, <1>1 DEF PushBatch
  <2>3. /\ DOMAIN actions'[g] = 1 .. Len(actions[g]) + 1
        /\ DOMAIN actions[g] = 1 .. Len(actions[g])
        /\ Len(actions[g]) \in Nat
        /\ actions'[g][Len(actions[g]) + 1] = e
        /\ \A i \in 1 .. Len(actions[g]) : actions'[g][i] = actions[g][i]
    BY <2>1, <2>2
  <2>4. e.type = type
    BY Zenon
  <2> HIDE DEF e
  <2>5. \A i \in DOMAIN actions'[g] :
          \/ i \in DOMAIN actions[g] /\ actions'[g][i] = actions[g][i]
          \/ i = Len(actions[g]) + 1 /\ actions'[g][i].type = type
    BY <2>3, <2>4
  <2>6. Len(actions[g]) + 1 \in DOMAIN actions'[g]
    BY <2>3
  <2>7. \A i \in DOMAIN actions[g] : i \in DOMAIN actions'[g]
    BY <2>3
  <2>8. Queued(g, ty)' <=> Queued(g, ty) \/ ty = type
    <3>1. Queued(g, ty)' => Queued(g, ty) \/ ty = type
      BY Zenon, <2>5 DEF Queued
    <3>2. Queued(g, ty) => Queued(g, ty)'
      <4>1. \A i \in DOMAIN actions[g] : actions'[g][i] = actions[g][i]
        BY Zenon, <2>3
      <4> QED
        BY Zenon, <2>7, <4>1 DEF Queued
    <3>3. ty = type => Queued(g, ty)'
      BY Zenon, <2>3, <2>4, <2>6 DEF Queued
    <3> QED
      BY Zenon, <3>1, <3>2, <3>3
  <2>9. QueuedOnce(g, ty) /\ (ty = type => ~Queued(g, ty)) => QueuedOnce(g, ty)'
    BY Zenon, <2>5 DEF Queued, QueuedOnce
  <2> QED
    BY Zenon, <1>1, <2>8, <2>9
<1>2. CASE ~(b[g] > 0)
  <2>1. actions'[g] = actions[g]
    BY Zenon, <1>2 DEF PushBatch
  <2> QED
    BY Zenon, <1>2, <2>1 DEF Queued, QueuedOnce
<1> QED
  BY Zenon, <1>1, <1>2

\* ActionController::run takes an Action that was queued, adds none, and if it
\* was the only one of its kind for the fragment none is left.
LEMMA NextActionQueued ==
    ASSUME TypeOK, NEW f \in Frag, NEW type \in ActionType,
           NextAction(f, type), NEW g \in Frag, NEW ty \in ActionType
    PROVE  /\ Queued(f, type)
           /\ Queued(g, ty)' => Queued(g, ty)
           /\ QueuedOnce(g, ty) => QueuedOnce(g, ty)'
           /\ QueuedOnce(f, type) => ~Queued(f, type)'
<1>1. /\ actions[f] \in Seq(Action) /\ actions[f] # << >>
      /\ Head(actions[f]).type = type
      /\ actions'[f] = Tail(actions[f])
  BY Zenon DEF NextAction, TypeOK
<1>2. /\ Len(actions[f]) \in Nat /\ Len(actions[f]) > 0
      /\ DOMAIN actions[f] = 1 .. Len(actions[f])
      /\ DOMAIN actions'[f] = 1 .. Len(actions[f]) - 1
      /\ \A i \in 1 .. Len(actions[f]) - 1 : actions'[f][i] = actions[f][i + 1]
      /\ actions[f][1].type = type
  BY <1>1
<1>3. Queued(f, type)
  BY <1>2 DEF Queued
<1>a. \A i \in DOMAIN actions'[f] :
        /\ i + 1 \in DOMAIN actions[f]
        /\ i + 1 # 1
        /\ actions'[f][i] = actions[f][i + 1]
  BY <1>2
<1>b. 1 \in DOMAIN actions[f]
  BY <1>2
<1>c. DOMAIN actions'[f] \subseteq Nat
  BY <1>2
<1>4. QueuedOnce(f, type) => ~Queued(f, type)'
  BY Zenon, <1>2, <1>a, <1>b DEF Queued, QueuedOnce
<1>5. CASE g = f
  <2>1. Queued(f, ty)' => Queued(f, ty)
    BY Zenon, <1>a DEF Queued
  <2>2. QueuedOnce(f, ty) => QueuedOnce(f, ty)'
    <3> SUFFICES ASSUME QueuedOnce(f, ty),
                        NEW i \in DOMAIN actions'[f], NEW j \in DOMAIN actions'[f],
                        actions'[f][i].type = ty, actions'[f][j].type = ty
                 PROVE  i = j
      BY Zenon DEF QueuedOnce
    <3>1. i + 1 = j + 1
      BY Zenon, <1>a DEF QueuedOnce
    <3> QED
      BY <3>1, <1>c
  <2> QED
    BY Zenon, <1>3, <1>4, <1>5, <2>1, <2>2
<1>6. CASE g # f
  <2>1. actions'[g] = actions[g]
    BY Zenon, <1>6 DEF NextAction, TypeOK
  <2> QED
    BY Zenon, <1>3, <1>4, <2>1 DEF Queued, QueuedOnce
<1> QED
  BY Zenon, <1>5, <1>6

\* A step that leaves the ActionController's channel alone changes nothing about
\* what is queued in it.
LEMMA ActionsUnchanged ==
    ASSUME UNCHANGED actions, NEW g \in Frag, NEW ty \in ActionType
    PROVE  /\ Queued(g, ty)' <=> Queued(g, ty)
           /\ QueuedOnce(g, ty)' <=> QueuedOnce(g, ty)
  BY Zenon DEF Queued, QueuedOnce

\* A StartTimer is pushed only while no other one is queued.
LEMMA StartTimerStep ==
    ASSUME Inv, Next, NEW g \in Frag PROVE QueuedOnce(g, "StartTimer")'
<1> USE DEF controllerVars, taskVars, outQueueVars, ActionType
<1>t. TypeOK /\ InOnePlace(g) /\ QueuedOnce(g, "StartTimer")
  BY Zenon DEF Inv, OneTransmission
<1>1. ASSUME NEW f \in Frag, HandleInsert(f) PROVE QueuedOnce(g, "StartTimer")'
  BY <1>1, <1>t, NextActionQueued, Zenon DEF HandleInsert, controllerUnchanged, TypeOK, Batch, Ref
<1>2. ASSUME NEW f \in Frag, HandleStartTimer(f) PROVE QueuedOnce(g, "StartTimer")'
  BY <1>2, <1>t, NextActionQueued, Zenon DEF HandleStartTimer, controllerUnchanged, TypeOK, Batch, Ref
<1>3. ASSUME NEW f \in Frag, HandleRemove(f) PROVE QueuedOnce(g, "StartTimer")'
  BY <1>3, <1>t, NextActionQueued, Zenon DEF HandleRemove, controllerUnchanged, TypeOK, Batch, Ref
<1>4. ASSUME NEW f \in Frag, HandleUpdateDelay(f) PROVE QueuedOnce(g, "StartTimer")'
  BY <1>4, <1>t, NextActionQueued, Zenon DEF HandleUpdateDelay, controllerUnchanged, TypeOK, Batch, Ref
<1>5. ASSUME NEW f \in Frag, TryUnwrapPanics(f) PROVE QueuedOnce(g, "StartTimer")'
  BY Zenon, <1>5, <1>t, ActionsUnchanged DEF TryUnwrapPanics, controllerUnchanged, TypeOK, Batch, Ref
<1>6. ASSUME NEW k \in Key, HandleExpiredAckTimer(k) PROVE QueuedOnce(g, "StartTimer")'
  BY Zenon, <1>6, <1>t, ActionsUnchanged DEF HandleExpiredAckTimer, controllerUnchanged, TypeOK, Batch, Ref
<1>7. ASSUME NEW p \in network, OnAck(p) PROVE QueuedOnce(g, "StartTimer")'
  BY <1>7, <1>t, PushQueued, Zenon DEF OnAck, TypeOK, Batch, Ref
<1>8. ASSUME NEW p \in sentChannel, OnSentMessage(p) PROVE QueuedOnce(g, "StartTimer")'
  <2>1. p.frag \in Frag /\ p.att \in Nat /\ p.att > 0
    BY <1>t DEF TypeOK, Ref
  <2>2. g = p.frag => ~Queued(g, "StartTimer")
    BY <1>t DEF Place, Task, InOnePlace, In, Among
  <2> QED
    BY Zenon, <1>8, <1>t, <2>1, <2>2, PushQueued DEF OnSentMessage
<1>9. ASSUME NEW r \in retransmissions, OnRetransmissionRequest(r) PROVE QueuedOnce(g, "StartTimer")'
  BY Zenon, <1>9, <1>t, ActionsUnchanged DEF OnRetransmissionRequest, listenerUnchanged, TypeOK, Batch, Ref
<1>10. ASSUME ReleaseArc PROVE QueuedOnce(g, "StartTimer")'
  BY Zenon, <1>10, <1>t, ActionsUnchanged DEF ReleaseArc, listenerUnchanged, TypeOK, Batch, Ref
<1>11. ASSUME NEW f \in Frag, RetransmissionPreparationFails(f) PROVE QueuedOnce(g, "StartTimer")'
  <2> DEFINE n == batch["RetransmissionRequestListener"][f]
  <2>1. batch["RetransmissionRequestListener"] \in Batch
    BY Zenon, <1>t DEF Place, Task, TypeOK
  <2>2. n \in Nat /\ n > 0 /\ Push(f, "StartTimer", n)
    BY Zenon, <1>11, <2>1 DEF RetransmissionPreparationFails, Batch
  <2>3. g = f => ~Queued(g, "StartTimer")
    BY <1>11, <1>t DEF Place, Task, InOnePlace, In, RetransmissionPreparationFails
  <2> HIDE DEF n
  <2> QED
    BY Zenon, <1>t, <2>2, <2>3, PushQueued
<1>12. ASSUME NEW f \in Frag, RetransmissionPrepared(f) PROVE QueuedOnce(g, "StartTimer")'
  <2> DEFINE n == batch["RetransmissionRequestListener"][f]
  <2>1. batch["RetransmissionRequestListener"] \in Batch
    BY Zenon, <1>t DEF Place, Task, TypeOK
  <2>2. n + 1 \in Nat /\ n + 1 > 0
    BY <2>1 DEF Batch
  <2>3. Push(f, "UpdateDelay", n + 1) \/ UNCHANGED actions
    BY Zenon, <1>12 DEF RetransmissionPrepared
  <2> HIDE DEF n
  <2> QED
    BY Zenon, <1>t, <2>2, <2>3, PushQueued, ActionsUnchanged
<1>13. ASSUME NEW r \in replyRequests, HandleReplyRetransmission(r) PROVE QueuedOnce(g, "StartTimer")'
  BY Zenon, <1>13, <1>t, ActionsUnchanged DEF HandleReplyRetransmission, replyUnchanged, TypeOK, Batch, Ref
<1>14. ASSUME NEW S \in SUBSET Anonymous, TryClearPendingRetransmission(S) PROVE QueuedOnce(g, "StartTimer")'
  BY Zenon, <1>14, <1>t, ActionsUnchanged DEF TryClearPendingRetransmission, replyUnchanged, TypeOK, Batch, Ref
<1>15. ASSUME ReplyPreparationFails PROVE QueuedOnce(g, "StartTimer")'
  BY Zenon, <1>15, <1>t, ActionsUnchanged DEF ReplyPreparationFails, replyUnchanged, TypeOK, Batch, Ref
<1>16. ASSUME ReplyPrepared PROVE QueuedOnce(g, "StartTimer")'
  <2> DEFINE held == batch["ReplyController"]
             next == [f \in Frag |-> IF held[f] > 0 THEN held[f] + 1 ELSE 0]
  <2>1. held \in Batch
    BY Zenon, <1>t DEF Place, Task, TypeOK
  <2>2. next \in Batch
    BY <2>1 DEF Batch
  <2>3. PushBatch(next, "UpdateDelay")
    BY Zenon, <1>16 DEF ReplyPrepared
  <2> HIDE DEF next
  <2> QED
    BY Zenon, <1>t, <2>2, <2>3, PushBatchQueued
<1>17. ASSUME NEW S \in SUBSET todo, TrySplitAndSendNonReplyMessage(S) PROVE QueuedOnce(g, "StartTimer")'
  BY <1>17, <1>t, PushBatchQueued, ActionsUnchanged, Zenon DEF TrySplitAndSendNonReplyMessage, TypeOK, Batch, Ref
<1>18. ASSUME NEW S \in SUBSET todo, TrySendReplyChunks(S) PROVE QueuedOnce(g, "StartTimer")'
  BY Zenon, <1>18, <1>t, ActionsUnchanged DEF TrySendReplyChunks, TypeOK, Batch, Ref
<1>19. ASSUME NEW t \in Task, ForwardMessages(t) PROVE QueuedOnce(g, "StartTimer")'
  BY Zenon, <1>19, <1>t, ActionsUnchanged DEF ForwardMessages, TypeOK, Batch, Ref
<1>20. ASSUME InsertPendingAcks PROVE QueuedOnce(g, "StartTimer")'
  BY <1>20, <1>t, PushBatchQueued, Zenon DEF Place, Task, InsertPendingAcks, TypeOK, Batch, Ref
<1>21. ASSUME NEW p \in buffer \cup Packets(realChannel), PollNextAndSend(p) PROVE QueuedOnce(g, "StartTimer")'
  BY Zenon, <1>21, <1>t, ActionsUnchanged DEF PollNextAndSend, TypeOK, Batch, Ref
<1>22. ASSUME NEW stale \in SUBSET StaleLanes, SentNotify(stale) PROVE QueuedOnce(g, "StartTimer")'
  BY Zenon, <1>22, <1>t, ActionsUnchanged DEF SentNotify, TypeOK, Batch, Ref
<1>23. ASSUME OnCloseConnection PROVE QueuedOnce(g, "StartTimer")'
  BY Zenon, <1>23, <1>t, ActionsUnchanged DEF OnCloseConnection, TypeOK, Batch, Ref
<1>24. ASSUME NEW p \in network, Lose(p) PROVE QueuedOnce(g, "StartTimer")'
  BY Zenon, <1>24, <1>t, ActionsUnchanged DEF Lose, TypeOK, Batch, Ref
<1> QED
  BY Zenon, <1>1, <1>2, <1>3, <1>4, <1>5, <1>6, <1>7, <1>8, <1>9, <1>10, <1>11, <1>12, <1>13, <1>14, <1>15, <1>16, <1>17, <1>18, <1>19, <1>20, <1>21, <1>22, <1>23, <1>24
  DEF Next, ControllerNext, ListenerNext, ReplyNext, SendNext

\* No channel holds two references to one fragment.
LEMMA SingleStep ==
    ASSUME Inv, Next
    PROVE  /\ Single(buffer)' /\ Single(sending)' /\ Single(sentChannel)'
           /\ Single(retransmissions)' /\ Single(replyRequests)'
<1> USE DEF controllerVars, taskVars, outQueueVars
<1> DEFINE Goal == /\ Single(buffer) /\ Single(sending) /\ Single(sentChannel)
                   /\ Single(retransmissions) /\ Single(replyRequests)
<1>t. /\ Goal /\ \A g \in Frag : InOnePlace(g)
      /\ buffer \in SUBSET Ref
      /\ TypeOK /\ TimerKeysAgree
  BY Zenon DEF Inv, OneTransmission, TypeOK
<1>1. ASSUME NEW f \in Frag, HandleInsert(f) PROVE Goal'
  BY Zenon, <1>1, <1>t DEF HandleInsert, controllerUnchanged, Single, In, Among
<1>2. ASSUME NEW f \in Frag, HandleStartTimer(f) PROVE Goal'
  BY Zenon, <1>2, <1>t DEF HandleStartTimer, controllerUnchanged, Single, In, Among
<1>3. ASSUME NEW f \in Frag, HandleRemove(f) PROVE Goal'
  BY Zenon, <1>3, <1>t DEF HandleRemove, controllerUnchanged, Single, In, Among
<1>4. ASSUME NEW f \in Frag, HandleUpdateDelay(f) PROVE Goal'
  BY Zenon, <1>4, <1>t DEF HandleUpdateDelay, controllerUnchanged, Single, In, Among
<1>5. ASSUME NEW f \in Frag, TryUnwrapPanics(f) PROVE Goal'
  BY Zenon, <1>5, <1>t DEF TryUnwrapPanics, controllerUnchanged, Single, In, Among
<1>6. ASSUME NEW k \in Key, HandleExpiredAckTimer(k) PROVE Goal'
  <2>1. timers[k] \in Frag
    BY Zenon, <1>6, <1>t DEF HandleExpiredAckTimer, TypeOK
  <2>2. queueKey[timers[k]] # NoKey
    BY Zenon, <1>t, <2>1, ConstantsAssumption DEF TimerKeysAgree
  <2>3. ~Among(retransmissions, timers[k])
    BY <1>t, <2>1, <2>2 DEF Place, Task, InOnePlace, In
  <2> QED
    BY <1>6, <1>t, <2>3 DEF HandleExpiredAckTimer, controllerUnchanged, Single, Among
<1>7. ASSUME NEW p \in network, OnAck(p) PROVE Goal'
  BY Zenon, <1>7, <1>t DEF OnAck, Single, In, Among
<1>8. ASSUME NEW p \in sentChannel, OnSentMessage(p) PROVE Goal'
  BY Zenon, <1>8, <1>t DEF OnSentMessage, Single, In, Among
<1>9. ASSUME NEW r \in retransmissions, OnRetransmissionRequest(r) PROVE Goal'
  <2>1. r.frag \in Frag /\ Among(retransmissions, r.frag)
    BY Zenon, <1>t DEF TypeOK, Ref, Among
  <2>2. ~Among(replyRequests, r.frag)
    BY Zenon, <1>t, <2>1 DEF Place, Task, InOnePlace, In
  <2> QED
    BY Zenon, <1>9, <1>t, <2>2 DEF OnRetransmissionRequest, listenerUnchanged, Single, Among
<1>10. ASSUME ReleaseArc PROVE Goal'
  BY Zenon, <1>10, <1>t DEF ReleaseArc, listenerUnchanged, Single, In, Among
<1>11. ASSUME NEW f \in Frag, RetransmissionPreparationFails(f) PROVE Goal'
  BY Zenon, <1>11, <1>t DEF RetransmissionPreparationFails, listenerUnchanged, Single, In, Among
<1>12. ASSUME NEW f \in Frag, RetransmissionPrepared(f) PROVE Goal'
  BY Zenon, <1>12, <1>t DEF RetransmissionPrepared, listenerUnchanged, Single, In, Among
<1>13. ASSUME NEW r \in replyRequests, HandleReplyRetransmission(r) PROVE Goal'
  BY Zenon, <1>13, <1>t DEF HandleReplyRetransmission, replyUnchanged, Single, In, Among
<1>14. ASSUME NEW S \in SUBSET Anonymous, TryClearPendingRetransmission(S) PROVE Goal'
  BY Zenon, <1>14, <1>t DEF TryClearPendingRetransmission, replyUnchanged, Single, In, Among
<1>15. ASSUME ReplyPreparationFails PROVE Goal'
  BY Zenon, <1>15, <1>t DEF ReplyPreparationFails, replyUnchanged, Single, In, Among
<1>16. ASSUME ReplyPrepared PROVE Goal'
  BY Zenon, <1>16, <1>t DEF ReplyPrepared, replyUnchanged, Single, In, Among
<1>17. ASSUME NEW S \in SUBSET todo, TrySplitAndSendNonReplyMessage(S) PROVE Goal'
  BY Zenon, <1>17, <1>t DEF TrySplitAndSendNonReplyMessage, Single, In, Among
<1>18. ASSUME NEW S \in SUBSET todo, TrySendReplyChunks(S) PROVE Goal'
  BY Zenon, <1>18, <1>t DEF TrySendReplyChunks, Single, In, Among
<1>19. ASSUME NEW t \in Task, ForwardMessages(t) PROVE Goal'
  BY Zenon, <1>19, <1>t DEF ForwardMessages, Single, In, Among
<1>20. ASSUME InsertPendingAcks PROVE Goal'
  BY Zenon, <1>20, <1>t DEF InsertPendingAcks, Single, In, Among
<1>21. ASSUME NEW p \in buffer \cup Packets(realChannel), PollNextAndSend(p) PROVE Goal'
  <2>1. \A f \in Frag : realChannel[f] > 0 => ~Among(buffer, f)
    BY <1>t DEF Place, Task, InOnePlace, In
  <2>2. Single(buffer)'
    BY <1>21, <1>t, <2>1 DEF PollNextAndSend, Single, Among, Packets
  <2> QED
    BY Zenon, <1>21, <1>t, <2>2 DEF PollNextAndSend, Single
<1>22. ASSUME NEW stale \in SUBSET StaleLanes, SentNotify(stale) PROVE Goal'
  <2>1. \A r \in sending : r.frag \in Frag /\ ~Among(sentChannel, r.frag)
    BY <1>t DEF Place, Task, InOnePlace, In, Among, TypeOK, Ref
  <2>2. Single(sentChannel)'
    BY Zenon, <1>22, <1>t, <2>1 DEF SentNotify, Single, Among
  <2>3. Single(buffer)' /\ Single(sending)'
    BY Zenon, <1>22, <1>t DEF SentNotify, Single
  <2> QED
    BY Zenon, <1>22, <1>t, <2>2, <2>3 DEF SentNotify
<1>23. ASSUME OnCloseConnection PROVE Goal'
  BY Zenon, <1>23, <1>t DEF OnCloseConnection, Single, In, Among
<1>24. ASSUME NEW p \in network, Lose(p) PROVE Goal'
  BY Zenon, <1>24, <1>t DEF Lose, Single, In, Among
<1> QED
  BY Zenon, <1>1, <1>2, <1>3, <1>4, <1>5, <1>6, <1>7, <1>8, <1>9, <1>10, <1>11, <1>12, <1>13, <1>14, <1>15, <1>16, <1>17, <1>18, <1>19, <1>20, <1>21, <1>22, <1>23, <1>24
  DEF Next, ControllerNext, ListenerNext, ReplyNext, SendNext

-----------------------------------------------------------------------------
(* The next transmission of a fragment is in one place: the tasks of the    *)
(* client only hand it on.  First the ActionController and the listeners.    *)

\* A step that brings fragment g to no new place keeps its next transmission in
\* at most one place.
LEMMA Stays ==
    ASSUME NEW g \in Frag, InOnePlace(g),
           \A q \in Place : In(q, g)' => In(q, g)
    PROVE  InOnePlace(g)'
  BY Zenon DEF InOnePlace, Place, Task

\* A step that takes g's next transmission out of the place it was in and puts it
\* into another one keeps it in one place: the hand-over between two tasks.
LEMMA Moves ==
    ASSUME NEW g \in Frag, InOnePlace(g), NEW src \in Place, NEW dst \in Place,
           \A q \in Place : In(q, g)' => In(q, g) \/ q = dst,
           In(src, g),
           In(src, g)' => src = dst
    PROVE  InOnePlace(g)'
  BY DEF InOnePlace, Place, Task

\* No fragment is brought to a second place by a step of the ActionController.
LEMMA PlaceController ==
    ASSUME Inv, TypeOK', ControllerNext, NEW g \in Frag PROVE InOnePlace(g)'
<1> USE DEF controllerVars, taskVars, outQueueVars, ActionType
<1>t. TypeOK /\ TypeOK' /\ InOnePlace(g) /\ OneTransmission /\ TimerKeysAgree
  BY Zenon DEF Inv, OneTransmission
<1>p. InOnePlace(g)
  BY Zenon, <1>t
<1>o. OneTransmission
  BY Zenon, <1>t
<1>s. /\ pc \in [Task -> Pc] /\ batch \in [Task -> Batch]
      /\ surbless \in Batch /\ queueKey \in [Frag -> Key \cup {NoKey}]
  BY Zenon, <1>t DEF TypeOK
<1>1. ASSUME NEW f \in Frag, HandleInsert(f) PROVE InOnePlace(g)'
  <2>1. Queued(g, "StartTimer")' => Queued(g, "StartTimer")
    BY Zenon, <1>1, <1>t, NextActionQueued DEF HandleInsert, controllerUnchanged
  <2>2. \A q \in Place : In(q, g)' => In(q, g)
    BY Zenon, <1>1, <1>s, <2>1 DEF HandleInsert, controllerUnchanged, Goto, In, Among
  <2> QED
    BY ZenonT(30), <1>p, <2>2, Stays
<1>2. ASSUME NEW f \in Frag, HandleStartTimer(f) PROVE InOnePlace(g)'
  <2>1. Queued(g, "StartTimer")' => Queued(g, "StartTimer")
    BY Zenon, <1>2, <1>t, NextActionQueued DEF HandleStartTimer, controllerUnchanged
  <2>2. CASE g = f
    <3>1. \A q \in Place : In(q, g)' => In(q, g) \/ q = "timer"
      BY Zenon, <1>2, <1>s, <2>1, <2>2 DEF HandleStartTimer, controllerUnchanged, Goto, In, Among
    <3>2. In("action", g)
      BY Zenon, <1>2, <1>t, <2>2, NextActionQueued DEF HandleStartTimer, In
    <3>3. ~In("action", g)'
      BY Zenon, <1>2, <1>t, <2>2, NextActionQueued DEF Place, Task, HandleStartTimer, In, OneTransmission
    <3> QED
      BY ZenonT(30), <1>p, <3>1, <3>2, <3>3, Moves, PlaceNames
  <2>3. CASE ~(g = f)
    <3>1. \A q \in Place : In(q, g)' => In(q, g)
      BY Zenon, <1>2, <1>s, <2>1, <2>3 DEF HandleStartTimer, controllerUnchanged, Goto, In, Among
    <3> QED
      BY ZenonT(30), <1>p, <3>1, Stays
  <2> QED
    BY Zenon, <2>2, <2>3
<1>3. ASSUME NEW f \in Frag, HandleRemove(f) PROVE InOnePlace(g)'
  <2>1. Queued(g, "StartTimer")' => Queued(g, "StartTimer")
    BY Zenon, <1>3, <1>t, NextActionQueued DEF HandleRemove, controllerUnchanged
  <2>2. \A q \in Place : In(q, g)' => In(q, g)
    BY Zenon, <1>3, <1>s, <2>1 DEF HandleRemove, controllerUnchanged, Goto, In, Among
  <2> QED
    BY ZenonT(30), <1>p, <2>2, Stays
<1>4. ASSUME NEW f \in Frag, HandleUpdateDelay(f) PROVE InOnePlace(g)'
  <2>1. Queued(g, "StartTimer")' => Queued(g, "StartTimer")
    BY Zenon, <1>4, <1>t, NextActionQueued DEF HandleUpdateDelay, controllerUnchanged
  <2>2. \A q \in Place : In(q, g)' => In(q, g)
    BY Zenon, <1>4, <1>s, <2>1 DEF HandleUpdateDelay, controllerUnchanged, Goto, In, Among
  <2> QED
    BY ZenonT(30), <1>p, <2>2, Stays
<1>5. ASSUME NEW f \in Frag, TryUnwrapPanics(f) PROVE InOnePlace(g)'
  <2>1. Queued(g, "StartTimer")' => Queued(g, "StartTimer")
    BY Zenon, <1>5, <1>t, ActionsUnchanged DEF TryUnwrapPanics, controllerUnchanged
  <2>2. \A q \in Place : In(q, g)' => In(q, g)
    BY Zenon, <1>5, <1>s, <2>1 DEF TryUnwrapPanics, controllerUnchanged, Goto, In, Among
  <2> QED
    BY ZenonT(30), <1>p, <2>2, Stays
<1>6. ASSUME NEW k \in Key, HandleExpiredAckTimer(k) PROVE InOnePlace(g)'
  <2>1. Queued(g, "StartTimer")' => Queued(g, "StartTimer")
    BY Zenon, <1>6, <1>t, ActionsUnchanged DEF HandleExpiredAckTimer, controllerUnchanged
  <2>2. CASE g = timers[k]
    <3>1. \A q \in Place : In(q, g)' => In(q, g) \/ q = "expired"
      BY Zenon, <1>6, <1>s, <2>1, <2>2 DEF HandleExpiredAckTimer, controllerUnchanged, Goto, In, Among
    <3>4. queueKey[g] = k /\ queueKey[g] # NoKey /\ delay[g] # 0
      BY <1>t, <2>2, ConstantsAssumption DEF TimerKeysAgree, TypeOK, Batch
    <3>2. In("timer", g)
      BY Zenon, <3>4 DEF In
    <3>3. ~In("timer", g)'
      BY Zenon, <1>6, <1>t, <2>2, <3>4 DEF Place, Task, HandleExpiredAckTimer, In, TypeOK
    <3> QED
      BY ZenonT(30), <1>p, <3>1, <3>2, <3>3, Moves, PlaceNames
  <2>3. CASE ~(g = timers[k])
    <3>2. UNCHANGED <<todo, pc, batch, realChannel, buffer, sending, sentChannel,
                      replyRequests, surbless>>
      BY Zenon, <1>6 DEF HandleExpiredAckTimer, controllerUnchanged
    <3>3. queueKey'[g] = queueKey[g] /\ (Among(retransmissions, g)' => Among(retransmissions, g))
      <4>1. \/ UNCHANGED <<queueKey, retransmissions>>
            \/ \E n : /\ queueKey' = [queueKey EXCEPT ![timers[k]] = NoKey]
                      /\ retransmissions' = retransmissions \cup {[frag |-> timers[k], att |-> n]}
        BY ZenonT(30), <1>6 DEF HandleExpiredAckTimer
      <4> QED
        BY <1>s, <2>3, <4>1 DEF Among
    <3>1. \A q \in Place : In(q, g)' => In(q, g)
      BY Zenon, <2>1, <3>2, <3>3 DEF In, Among
    <3> QED
      BY ZenonT(30), <1>p, <3>1, Stays
  <2> QED
    BY Zenon, <2>2, <2>3
<1> QED
  BY Zenon, <1>1, <1>2, <1>3, <1>4, <1>5, <1>6 DEF ControllerNext

\* No fragment is brought to a second place by a step of the acknowledgement,
\* sent-notification and retransmission listeners.
LEMMA PlaceListener ==
    ASSUME Inv, TypeOK', ListenerNext, NEW g \in Frag PROVE InOnePlace(g)'
<1> USE DEF controllerVars, taskVars, outQueueVars, ActionType
<1>t. TypeOK /\ TypeOK' /\ InOnePlace(g) /\ OneTransmission /\ TimerKeysAgree
  BY Zenon DEF Inv, OneTransmission
<1>p. InOnePlace(g)
  BY Zenon, <1>t
<1>o. OneTransmission
  BY Zenon, <1>t
<1>s. /\ pc \in [Task -> Pc] /\ batch \in [Task -> Batch]
      /\ surbless \in Batch /\ queueKey \in [Frag -> Key \cup {NoKey}]
  BY Zenon, <1>t DEF TypeOK
<1>7. ASSUME NEW p \in network, OnAck(p) PROVE InOnePlace(g)'
  <2>1. Queued(g, "StartTimer")' => Queued(g, "StartTimer")
    BY <1>7, <1>t, PushQueued, ZenonT(30) DEF OnAck, TypeOK, Ref
  <2>2. \A q \in Place : In(q, g)' => In(q, g)
    BY Zenon, <1>7, <1>s, <2>1 DEF OnAck, Goto, In, Among
  <2> QED
    BY ZenonT(30), <1>p, <2>2, Stays
<1>8. ASSUME NEW p \in sentChannel, OnSentMessage(p) PROVE InOnePlace(g)'
  <2>1. Queued(g, "StartTimer")' => Queued(g, "StartTimer") \/ g = p.frag
    <3>1. p.frag \in Frag /\ p.att \in Nat /\ p.att > 0
      BY <1>t DEF TypeOK, Ref
    <3> QED
      BY Zenon, <1>8, <1>t, <3>1, PushQueued DEF OnSentMessage
  <2>2. CASE g = p.frag
    <3>1. \A q \in Place : In(q, g)' => In(q, g) \/ q = "action"
      BY Zenon, <1>8, <1>s, <2>1, <2>2 DEF OnSentMessage, Goto, In, Among
    <3>2. In("sent", g)
      BY Zenon, <1>8, <2>2 DEF OnSentMessage, In, Among
    <3>3. ~In("sent", g)'
      BY Zenon, <1>8, <1>o, <2>2 DEF Place, Task, OnSentMessage, In, Among, OneTransmission, Single
    <3> QED
      BY ZenonT(30), <1>p, <3>1, <3>2, <3>3, Moves, PlaceNames
  <2>3. CASE ~(g = p.frag)
    <3>1. \A q \in Place : In(q, g)' => In(q, g)
      BY Zenon, <1>8, <1>s, <2>1, <2>3 DEF OnSentMessage, Goto, In, Among
    <3> QED
      BY ZenonT(30), <1>p, <3>1, Stays
  <2> QED
    BY Zenon, <2>2, <2>3
<1>9. ASSUME NEW r \in retransmissions, OnRetransmissionRequest(r) PROVE InOnePlace(g)'
  <2>1. Queued(g, "StartTimer")' => Queued(g, "StartTimer")
    BY Zenon, <1>9, <1>t, ActionsUnchanged DEF OnRetransmissionRequest, listenerUnchanged
  <2>2. CASE g = r.frag /\ g \in Anonymous
    <3>1. \A q \in Place : In(q, g)' => In(q, g) \/ q = "reply"
      BY <1>9, <1>s, <2>1, <2>2 DEF OnRetransmissionRequest, listenerUnchanged, Goto, In, Among
    <3>2. In("expired", g)
      BY Zenon, <1>9, <2>2 DEF OnRetransmissionRequest, In, Among
    <3>3. ~In("expired", g)'
      BY Zenon, <1>9, <1>o, <2>2 DEF Place, Task, OnRetransmissionRequest, In, Among, OneTransmission, Single
    <3> QED
      BY ZenonT(30), <1>p, <3>1, <3>2, <3>3, Moves, PlaceNames
  <2>3. CASE g = r.frag /\ g \notin Anonymous
    <3>1. \A q \in Place : In(q, g)' => In(q, g) \/ q = "RetransmissionRequestListener"
      BY Zenon, <1>9, <1>s, <2>1, <2>3 DEF OnRetransmissionRequest, listenerUnchanged, Goto, In, Among
    <3>2. In("expired", g)
      BY Zenon, <1>9, <2>3 DEF OnRetransmissionRequest, In, Among
    <3>3. ~In("expired", g)'
      BY Zenon, <1>9, <1>o, <2>3 DEF Place, Task, OnRetransmissionRequest, In, Among, OneTransmission, Single
    <3> QED
      BY ZenonT(30), <1>p, <3>1, <3>2, <3>3, Moves, PlaceNames
  <2>4. CASE ~(g = r.frag /\ g \in Anonymous) /\ ~(g = r.frag /\ g \notin Anonymous)
    <3>1. \A q \in Place : In(q, g)' => In(q, g)
      BY <1>9, <1>s, <2>1, <2>4 DEF OnRetransmissionRequest, Only, listenerUnchanged, Goto, In, Among
    <3> QED
      BY ZenonT(30), <1>p, <3>1, Stays
  <2> QED
    BY Zenon, <2>2, <2>3, <2>4
<1>10. ASSUME ReleaseArc PROVE InOnePlace(g)'
  <2>1. Queued(g, "StartTimer")' => Queued(g, "StartTimer")
    BY Zenon, <1>10, <1>t, ActionsUnchanged DEF ReleaseArc, listenerUnchanged
  <2>2. \A q \in Place : In(q, g)' => In(q, g)
    BY Zenon, <1>10, <1>s, <2>1 DEF ReleaseArc, listenerUnchanged, Goto, In, Among
  <2> QED
    BY ZenonT(30), <1>p, <2>2, Stays
<1>11. ASSUME NEW f \in Frag, RetransmissionPreparationFails(f) PROVE InOnePlace(g)'
  <2>1. Queued(g, "StartTimer")' => Queued(g, "StartTimer") \/ g = f
    BY <1>11, <1>t, PushQueued, ZenonT(30) DEF Place, Task, RetransmissionPreparationFails, listenerUnchanged, TypeOK, Batch
  <2>2. CASE g = f
    <3>1. \A q \in Place : In(q, g)' => In(q, g) \/ q = "action"
      BY Zenon, <1>11, <1>s, <2>1, <2>2 DEF RetransmissionPreparationFails, listenerUnchanged, Goto, In, Among
    <3>2. In("RetransmissionRequestListener", g)
      BY Zenon, <1>11, <2>2 DEF Place, Task, RetransmissionPreparationFails, In
    <3>3. ~In("RetransmissionRequestListener", g)'
      BY Zenon, <1>11, <1>s, <2>2 DEF RetransmissionPreparationFails, Goto, In
    <3> QED
      BY ZenonT(30), <1>p, <3>1, <3>2, <3>3, Moves, PlaceNames
  <2>3. CASE ~(g = f)
    <3>1. \A q \in Place : In(q, g)' => In(q, g)
      BY Zenon, <1>11, <1>s, <2>1, <2>3 DEF RetransmissionPreparationFails, listenerUnchanged, Goto, In, Among
    <3> QED
      BY ZenonT(30), <1>p, <3>1, Stays
  <2> QED
    BY Zenon, <2>2, <2>3
<1>12. ASSUME NEW f \in Frag, RetransmissionPrepared(f) PROVE InOnePlace(g)'
  <2>1. Queued(g, "StartTimer")' => Queued(g, "StartTimer")
    <3> DEFINE n == batch["RetransmissionRequestListener"][f]
    <3>3. batch["RetransmissionRequestListener"] \in Batch
      BY Zenon, <1>t DEF Place, Task, TypeOK
    <3>1. n + 1 \in Nat /\ n + 1 > 0
      BY <3>3 DEF Batch
    <3>2. Push(f, "UpdateDelay", n + 1) \/ UNCHANGED actions
      BY Zenon, <1>12 DEF RetransmissionPrepared
    <3> HIDE DEF n
    <3> QED
      BY Zenon, <1>t, <3>1, <3>2, PushQueued, ActionsUnchanged
  <2>2. CASE g = f
    <3>1. \A q \in Place : In(q, g)' => In(q, g) \/ q = "RetransmissionRequestListener"
      BY Zenon, <1>12, <1>s, <2>1, <2>2 DEF RetransmissionPrepared, listenerUnchanged, Goto, In, Among
    <3>2. In("RetransmissionRequestListener", g)
      BY Zenon, <1>12, <2>2 DEF Place, Task, RetransmissionPrepared, In
    <3> QED
      BY ZenonT(30), <1>p, <3>1, <3>2, Moves, PlaceNames
  <2>3. CASE ~(g = f)
    <3>2. UNCHANGED <<todo, queueKey, realChannel, buffer, sending, sentChannel,
                      retransmissions, replyRequests, surbless>>
      BY Zenon, <1>12 DEF RetransmissionPrepared, listenerUnchanged
    <3>3. \A t \in Task : batch'[t][g] > 0 => pc'[t] = pc[t] /\ batch'[t] = batch[t]
      <4>1. PICK n : \/ Goto("RetransmissionRequestListener", "forward", Only(f, n))
                     \/ Goto("RetransmissionRequestListener", "idle", Nothing)
        BY ZenonT(30), <1>12 DEF RetransmissionPrepared
      <4>2. Only(f, n)[g] = 0 /\ Nothing[g] = 0
        BY Zenon, <2>3 DEF Only, Nothing
      <4> QED
        BY <1>s, <4>1, <4>2 DEF Goto
    <3>1. \A q \in Place : In(q, g)' => In(q, g)
      BY Zenon, <2>1, <3>2, <3>3 DEF In, Among
    <3> QED
      BY ZenonT(30), <1>p, <3>1, Stays
  <2> QED
    BY Zenon, <2>2, <2>3
<1> QED
  BY Zenon, <1>7, <1>8, <1>9, <1>10, <1>11, <1>12 DEF ListenerNext

-----------------------------------------------------------------------------
(* The ReplyController, the senders and the OutQueueControl.                *)

\* No fragment is brought to a second place by a step of the ReplyController.
LEMMA PlaceReply ==
    ASSUME Inv, TypeOK', ReplyNext, NEW g \in Frag PROVE InOnePlace(g)'
<1> USE DEF controllerVars, taskVars, outQueueVars, ActionType
<1>t. TypeOK /\ TypeOK' /\ InOnePlace(g) /\ OneTransmission /\ TimerKeysAgree
  BY Zenon DEF Inv, OneTransmission
<1>p. InOnePlace(g)
  BY Zenon, <1>t
<1>o. OneTransmission
  BY Zenon, <1>t
<1>s. /\ pc \in [Task -> Pc] /\ batch \in [Task -> Batch]
      /\ surbless \in Batch /\ queueKey \in [Frag -> Key \cup {NoKey}]
  BY Zenon, <1>t DEF TypeOK
<1>13. ASSUME NEW r \in replyRequests, HandleReplyRetransmission(r) PROVE InOnePlace(g)'
  <2>1. Queued(g, "StartTimer")' => Queued(g, "StartTimer")
    BY Zenon, <1>13, <1>t, ActionsUnchanged DEF HandleReplyRetransmission, replyUnchanged
  <2>2. CASE g = r.frag /\ surbless' = surbless
    <3>1. \A q \in Place : In(q, g)' => In(q, g) \/ q = "ReplyController"
      BY <1>13, <1>s, <2>1, <2>2 DEF HandleReplyRetransmission, replyUnchanged, Goto, In, Among
    <3>2. In("reply", g)
      BY Zenon, <1>13, <2>2 DEF HandleReplyRetransmission, In, Among
    <3>3. ~In("reply", g)'
      BY Zenon, <1>13, <1>o, <2>2 DEF Place, Task, HandleReplyRetransmission, In, Among, OneTransmission, Single
    <3> QED
      BY ZenonT(30), <1>p, <3>1, <3>2, <3>3, Moves, PlaceNames
  <2>3. CASE g = r.frag /\ surbless' # surbless
    <3>1. \A q \in Place : In(q, g)' => In(q, g) \/ q = "surbless"
      BY Zenon, <1>13, <1>s, <2>1, <2>3 DEF HandleReplyRetransmission, replyUnchanged, Goto, In, Among
    <3>2. In("reply", g)
      BY Zenon, <1>13, <2>3 DEF HandleReplyRetransmission, In, Among
    <3>3. ~In("reply", g)'
      BY Zenon, <1>13, <1>o, <2>3 DEF Place, Task, HandleReplyRetransmission, In, Among, OneTransmission, Single
    <3> QED
      BY ZenonT(30), <1>p, <3>1, <3>2, <3>3, Moves, PlaceNames
  <2>4. CASE ~(g = r.frag /\ surbless' = surbless) /\ ~(g = r.frag /\ surbless' # surbless)
    <3>2. \/ UNCHANGED <<pc, batch>>
          \/ /\ batch'["ReplyController"][g] = 0
             /\ \A x \in Task : x # "ReplyController" =>
                  pc'[x] = pc[x] /\ batch'[x] = batch[x]
      BY <1>13, <1>t, <2>4 DEF HandleReplyRetransmission, Goto, Only, TypeOK
    <3>3. surbless'[g] = surbless[g] /\ (Among(replyRequests, g)' => Among(replyRequests, g))
      BY <1>13, <1>t, <2>4, Zenon DEF HandleReplyRetransmission, Among, TypeOK, Batch
    <3>4. UNCHANGED <<todo, queueKey, realChannel, buffer, sending, sentChannel,
                      retransmissions>>
      BY <1>13, SMTT(30) DEF HandleReplyRetransmission, replyUnchanged
    <3>1. \A q \in Place : In(q, g)' => In(q, g)
      BY <2>1, <3>2, <3>3, <3>4 DEF In, Among
    <3> QED
      BY ZenonT(30), <1>p, <3>1, Stays
  <2> QED
    BY Zenon, <2>2, <2>3, <2>4
<1>14. ASSUME NEW S \in SUBSET Anonymous, TryClearPendingRetransmission(S) PROVE InOnePlace(g)'
  <2>1. Queued(g, "StartTimer")' => Queued(g, "StartTimer")
    BY Zenon, <1>14, <1>t, ActionsUnchanged DEF TryClearPendingRetransmission, replyUnchanged
  <2>2. CASE g \in S
    <3>1. \A q \in Place : In(q, g)' => In(q, g) \/ q = "ReplyController"
      BY Zenon, <1>14, <1>s, <2>1, <2>2 DEF TryClearPendingRetransmission, replyUnchanged, Goto, In, Among
    <3>2. In("surbless", g)
      BY Zenon, <1>14, <2>2 DEF TryClearPendingRetransmission, In, Among
    <3>3. ~In("surbless", g)'
      BY <1>14, <2>2 DEF Place, Task, TryClearPendingRetransmission, In, Among
    <3> QED
      BY ZenonT(30), <1>p, <3>1, <3>2, <3>3, Moves, PlaceNames
  <2>3. CASE ~(g \in S)
    <3>2. \/ UNCHANGED <<pc, batch>>
          \/ /\ batch'["ReplyController"][g] = 0
             /\ \A x \in Task : x # "ReplyController" =>
                  pc'[x] = pc[x] /\ batch'[x] = batch[x]
      <4> DEFINE live == [f \in Frag |->
                           IF f \in S /\ Upgrades([frag |-> f, att |-> surbless[f]])
                           THEN surbless[f] ELSE 0]
      <4>1. live[g] = 0
        BY Zenon, <2>3
      <4>2. UNCHANGED <<pc, batch>> \/ Goto("ReplyController", "clear", live)
        BY <1>14, SMTT(30) DEF TryClearPendingRetransmission
      <4> HIDE DEF live
      <4> QED
        BY <1>t, <4>1, <4>2 DEF Goto, TypeOK
    <3>3. UNCHANGED <<todo, queueKey, realChannel, buffer, sending, sentChannel,
                      retransmissions, replyRequests>>
      BY Zenon, <1>14 DEF TryClearPendingRetransmission, replyUnchanged
    <3>4. surbless'[g] = surbless[g]
      BY Zenon, <1>14, <2>3 DEF TryClearPendingRetransmission
    <3>5. \A t \in Task : batch'[t][g] > 0 => pc'[t] = pc[t] /\ batch'[t] = batch[t]
      BY <3>2
    <3>1. \A q \in Place : In(q, g)' => In(q, g)
      BY Zenon, <2>1, <3>3, <3>4, <3>5 DEF In, Among
    <3> QED
      BY ZenonT(30), <1>p, <3>1, Stays
  <2> QED
    BY Zenon, <2>2, <2>3
<1>15. ASSUME ReplyPreparationFails PROVE InOnePlace(g)'
  <2>1. Queued(g, "StartTimer")' => Queued(g, "StartTimer")
    BY <1>15, <1>t, ActionsUnchanged, ZenonT(30) DEF ReplyPreparationFails, replyUnchanged
  <2>2. CASE batch["ReplyController"][g] > 0
    <3>1. \A q \in Place : In(q, g)' => In(q, g) \/ q = "surbless"
      BY Zenon, <1>15, <1>s, <2>1, <2>2 DEF ReplyPreparationFails, replyUnchanged, Goto, In, Among
    <3>2. In("ReplyController", g)
      BY Zenon, <1>15, <2>2 DEF Place, Task, ReplyPreparationFails, In
    <3>3. ~In("ReplyController", g)'
      BY Zenon, <1>15, <1>s, <2>2 DEF ReplyPreparationFails, Goto, In
    <3> QED
      BY ZenonT(30), <1>p, <3>1, <3>2, <3>3, Moves, PlaceNames
  <2>3. CASE ~(batch["ReplyController"][g] > 0)
    <3>1. \A q \in Place : In(q, g)' => In(q, g)
      BY Zenon, <1>15, <1>s, <2>1, <2>3 DEF ReplyPreparationFails, replyUnchanged, Goto, In, Among
    <3> QED
      BY ZenonT(30), <1>p, <3>1, Stays
  <2> QED
    BY Zenon, <2>2, <2>3
<1>16. ASSUME ReplyPrepared PROVE InOnePlace(g)'
  <2>1. Queued(g, "StartTimer")' => Queued(g, "StartTimer")
    <3> DEFINE held == batch["ReplyController"]
               next == [f \in Frag |-> IF held[f] > 0 THEN held[f] + 1 ELSE 0]
    <3>3. held \in Batch
      BY Zenon, <1>t DEF Place, Task, TypeOK
    <3>1. next \in Batch
      BY <3>3 DEF Batch
    <3>2. PushBatch(next, "UpdateDelay")
      BY Zenon, <1>16 DEF ReplyPrepared
    <3> HIDE DEF next
    <3> QED
      BY Zenon, <1>t, <3>1, <3>2, PushBatchQueued
  <2>2. CASE batch["ReplyController"][g] > 0
    <3>1. \A q \in Place : In(q, g)' => In(q, g) \/ q = "ReplyController"
      BY Zenon, <1>16, <1>s, <2>1, <2>2 DEF ReplyPrepared, replyUnchanged, Goto, In, Among
    <3>2. In("ReplyController", g)
      BY Zenon, <1>16, <2>2 DEF Place, Task, ReplyPrepared, In
    <3> QED
      BY ZenonT(30), <1>p, <3>1, <3>2, Moves, PlaceNames
  <2>3. CASE ~(batch["ReplyController"][g] > 0)
    <3>1. \A q \in Place : In(q, g)' => In(q, g)
      BY <1>16, <1>s, <2>1, <2>3 DEF ReplyPrepared, replyUnchanged, Goto, In, Among
    <3> QED
      BY ZenonT(30), <1>p, <3>1, Stays
  <2> QED
    BY Zenon, <2>2, <2>3
<1> QED
  BY Zenon, <1>13, <1>14, <1>15, <1>16 DEF ReplyNext

\* No fragment is brought to a second place by a step of the senders, the
\* OutQueueControl and the network.
LEMMA PlaceSend ==
    ASSUME Inv, TypeOK', SendNext, NEW g \in Frag PROVE InOnePlace(g)'
<1> USE DEF controllerVars, taskVars, outQueueVars, ActionType
<1>t. TypeOK /\ TypeOK' /\ InOnePlace(g) /\ OneTransmission /\ TimerKeysAgree
  BY Zenon DEF Inv, OneTransmission
<1>p. InOnePlace(g)
  BY Zenon, <1>t
<1>o. OneTransmission
  BY Zenon, <1>t
<1>s. /\ pc \in [Task -> Pc] /\ batch \in [Task -> Batch]
      /\ surbless \in Batch /\ queueKey \in [Frag -> Key \cup {NoKey}]
  BY Zenon, <1>t DEF TypeOK
<1>17. ASSUME NEW S \in SUBSET todo, TrySplitAndSendNonReplyMessage(S) PROVE InOnePlace(g)'
  <2>1. Queued(g, "StartTimer")' => Queued(g, "StartTimer")
    BY <1>17, <1>t, PushBatchQueued, ActionsUnchanged, Zenon DEF TrySplitAndSendNonReplyMessage, TypeOK, Batch
  <2>2. CASE g \in S
    <3>1. \A q \in Place : In(q, g)' => In(q, g) \/ q = "InputMessageListener"
      BY Zenon, <1>17, <1>s, <2>1, <2>2 DEF TrySplitAndSendNonReplyMessage, Goto, In, Among
    <3>2. In("todo", g)
      BY Zenon, <1>17, <2>2 DEF TrySplitAndSendNonReplyMessage, In, Among
    <3>3. ~In("todo", g)'
      BY Zenon, <1>17, <2>2 DEF Place, Task, TrySplitAndSendNonReplyMessage, In, Among
    <3> QED
      BY ZenonT(30), <1>p, <3>1, <3>2, <3>3, Moves, PlaceNames
  <2>3. CASE ~(g \in S)
    <3>1. \A q \in Place : In(q, g)' => In(q, g)
      BY <1>17, <1>s, <2>1, <2>3 DEF TrySplitAndSendNonReplyMessage, Goto, In, Among
    <3> QED
      BY ZenonT(30), <1>p, <3>1, Stays
  <2> QED
    BY Zenon, <2>2, <2>3
<1>18. ASSUME NEW S \in SUBSET todo, TrySendReplyChunks(S) PROVE InOnePlace(g)'
  <2>1. Queued(g, "StartTimer")' => Queued(g, "StartTimer")
    BY Zenon, <1>18, <1>t, ActionsUnchanged DEF TrySendReplyChunks
  <2>2. CASE g \in S
    <3>1. \A q \in Place : In(q, g)' => In(q, g) \/ q = "ReplyController"
      BY Zenon, <1>18, <1>s, <2>1, <2>2 DEF TrySendReplyChunks, Goto, In, Among
    <3>2. In("todo", g)
      BY Zenon, <1>18, <2>2 DEF TrySendReplyChunks, In, Among
    <3>3. ~In("todo", g)'
      BY Zenon, <1>18, <2>2 DEF Place, Task, TrySendReplyChunks, In, Among
    <3> QED
      BY ZenonT(30), <1>p, <3>1, <3>2, <3>3, Moves, PlaceNames
  <2>3. CASE ~(g \in S)
    <3>1. \A q \in Place : In(q, g)' => In(q, g)
      BY <1>18, <1>s, <2>1, <2>3 DEF TrySendReplyChunks, Goto, In, Among
    <3> QED
      BY ZenonT(30), <1>p, <3>1, Stays
  <2> QED
    BY Zenon, <2>2, <2>3
<1>19. ASSUME NEW t \in Task, ForwardMessages(t) PROVE InOnePlace(g)'
  <2>1. Queued(g, "StartTimer")' => Queued(g, "StartTimer")
    BY Zenon, <1>19, <1>t, ActionsUnchanged DEF ForwardMessages
  <2>2. CASE batch[t][g] > 0
    <3>1. \A q \in Place : In(q, g)' => In(q, g) \/ q = "channel"
      BY Zenon, <1>19, <1>s, <2>1, <2>2 DEF ForwardMessages, Goto, In, Among
    <3>2. In(t, g)
      BY Zenon, <1>19, <2>2 DEF ForwardMessages, In
    <3>3. ~In(t, g)'
      BY Zenon, <1>19, <1>s, <2>2 DEF Place, Task, ForwardMessages, Goto, In
    <3>4. t \in Place
      BY Zenon DEF Place, Task
    <3> QED
      BY ZenonT(30), <1>p, <3>1, <3>2, <3>3, <3>4, Moves, PlaceNames
  <2>3. CASE ~(batch[t][g] > 0)
    <3>1. \A q \in Place : In(q, g)' => In(q, g)
      BY Zenon, <1>19, <1>s, <2>1, <2>3 DEF ForwardMessages, Goto, In, Among
    <3> QED
      BY ZenonT(30), <1>p, <3>1, Stays
  <2> QED
    BY Zenon, <2>2, <2>3
<1>20. ASSUME InsertPendingAcks PROVE InOnePlace(g)'
  <2>1. Queued(g, "StartTimer")' => Queued(g, "StartTimer")
    BY <1>20, <1>t, PushBatchQueued, ZenonT(30) DEF Place, Task, InsertPendingAcks, TypeOK, Batch
  <2>2. \A q \in Place : In(q, g)' => In(q, g)
    BY Zenon, <1>20, <1>s, <2>1 DEF InsertPendingAcks, Goto, In, Among
  <2> QED
    BY ZenonT(30), <1>p, <2>2, Stays
<1>21. ASSUME NEW p \in buffer \cup Packets(realChannel), PollNextAndSend(p) PROVE InOnePlace(g)'
  <2>1. Queued(g, "StartTimer")' => Queued(g, "StartTimer")
    BY Zenon, <1>21, <1>t, ActionsUnchanged DEF PollNextAndSend
  <2>2. /\ Among(buffer, g)' => Among(buffer, g) \/ realChannel[g] > 0
        /\ Among(sending, g)' => g = p.frag
        /\ ~In("channel", g)'
    <3>1. \A r \in Packets(realChannel) : realChannel[r.frag] > 0
      BY DEF Packets
    <3>2. Among(buffer, g)' => Among(buffer, g) \/ realChannel[g] > 0
      BY Zenon, <1>21, <3>1 DEF PollNextAndSend, Among
    <3>3. Among(sending, g)' => g = p.frag
      BY Zenon, <1>21 DEF PollNextAndSend, Among
    <3>4. realChannel'[g] = 0
      BY Zenon, <1>21 DEF PollNextAndSend, Nothing
    <3>5. ~In("channel", g)'
      BY <3>4, InPlaceNext
    <3> QED
      BY Zenon, <3>2, <3>3, <3>5
  <2>3. \A q \in Place \ {"buffer", "channel", "sending"} : In(q, g)' => In(q, g)
    BY Zenon, <1>21, <2>1 DEF PollNextAndSend, In, Among
  <2>4. CASE g = p.frag /\ p \in buffer
    <3>1. In("buffer", g)
      BY Zenon, <2>4 DEF In, Among
    <3>2. ~(realChannel[g] > 0)
      BY Zenon, <1>p, <3>1, PlaceNames, InPlace DEF InOnePlace
    <3>3. ~In("buffer", g)'
      <4>3. \A r \in Packets(realChannel) : realChannel[r.frag] > 0
        BY DEF Packets
      <4>1. \A r \in Packets(realChannel) : r.frag # g
        BY Zenon, <3>2, <4>3
      <4>2. \A r \in buffer : r.frag = g => r = p
        BY Zenon, <1>o, <2>4 DEF OneTransmission, Single
      <4>4. ~Among(buffer, g)'
        BY Zenon, <1>21, <4>1, <4>2 DEF PollNextAndSend, Among
      <4> QED
        BY Zenon, <4>4, InPlaceNext
    <3>4. \A q \in Place : In(q, g)' => In(q, g) \/ q = "sending"
      BY Zenon, <2>2, <2>3, <3>3
    <3> QED
      BY ZenonT(30), <1>p, <3>1, <3>3, <3>4, Moves, PlaceNames
  <2>5. CASE g = p.frag /\ p \notin buffer
    <3>1. p = [frag |-> g, att |-> realChannel[g]] /\ realChannel[g] > 0
      BY <1>21, <2>5 DEF Packets
    <3>2. In("channel", g)
      BY Zenon, <3>1 DEF In
    <3>3. ~Among(buffer, g)
      BY Zenon, <1>p, <3>2, PlaceNames, InPlace DEF InOnePlace
    <3>4. ~In("buffer", g)'
      BY <1>21, <3>1, <3>3 DEF Place, Task, PollNextAndSend, In, Among, Packets
    <3>5. \A q \in Place : In(q, g)' => In(q, g) \/ q = "sending"
      BY Zenon, <2>2, <2>3, <3>4
    <3> QED
      BY ZenonT(30), <1>p, <2>2, <3>2, <3>5, Moves, PlaceNames
  <2>6. CASE g # p.frag /\ realChannel[g] > 0
    <3>1. In("channel", g)
      BY Zenon, <2>6 DEF In
    <3>2. ~In("sending", g)'
      BY Zenon, <2>2, <2>6 DEF Place, Task, In
    <3>3. \A q \in Place : In(q, g)' => In(q, g) \/ q = "buffer"
      BY <2>2, <2>3, <3>2, SMTT(30)
    <3> QED
      BY ZenonT(30), <1>p, <2>2, <3>1, <3>3, Moves, PlaceNames
  <2>7. CASE g # p.frag /\ ~(realChannel[g] > 0)
    BY <1>t, <2>2, <2>3, <2>7, Stays, ZenonT(30) DEF Place, Task, In
  <2> QED
    BY Zenon, <2>4, <2>5, <2>6, <2>7
<1>22. ASSUME NEW stale \in SUBSET StaleLanes, SentNotify(stale) PROVE InOnePlace(g)'
  <2>1. Queued(g, "StartTimer")' => Queued(g, "StartTimer")
    BY <1>22, <1>t, ActionsUnchanged, ZenonT(30) DEF SentNotify
  <2>2. CASE Among(sending, g)
    <3>1. \A q \in Place : In(q, g)' => In(q, g) \/ q = "sent"
      BY Zenon, <1>22, <1>s, <2>1, <2>2 DEF SentNotify, Goto, In, Among
    <3>2. In("sending", g)
      BY Zenon, <1>22, <2>2 DEF SentNotify, In, Among
    <3>3. ~In("sending", g)'
      BY Zenon, <1>22, <2>2 DEF Place, Task, SentNotify, In, Among
    <3> QED
      BY ZenonT(30), <1>p, <3>1, <3>2, <3>3, Moves, PlaceNames
  <2>3. CASE ~(Among(sending, g))
    <3>1. \A q \in Place : In(q, g)' => In(q, g)
      BY Zenon, <1>22, <1>s, <2>1, <2>3 DEF SentNotify, Goto, In, Among
    <3> QED
      BY ZenonT(30), <1>p, <3>1, Stays
  <2> QED
    BY Zenon, <2>2, <2>3
<1>23. ASSUME OnCloseConnection PROVE InOnePlace(g)'
  <2>1. Queued(g, "StartTimer")' => Queued(g, "StartTimer")
    BY <1>23, <1>t, ActionsUnchanged, ZenonT(30) DEF OnCloseConnection
  <2>2. \A q \in Place : In(q, g)' => In(q, g)
    BY Zenon, <1>23, <1>s, <2>1 DEF OnCloseConnection, Goto, In, Among
  <2> QED
    BY ZenonT(30), <1>p, <2>2, Stays
<1>24. ASSUME NEW p \in network, Lose(p) PROVE InOnePlace(g)'
  <2>1. Queued(g, "StartTimer")' => Queued(g, "StartTimer")
    BY Zenon, <1>24, <1>t, ActionsUnchanged DEF Lose
  <2>2. \A q \in Place : In(q, g)' => In(q, g)
    BY Zenon, <1>24, <1>s, <2>1 DEF Lose, Goto, In, Among
  <2> QED
    BY ZenonT(30), <1>p, <2>2, Stays
<1> QED
  BY Zenon, <1>17, <1>18, <1>19, <1>20, <1>21, <1>22, <1>23, <1>24 DEF SendNext

\* Every step of every task hands a fragment's next transmission on or leaves it:
\* a packet, an expired ack and a running timer never exist side by side.
LEMMA PlaceStep ==
    ASSUME Inv, Next, NEW g \in Frag PROVE InOnePlace(g)'
  BY Zenon, TypeStep, PlaceController, PlaceListener, PlaceReply, PlaceSend DEF Next, Inv

-----------------------------------------------------------------------------
(* Timers, insertions, and the invariant of all steps.                      *)

\* Timers and keys are changed together.
LEMMA TimerKeysStep ==
    ASSUME Inv, Next PROVE TimerKeysAgree'
<1> USE ConstantsAssumption DEF controllerVars, taskVars, outQueueVars, ActionType
<1>t. TypeOK /\ TimerKeysAgree /\ InsertedOnce /\ OneTransmission
  BY Zenon DEF Inv
<1>1. ASSUME NEW f \in Frag, HandleInsert(f) PROVE TimerKeysAgree'
  <2>1. Queued(f, "InsertPending")
    BY Zenon, <1>1, <1>t, NextActionQueued DEF HandleInsert
  <2>2. delay[f] = 0 /\ queueKey[f] = NoKey
    BY <1>t, <2>1 DEF InsertedOnce, TimerKeysAgree, TypeOK, Batch
  <2> QED
    BY <1>1, <1>t, <2>2 DEF HandleInsert, TimerKeysAgree, TypeOK, Batch
<1>2. ASSUME NEW f \in Frag, HandleStartTimer(f) PROVE TimerKeysAgree'
  <2>1. Queued(f, "StartTimer")
    BY Zenon, <1>2, <1>t, NextActionQueued DEF HandleStartTimer
  <2>2. In("action", f) /\ (queueKey[f] # NoKey => In("timer", f))
    BY Zenon, <2>1 DEF In
  <2>3. queueKey[f] = NoKey
    BY <1>t, <2>2 DEF OneTransmission, InOnePlace, Place
  <2>4. CASE delay[f] > 0
    <3>1. PICK k \in Key : /\ timers[k] = NoFrag
                           /\ timers' = [timers EXCEPT ![k] = f]
                           /\ queueKey' = [queueKey EXCEPT ![f] = k]
      BY Zenon, <1>2, <2>4 DEF HandleStartTimer
    <3>2. delay' = delay
      BY Zenon, <1>2 DEF HandleStartTimer
    <3>3. \A g \in Frag, j \in Key : (queueKey[g] = j <=> timers[j] = g)'
      <4>1. queueKey \in [Frag -> Key \cup {NoKey}] /\ timers \in [Key -> Frag \cup {NoFrag}]
        BY Zenon, <1>t DEF TypeOK
      <4>2. \A g \in Frag, j \in Key : queueKey[g] = j <=> timers[j] = g
        BY Zenon, <1>t DEF TimerKeysAgree
      <4> QED
        BY <2>3, <3>1, <4>1, <4>2
    <3> QED
      BY <1>t, <2>4, <3>1, <3>2, <3>3 DEF TimerKeysAgree, TypeOK
  <2> QED
    BY Zenon, <1>2, <1>t, <2>4 DEF HandleStartTimer, TimerKeysAgree, TypeOK, Batch
<1>3. ASSUME NEW f \in Frag, HandleRemove(f) PROVE TimerKeysAgree'
  BY <1>3, <1>t DEF HandleRemove, controllerUnchanged, TimerKeysAgree, TypeOK, Batch
<1>4. ASSUME NEW f \in Frag, HandleUpdateDelay(f) PROVE TimerKeysAgree'
  <2>1. Head(actions[f]).type = "UpdateDelay" /\ Head(actions[f]) \in Action
    BY <1>4, <1>t, NextActionType, Zenon DEF HandleUpdateDelay, NextAction
  <2>2. Head(actions[f]).att \in Nat /\ Head(actions[f]).att > 0
    BY Zenon, <2>1 DEF Action
  <2> QED
    BY <1>4, <1>t, <2>2 DEF HandleUpdateDelay, TimerKeysAgree, TypeOK, Batch
<1>5. ASSUME NEW f \in Frag, TryUnwrapPanics(f) PROVE TimerKeysAgree'
  BY Zenon, <1>5, <1>t DEF TryUnwrapPanics, controllerUnchanged, TimerKeysAgree, TypeOK, Batch
<1>6. ASSUME NEW k \in Key, HandleExpiredAckTimer(k) PROVE TimerKeysAgree'
  BY <1>6, <1>t DEF HandleExpiredAckTimer, controllerUnchanged, TimerKeysAgree, TypeOK, Batch
<1>7. ASSUME NEW p \in network, OnAck(p) PROVE TimerKeysAgree'
  BY Zenon, <1>7, <1>t DEF OnAck, TimerKeysAgree, TypeOK, Batch
<1>8. ASSUME NEW p \in sentChannel, OnSentMessage(p) PROVE TimerKeysAgree'
  BY Zenon, <1>8, <1>t DEF OnSentMessage, TimerKeysAgree, TypeOK, Batch
<1>9. ASSUME NEW r \in retransmissions, OnRetransmissionRequest(r) PROVE TimerKeysAgree'
  BY Zenon, <1>9, <1>t DEF OnRetransmissionRequest, listenerUnchanged, TimerKeysAgree, TypeOK, Batch
<1>10. ASSUME ReleaseArc PROVE TimerKeysAgree'
  BY Zenon, <1>10, <1>t DEF ReleaseArc, listenerUnchanged, TimerKeysAgree, TypeOK, Batch
<1>11. ASSUME NEW f \in Frag, RetransmissionPreparationFails(f) PROVE TimerKeysAgree'
  BY Zenon, <1>11, <1>t DEF RetransmissionPreparationFails, listenerUnchanged, TimerKeysAgree, TypeOK, Batch
<1>12. ASSUME NEW f \in Frag, RetransmissionPrepared(f) PROVE TimerKeysAgree'
  BY Zenon, <1>12, <1>t DEF RetransmissionPrepared, listenerUnchanged, TimerKeysAgree, TypeOK, Batch
<1>13. ASSUME NEW r \in replyRequests, HandleReplyRetransmission(r) PROVE TimerKeysAgree'
  BY Zenon, <1>13, <1>t DEF HandleReplyRetransmission, replyUnchanged, TimerKeysAgree, TypeOK, Batch
<1>14. ASSUME NEW S \in SUBSET Anonymous, TryClearPendingRetransmission(S) PROVE TimerKeysAgree'
  BY Zenon, <1>14, <1>t DEF TryClearPendingRetransmission, replyUnchanged, TimerKeysAgree, TypeOK, Batch
<1>15. ASSUME ReplyPreparationFails PROVE TimerKeysAgree'
  BY Zenon, <1>15, <1>t DEF ReplyPreparationFails, replyUnchanged, TimerKeysAgree, TypeOK, Batch
<1>16. ASSUME ReplyPrepared PROVE TimerKeysAgree'
  BY Zenon, <1>16, <1>t DEF ReplyPrepared, replyUnchanged, TimerKeysAgree, TypeOK, Batch
<1>17. ASSUME NEW S \in SUBSET todo, TrySplitAndSendNonReplyMessage(S) PROVE TimerKeysAgree'
  BY Zenon, <1>17, <1>t DEF TrySplitAndSendNonReplyMessage, TimerKeysAgree, TypeOK, Batch
<1>18. ASSUME NEW S \in SUBSET todo, TrySendReplyChunks(S) PROVE TimerKeysAgree'
  BY Zenon, <1>18, <1>t DEF TrySendReplyChunks, TimerKeysAgree, TypeOK, Batch
<1>19. ASSUME NEW t \in Task, ForwardMessages(t) PROVE TimerKeysAgree'
  BY Zenon, <1>19, <1>t DEF ForwardMessages, TimerKeysAgree, TypeOK, Batch
<1>20. ASSUME InsertPendingAcks PROVE TimerKeysAgree'
  BY Zenon, <1>20, <1>t DEF InsertPendingAcks, TimerKeysAgree, TypeOK, Batch
<1>21. ASSUME NEW p \in buffer \cup Packets(realChannel), PollNextAndSend(p) PROVE TimerKeysAgree'
  BY Zenon, <1>21, <1>t DEF PollNextAndSend, TimerKeysAgree, TypeOK, Batch
<1>22. ASSUME NEW stale \in SUBSET StaleLanes, SentNotify(stale) PROVE TimerKeysAgree'
  BY Zenon, <1>22, <1>t DEF SentNotify, TimerKeysAgree, TypeOK, Batch
<1>23. ASSUME OnCloseConnection PROVE TimerKeysAgree'
  BY Zenon, <1>23, <1>t DEF OnCloseConnection, TimerKeysAgree, TypeOK, Batch
<1>24. ASSUME NEW p \in network, Lose(p) PROVE TimerKeysAgree'
  BY Zenon, <1>24, <1>t DEF Lose, TimerKeysAgree, TypeOK, Batch
<1> QED
  BY Zenon, <1>1, <1>2, <1>3, <1>4, <1>5, <1>6, <1>7, <1>8, <1>9, <1>10, <1>11, <1>12, <1>13, <1>14, <1>15, <1>16, <1>17, <1>18, <1>19, <1>20, <1>21, <1>22, <1>23, <1>24
  DEF Next, ControllerNext, ListenerNext, ReplyNext, SendNext

-----------------------------------------------------------------------------
(* The pending ack of a fragment is inserted once.                         *)

InsertOK(g) ==
    /\ ToInsert(g) => ~Queued(g, "InsertPending") /\ delay[g] = 0
    /\ Queued(g, "InsertPending") => delay[g] = 0
    /\ QueuedOnce(g, "InsertPending")

\* What every step does to the insertion of g: it is still the only one, and an
\* entry that was removed stays removed.
InsertKept(g) == InsertOK(g)' /\ (Gone(g) => Gone(g)')

\* A step that queues no InsertPending for g, creates no entry for g and leaves
\* g's insertion where it was.
LEMMA InsertUndisturbed ==
    ASSUME NEW g \in Frag, InsertOK(g),
           Queued(g, "InsertPending")' => Queued(g, "InsertPending"),
           QueuedOnce(g, "InsertPending")',
           ToInsert(g)' => ToInsert(g),
           delay[g] = 0 => delay'[g] = 0
    PROVE  InsertKept(g)
  BY Zenon DEF InsertKept, InsertOK, Gone

\* No pending ack is put on its way twice by a step of the ActionController.
LEMMA InsertController ==
    ASSUME Inv, ControllerNext, NEW g \in Frag PROVE InsertKept(g)
<1> USE DEF controllerVars, taskVars, outQueueVars, ActionType
<1>t. TypeOK /\ InsertOK(g) /\ InOnePlace(g) /\ RepliesInserted
  BY Zenon DEF Inv, InsertedOnce, InsertOK, OneTransmission
<1>u. delay \in [Frag -> Nat] /\ pc \in [Task -> Pc] /\ batch \in [Task -> Batch]
  BY Zenon, <1>t DEF TypeOK, Batch
<1>1. ASSUME NEW f \in Frag, HandleInsert(f) PROVE InsertKept(g)
  <2>1. /\ Queued(f, "InsertPending") /\ (Queued(g, "InsertPending")' => Queued(g, "InsertPending"))
        /\ QueuedOnce(g, "InsertPending")' /\ (f = g => ~Queued(g, "InsertPending")')
    BY Zenon, <1>1, <1>t, NextActionQueued DEF HandleInsert, InsertOK
  <2>2. ToInsert(g)' => ToInsert(g)
    BY Zenon, <1>1 DEF HandleInsert, controllerUnchanged, ToInsert
  <2>3. f # g => delay'[g] = delay[g]
    BY Zenon, <1>1, <1>u DEF HandleInsert
  <2>8. InsertOK(g)'
    BY Zenon, <1>t, <2>1, <2>2, <2>3 DEF InsertOK
  <2>9. Gone(g) => Gone(g)'
    BY Zenon, <2>1, <2>2, <2>3 DEF Gone
  <2> QED
    BY Zenon, <2>8, <2>9 DEF InsertKept
<1>2. ASSUME NEW f \in Frag, HandleStartTimer(f) PROVE InsertKept(g)
  <2>1. (Queued(g, "InsertPending")' => Queued(g, "InsertPending")) /\ QueuedOnce(g, "InsertPending")'
    BY Zenon, <1>2, <1>t, NextActionQueued DEF HandleStartTimer, InsertOK
  <2>2. ToInsert(g)' => ToInsert(g)
    BY Zenon, <1>2, <1>u DEF HandleStartTimer, controllerUnchanged, ToInsert, Goto, Nothing
  <2>3. delay[g] = 0 => delay'[g] = 0
    BY Zenon, <1>2, <1>u DEF HandleStartTimer, controllerUnchanged
  <2> QED
    BY Zenon, <1>t, <2>1, <2>2, <2>3, InsertUndisturbed
<1>3. ASSUME NEW f \in Frag, HandleRemove(f) PROVE InsertKept(g)
  <2>1. (Queued(g, "InsertPending")' => Queued(g, "InsertPending")) /\ QueuedOnce(g, "InsertPending")'
    BY Zenon, <1>3, <1>t, NextActionQueued DEF HandleRemove, InsertOK
  <2>2. ToInsert(g)' => ToInsert(g)
    BY Zenon, <1>3, <1>u DEF HandleRemove, controllerUnchanged, ToInsert, Goto, Nothing
  <2>3. delay[g] = 0 => delay'[g] = 0
    BY Zenon, <1>3, <1>u DEF HandleRemove, controllerUnchanged
  <2> QED
    BY Zenon, <1>t, <2>1, <2>2, <2>3, InsertUndisturbed
<1>4. ASSUME NEW f \in Frag, HandleUpdateDelay(f) PROVE InsertKept(g)
  <2>1. (Queued(g, "InsertPending")' => Queued(g, "InsertPending")) /\ QueuedOnce(g, "InsertPending")'
    BY Zenon, <1>4, <1>t, NextActionQueued DEF HandleUpdateDelay, InsertOK
  <2>2. ToInsert(g)' => ToInsert(g)
    BY Zenon, <1>4, <1>u DEF HandleUpdateDelay, controllerUnchanged, ToInsert, Goto, Nothing
  <2>3. delay[g] = 0 => delay'[g] = 0
    BY Zenon, <1>4, <1>u DEF HandleUpdateDelay, controllerUnchanged
  <2> QED
    BY Zenon, <1>t, <2>1, <2>2, <2>3, InsertUndisturbed
<1>5. ASSUME NEW f \in Frag, TryUnwrapPanics(f) PROVE InsertKept(g)
  <2>1. (Queued(g, "InsertPending")' => Queued(g, "InsertPending")) /\ QueuedOnce(g, "InsertPending")'
    BY Zenon, <1>5, <1>t, ActionsUnchanged DEF TryUnwrapPanics, InsertOK, controllerUnchanged
  <2>2. ToInsert(g)' => ToInsert(g)
    BY Zenon, <1>5, <1>u DEF TryUnwrapPanics, controllerUnchanged, ToInsert, Goto, Nothing
  <2>3. delay[g] = 0 => delay'[g] = 0
    BY Zenon, <1>5, <1>u DEF TryUnwrapPanics, controllerUnchanged
  <2> QED
    BY Zenon, <1>t, <2>1, <2>2, <2>3, InsertUndisturbed
<1>6. ASSUME NEW k \in Key, HandleExpiredAckTimer(k) PROVE InsertKept(g)
  <2>1. (Queued(g, "InsertPending")' => Queued(g, "InsertPending")) /\ QueuedOnce(g, "InsertPending")'
    BY Zenon, <1>6, <1>t, ActionsUnchanged DEF HandleExpiredAckTimer, InsertOK, controllerUnchanged
  <2>2. ToInsert(g)' => ToInsert(g)
    BY Zenon, <1>6, <1>u DEF HandleExpiredAckTimer, controllerUnchanged, ToInsert, Goto, Nothing
  <2>3. delay[g] = 0 => delay'[g] = 0
    BY Zenon, <1>6, <1>u DEF HandleExpiredAckTimer, controllerUnchanged
  <2> QED
    BY Zenon, <1>t, <2>1, <2>2, <2>3, InsertUndisturbed
<1> QED
  BY Zenon, <1>1, <1>2, <1>3, <1>4, <1>5, <1>6 DEF ControllerNext

\* No pending ack is put on its way twice by a step of the acknowledgement,
\* sent-notification and retransmission listeners.
LEMMA InsertListener ==
    ASSUME Inv, ListenerNext, NEW g \in Frag PROVE InsertKept(g)
<1> USE DEF controllerVars, taskVars, outQueueVars, ActionType
<1>t. TypeOK /\ InsertOK(g) /\ InOnePlace(g) /\ RepliesInserted
  BY Zenon DEF Inv, InsertedOnce, InsertOK, OneTransmission
<1>u. delay \in [Frag -> Nat] /\ pc \in [Task -> Pc] /\ batch \in [Task -> Batch]
  BY Zenon, <1>t DEF TypeOK, Batch
<1>7. ASSUME NEW p \in network, OnAck(p) PROVE InsertKept(g)
  <2>1. (Queued(g, "InsertPending")' => Queued(g, "InsertPending")) /\ QueuedOnce(g, "InsertPending")'
    <3>1. p.frag \in Frag
      BY Zenon, <1>t DEF TypeOK, Ref
    <3> QED
      BY Zenon, <1>7, <1>t, <3>1, PushQueued DEF OnAck, InsertOK
  <2>2. ToInsert(g)' => ToInsert(g)
    BY Zenon, <1>7, <1>u DEF OnAck, ToInsert, Goto, Nothing
  <2>3. delay[g] = 0 => delay'[g] = 0
    BY Zenon, <1>7, <1>u DEF OnAck
  <2> QED
    BY Zenon, <1>t, <2>1, <2>2, <2>3, InsertUndisturbed
<1>8. ASSUME NEW p \in sentChannel, OnSentMessage(p) PROVE InsertKept(g)
  <2>1. (Queued(g, "InsertPending")' => Queued(g, "InsertPending")) /\ QueuedOnce(g, "InsertPending")'
    <3>1. p.frag \in Frag /\ p.att \in Nat /\ p.att > 0
      BY <1>t DEF TypeOK, Ref
    <3> QED
      BY Zenon, <1>8, <1>t, <3>1, PushQueued DEF OnSentMessage, InsertOK
  <2>2. ToInsert(g)' => ToInsert(g)
    BY Zenon, <1>8, <1>u DEF OnSentMessage, ToInsert, Goto, Nothing
  <2>3. delay[g] = 0 => delay'[g] = 0
    BY Zenon, <1>8, <1>u DEF OnSentMessage
  <2> QED
    BY Zenon, <1>t, <2>1, <2>2, <2>3, InsertUndisturbed
<1>9. ASSUME NEW r \in retransmissions, OnRetransmissionRequest(r) PROVE InsertKept(g)
  <2>1. (Queued(g, "InsertPending")' => Queued(g, "InsertPending")) /\ QueuedOnce(g, "InsertPending")'
    BY Zenon, <1>9, <1>t, ActionsUnchanged DEF OnRetransmissionRequest, InsertOK
  <2>2. ToInsert(g)' => ToInsert(g)
    BY Zenon, <1>9, <1>u DEF Task, OnRetransmissionRequest, listenerUnchanged, ToInsert, Goto, Nothing
  <2>3. delay[g] = 0 => delay'[g] = 0
    BY Zenon, <1>9, <1>u DEF OnRetransmissionRequest, listenerUnchanged
  <2> QED
    BY Zenon, <1>t, <2>1, <2>2, <2>3, InsertUndisturbed
<1>10. ASSUME ReleaseArc PROVE InsertKept(g)
  <2>1. (Queued(g, "InsertPending")' => Queued(g, "InsertPending")) /\ QueuedOnce(g, "InsertPending")'
    BY Zenon, <1>10, <1>t, ActionsUnchanged DEF ReleaseArc, InsertOK
  <2>2. ToInsert(g)' => ToInsert(g)
    BY <1>10, <1>u DEF ReleaseArc, listenerUnchanged, ToInsert, Goto, Nothing
  <2>3. delay[g] = 0 => delay'[g] = 0
    BY Zenon, <1>10, <1>u DEF ReleaseArc, listenerUnchanged
  <2> QED
    BY Zenon, <1>t, <2>1, <2>2, <2>3, InsertUndisturbed
<1>11. ASSUME NEW f \in Frag, RetransmissionPreparationFails(f) PROVE InsertKept(g)
  <2>1. (Queued(g, "InsertPending")' => Queued(g, "InsertPending")) /\ QueuedOnce(g, "InsertPending")'
    <3> DEFINE n == batch["RetransmissionRequestListener"][f]
    <3>1. n \in Nat /\ n > 0 /\ n + 1 \in Nat /\ n + 1 > 0
      BY <1>11, <1>u DEF Task, RetransmissionPreparationFails, Batch
    <3>2. Push(f, "StartTimer", n)
      BY Zenon, <1>11 DEF RetransmissionPreparationFails
    <3> HIDE DEF n
    <3> QED
      BY Zenon, <1>t, <3>1, <3>2, PushQueued, ActionsUnchanged DEF InsertOK
  <2>2. ToInsert(g)' => ToInsert(g)
    BY <1>11, <1>u DEF RetransmissionPreparationFails, listenerUnchanged, ToInsert, Goto, Nothing
  <2>3. delay[g] = 0 => delay'[g] = 0
    BY Zenon, <1>11, <1>u DEF RetransmissionPreparationFails, listenerUnchanged
  <2> QED
    BY Zenon, <1>t, <2>1, <2>2, <2>3, InsertUndisturbed
<1>12. ASSUME NEW f \in Frag, RetransmissionPrepared(f) PROVE InsertKept(g)
  <2>1. (Queued(g, "InsertPending")' => Queued(g, "InsertPending")) /\ QueuedOnce(g, "InsertPending")'
    <3> DEFINE n == batch["RetransmissionRequestListener"][f]
    <3>1. n \in Nat /\ n > 0 /\ n + 1 \in Nat /\ n + 1 > 0
      BY <1>12, <1>u DEF Task, RetransmissionPrepared, Batch
    <3>2. Push(f, "UpdateDelay", n + 1) \/ UNCHANGED actions
      BY Zenon, <1>12 DEF RetransmissionPrepared
    <3> HIDE DEF n
    <3> QED
      BY Zenon, <1>t, <3>1, <3>2, PushQueued, ActionsUnchanged DEF InsertOK
  <2>2. ToInsert(g)' => ToInsert(g)
    BY Zenon, <1>12, <1>u DEF Task, RetransmissionPrepared, listenerUnchanged, ToInsert, Goto, Nothing
  <2>3. delay[g] = 0 => delay'[g] = 0
    BY Zenon, <1>12, <1>u DEF RetransmissionPrepared, listenerUnchanged
  <2> QED
    BY Zenon, <1>t, <2>1, <2>2, <2>3, InsertUndisturbed
<1> QED
  BY Zenon, <1>7, <1>8, <1>9, <1>10, <1>11, <1>12 DEF ListenerNext

\* No pending ack is put on its way twice by a step of the ReplyController.
LEMMA InsertReply ==
    ASSUME Inv, ReplyNext, NEW g \in Frag PROVE InsertKept(g)
<1> USE DEF controllerVars, taskVars, outQueueVars, ActionType
<1>t. TypeOK /\ InsertOK(g) /\ InOnePlace(g) /\ RepliesInserted
  BY Zenon DEF Inv, InsertedOnce, InsertOK, OneTransmission
<1>u. delay \in [Frag -> Nat] /\ pc \in [Task -> Pc] /\ batch \in [Task -> Batch]
  BY Zenon, <1>t DEF TypeOK, Batch
<1>13. ASSUME NEW r \in replyRequests, HandleReplyRetransmission(r) PROVE InsertKept(g)
  <2>1. (Queued(g, "InsertPending")' => Queued(g, "InsertPending")) /\ QueuedOnce(g, "InsertPending")'
    BY Zenon, <1>13, <1>t, ActionsUnchanged DEF HandleReplyRetransmission, InsertOK
  <2>2. ToInsert(g)' => ToInsert(g)
    BY Zenon, <1>13, <1>u DEF HandleReplyRetransmission, replyUnchanged, ToInsert, Goto, Nothing
  <2>3. delay[g] = 0 => delay'[g] = 0
    BY Zenon, <1>13, <1>u DEF HandleReplyRetransmission, replyUnchanged
  <2> QED
    BY Zenon, <1>t, <2>1, <2>2, <2>3, InsertUndisturbed
<1>14. ASSUME NEW S \in SUBSET Anonymous, TryClearPendingRetransmission(S) PROVE InsertKept(g)
  <2>1. (Queued(g, "InsertPending")' => Queued(g, "InsertPending")) /\ QueuedOnce(g, "InsertPending")'
    BY Zenon, <1>14, <1>t, ActionsUnchanged DEF TryClearPendingRetransmission, InsertOK
  <2>2. ToInsert(g)' => ToInsert(g)
    BY Zenon, <1>14, <1>u DEF TryClearPendingRetransmission, replyUnchanged, ToInsert, Goto, Nothing
  <2>3. delay[g] = 0 => delay'[g] = 0
    BY Zenon, <1>14, <1>u DEF TryClearPendingRetransmission, replyUnchanged
  <2> QED
    BY <1>t, <2>1, <2>2, <2>3, InsertUndisturbed, SMTT(30)
<1>15. ASSUME ReplyPreparationFails PROVE InsertKept(g)
  <2>1. (Queued(g, "InsertPending")' => Queued(g, "InsertPending")) /\ QueuedOnce(g, "InsertPending")'
    BY Zenon, <1>15, <1>t, ActionsUnchanged DEF ReplyPreparationFails, InsertOK
  <2>2. ToInsert(g)' => ToInsert(g)
    BY Zenon, <1>15, <1>u DEF ReplyPreparationFails, replyUnchanged, ToInsert, Goto, Nothing
  <2>3. delay[g] = 0 => delay'[g] = 0
    BY Zenon, <1>15, <1>u DEF ReplyPreparationFails, replyUnchanged
  <2> QED
    BY Zenon, <1>t, <2>1, <2>2, <2>3, InsertUndisturbed
<1>16. ASSUME ReplyPrepared PROVE InsertKept(g)
  <2>1. (Queued(g, "InsertPending")' => Queued(g, "InsertPending")) /\ QueuedOnce(g, "InsertPending")'
    <3> DEFINE held == batch["ReplyController"]
               next == [f \in Frag |-> IF held[f] > 0 THEN held[f] + 1 ELSE 0]
    <3>1. held \in Batch
      BY Zenon, <1>u DEF Task
    <3>2. next \in Batch /\ PushBatch(next, "UpdateDelay")
      BY <1>16, <3>1 DEF ReplyPrepared, Batch
    <3> HIDE DEF next
    <3> QED
      BY Zenon, <1>t, <3>2, PushBatchQueued DEF InsertOK
  <2>2. ToInsert(g)' => ToInsert(g)
    <3>1. /\ pc'["ReplyController"] = "forward" /\ todo' = todo
          /\ batch'["ReplyController"] = [f \in Frag |-> IF batch["ReplyController"][f] > 0
                                           THEN batch["ReplyController"][f] + 1 ELSE 0]
      BY Zenon, <1>16, <1>u DEF Task, ReplyPrepared, replyUnchanged, Goto
    <3>2. batch["ReplyController"][g] \in Nat
      BY Zenon, <1>u DEF Task, Batch
    <3> QED
      BY <3>1, <3>2 DEF ToInsert
  <2>3. delay[g] = 0 => delay'[g] = 0
    BY Zenon, <1>16, <1>u DEF ReplyPrepared, replyUnchanged
  <2> QED
    BY Zenon, <1>t, <2>1, <2>2, <2>3, InsertUndisturbed
<1> QED
  BY Zenon, <1>13, <1>14, <1>15, <1>16 DEF ReplyNext

\* No pending ack is put on its way twice by a step of the senders, the
\* OutQueueControl and the network.
LEMMA InsertSend ==
    ASSUME Inv, SendNext, NEW g \in Frag PROVE InsertKept(g)
<1> USE DEF controllerVars, taskVars, outQueueVars, ActionType
<1>t. TypeOK /\ InsertOK(g) /\ InOnePlace(g) /\ RepliesInserted
  BY Zenon DEF Inv, InsertedOnce, InsertOK, OneTransmission
<1>u. delay \in [Frag -> Nat] /\ pc \in [Task -> Pc] /\ batch \in [Task -> Batch]
  BY Zenon, <1>t DEF TypeOK, Batch
<1>17. ASSUME NEW S \in SUBSET todo, TrySplitAndSendNonReplyMessage(S) PROVE InsertKept(g)
  <2> DEFINE first == [f \in Frag |-> IF f \in S THEN 1 ELSE 0]
  <2>1. first \in Batch /\ (first[g] > 0 <=> g \in S) /\ S \subseteq todo
    BY <1>17 DEF TrySplitAndSendNonReplyMessage, Batch
  <2>2. PushBatch(first, "InsertPending") \/ UNCHANGED actions
    BY Zenon, <1>17 DEF TrySplitAndSendNonReplyMessage
  <2> HIDE DEF first
  <2>3. /\ (Queued(g, "InsertPending")' => Queued(g, "InsertPending") \/ g \in S)
        /\ (g \in S => ~Queued(g, "InsertPending")) => QueuedOnce(g, "InsertPending")'
    BY Zenon, <1>t, <2>1, <2>2, PushBatchQueued, ActionsUnchanged DEF InsertOK
  <2>4. ToInsert(g)' => ToInsert(g) /\ g \notin S
    <3>1. /\ pc'["ReplyController"] = pc["ReplyController"]
          /\ batch'["ReplyController"] = batch["ReplyController"]
      BY <1>17, <1>u, SMTT(30) DEF Task, TrySplitAndSendNonReplyMessage, Goto
    <3>2. g \in S /\ pc["ReplyController"] \in {"forward", "insert"}
             => batch["ReplyController"][g] # 1
      <4>1. g \in S => ~In("ReplyController", g)
        BY Zenon, <1>t, <2>1, PlaceNames, InPlace DEF InOnePlace
      <4>2. "ReplyController" \in Task
        BY Zenon DEF Task
      <4>3. pc["ReplyController"] = "forward" /\ batch["ReplyController"][g] = 1
               => In("ReplyController", g)
        BY <4>2, InPlace
      <4>4. g \in S /\ pc["ReplyController"] = "insert" => batch["ReplyController"][g] = 0
        BY Zenon, <1>t, <2>1 DEF RepliesInserted
      <4> QED
        BY <4>1, <4>3, <4>4
    <3>3. todo' = todo \ S
      BY Zenon, <1>17 DEF TrySplitAndSendNonReplyMessage
    <3> QED
      BY Zenon, <3>1, <3>2, <3>3 DEF ToInsert
  <2>5. g \in S => ToInsert(g)
    BY Zenon, <2>1 DEF ToInsert
  <2>6. delay' = delay
    BY Zenon, <1>17 DEF TrySplitAndSendNonReplyMessage
  <2>8. InsertOK(g)'
    BY Zenon, <1>t, <2>3, <2>4, <2>5, <2>6 DEF InsertOK
  <2>9. Gone(g) => Gone(g)'
    BY Zenon, <2>3, <2>4, <2>5, <2>6 DEF Gone
  <2> QED
    BY Zenon, <2>8, <2>9 DEF InsertKept
<1>18. ASSUME NEW S \in SUBSET todo, TrySendReplyChunks(S) PROVE InsertKept(g)
  <2>1. (Queued(g, "InsertPending")' => Queued(g, "InsertPending")) /\ QueuedOnce(g, "InsertPending")'
    BY Zenon, <1>18, <1>t, ActionsUnchanged DEF TrySendReplyChunks, InsertOK
  <2>2. ToInsert(g)' => ToInsert(g)
    BY <1>18, <1>u DEF TrySendReplyChunks, ToInsert, Goto
  <2>3. delay[g] = 0 => delay'[g] = 0
    BY Zenon, <1>18, <1>u DEF TrySendReplyChunks
  <2> QED
    BY Zenon, <1>t, <2>1, <2>2, <2>3, InsertUndisturbed
<1>19. ASSUME NEW t \in Task, ForwardMessages(t) PROVE InsertKept(g)
  <2>1. (Queued(g, "InsertPending")' => Queued(g, "InsertPending")) /\ QueuedOnce(g, "InsertPending")'
    BY Zenon, <1>19, <1>t, ActionsUnchanged DEF ForwardMessages, InsertOK
  <2>2. ToInsert(g)' => ToInsert(g)
    BY Zenon, <1>19, <1>u DEF Task, ForwardMessages, ToInsert, Goto, Nothing
  <2>3. delay[g] = 0 => delay'[g] = 0
    BY <1>19, <1>u, SMTT(30) DEF ForwardMessages
  <2> QED
    BY Zenon, <1>t, <2>1, <2>2, <2>3, InsertUndisturbed
<1>20. ASSUME InsertPendingAcks PROVE InsertKept(g)
  <2> DEFINE b == batch["ReplyController"]
  <2>1. b \in Batch /\ PushBatch(b, "InsertPending")
    BY Zenon, <1>20, <1>u DEF Task, InsertPendingAcks
  <2>2. pc["ReplyController"] = "insert" /\ b[g] < 2 /\ (g \in todo => b[g] = 0)
    BY Zenon, <1>20, <1>t DEF InsertPendingAcks, RepliesInserted
  <2>3. b[g] > 0 => ToInsert(g)
    BY <2>1, <2>2 DEF ToInsert, Batch
  <2>4. ToInsert(g)' => ToInsert(g) /\ ~(b[g] > 0)
    <3>1. pc'["ReplyController"] = "idle" /\ todo' = todo
      BY Zenon, <1>20, <1>u DEF Task, InsertPendingAcks, Goto
    <3> QED
      BY <2>2, <3>1 DEF ToInsert
  <2>5. delay' = delay
    BY Zenon, <1>20 DEF InsertPendingAcks
  <2> HIDE DEF b
  <2>7. /\ (Queued(g, "InsertPending")' <=> Queued(g, "InsertPending") \/ b[g] > 0)
        /\ (b[g] > 0 => ~Queued(g, "InsertPending")) => QueuedOnce(g, "InsertPending")'
    <3>1. QueuedOnce(g, "InsertPending") /\ "InsertPending" \in ActionType
      BY Zenon, <1>t DEF InsertOK
    <3> QED
      BY <1>t, <2>1, <3>1, PushBatchQueued, Zenon
  <2>8. InsertOK(g)'
    BY ZenonT(30), <1>t, <2>3, <2>4, <2>5, <2>7 DEF InsertOK
  <2>9. Gone(g) => Gone(g)'
    BY Zenon, <2>3, <2>4, <2>5, <2>7 DEF Gone
  <2> QED
    BY Zenon, <2>8, <2>9 DEF InsertKept
<1>21. ASSUME NEW p \in buffer \cup Packets(realChannel), PollNextAndSend(p) PROVE InsertKept(g)
  <2>1. (Queued(g, "InsertPending")' => Queued(g, "InsertPending")) /\ QueuedOnce(g, "InsertPending")'
    BY Zenon, <1>21, <1>t, ActionsUnchanged DEF PollNextAndSend, InsertOK
  <2>2. ToInsert(g)' => ToInsert(g)
    BY Zenon, <1>21, <1>u DEF PollNextAndSend, ToInsert, Goto, Nothing
  <2>3. delay[g] = 0 => delay'[g] = 0
    BY Zenon, <1>21, <1>u DEF PollNextAndSend
  <2> QED
    BY Zenon, <1>t, <2>1, <2>2, <2>3, InsertUndisturbed
<1>22. ASSUME NEW stale \in SUBSET StaleLanes, SentNotify(stale) PROVE InsertKept(g)
  <2>1. (Queued(g, "InsertPending")' => Queued(g, "InsertPending")) /\ QueuedOnce(g, "InsertPending")'
    BY Zenon, <1>22, <1>t, ActionsUnchanged DEF SentNotify, InsertOK
  <2>2. ToInsert(g)' => ToInsert(g)
    BY Zenon, <1>22, <1>u DEF SentNotify, ToInsert, Goto, Nothing
  <2>3. delay[g] = 0 => delay'[g] = 0
    BY Zenon, <1>22, <1>u DEF SentNotify
  <2> QED
    BY Zenon, <1>t, <2>1, <2>2, <2>3, InsertUndisturbed
<1>23. ASSUME OnCloseConnection PROVE InsertKept(g)
  <2>1. (Queued(g, "InsertPending")' => Queued(g, "InsertPending")) /\ QueuedOnce(g, "InsertPending")'
    BY Zenon, <1>23, <1>t, ActionsUnchanged DEF OnCloseConnection, InsertOK
  <2>2. ToInsert(g)' => ToInsert(g)
    BY Zenon, <1>23, <1>u DEF OnCloseConnection, ToInsert, Goto, Nothing
  <2>3. delay[g] = 0 => delay'[g] = 0
    BY Zenon, <1>23, <1>u DEF OnCloseConnection
  <2> QED
    BY Zenon, <1>t, <2>1, <2>2, <2>3, InsertUndisturbed
<1>24. ASSUME NEW p \in network, Lose(p) PROVE InsertKept(g)
  <2>1. (Queued(g, "InsertPending")' => Queued(g, "InsertPending")) /\ QueuedOnce(g, "InsertPending")'
    BY Zenon, <1>24, <1>t, ActionsUnchanged DEF Lose, InsertOK
  <2>2. ToInsert(g)' => ToInsert(g)
    BY Zenon, <1>24, <1>u DEF Lose, ToInsert, Goto, Nothing
  <2>3. delay[g] = 0 => delay'[g] = 0
    BY Zenon, <1>24, <1>u DEF Lose
  <2> QED
    BY Zenon, <1>t, <2>1, <2>2, <2>3, InsertUndisturbed
<1> QED
  BY Zenon, <1>17, <1>18, <1>19, <1>20, <1>21, <1>22, <1>23, <1>24 DEF SendNext

\* Insertions are queued once per fragment, and never for one that was removed.
LEMMA InsertStep ==
    ASSUME Inv, Next, NEW g \in Frag PROVE InsertKept(g)
  BY Zenon, InsertController, InsertListener, InsertReply, InsertSend DEF Next

\* What the ReplyController forwards and inserts.
LEMMA RepliesInsertedStep ==
    ASSUME Inv, Next PROVE RepliesInserted'
<1> USE DEF controllerVars, taskVars, outQueueVars
<1>t. TypeOK /\ RepliesInserted /\ \A f \in Frag : InOnePlace(f)
  BY Zenon DEF Inv, OneTransmission
<1>u. pc \in [Task -> Pc] /\ batch \in [Task -> Batch]
  BY Zenon, <1>t DEF TypeOK
<1>1. ASSUME NEW f \in Frag, HandleInsert(f) PROVE RepliesInserted'
  BY Zenon, <1>1, <1>t, <1>u DEF HandleInsert, controllerUnchanged, Goto, RepliesInserted, FirstAttempt
<1>2. ASSUME NEW f \in Frag, HandleStartTimer(f) PROVE RepliesInserted'
  BY Zenon, <1>2, <1>t, <1>u DEF HandleStartTimer, controllerUnchanged, Goto, RepliesInserted, FirstAttempt
<1>3. ASSUME NEW f \in Frag, HandleRemove(f) PROVE RepliesInserted'
  BY Zenon, <1>3, <1>t, <1>u DEF HandleRemove, controllerUnchanged, Goto, RepliesInserted, FirstAttempt
<1>4. ASSUME NEW f \in Frag, HandleUpdateDelay(f) PROVE RepliesInserted'
  BY Zenon, <1>4, <1>t, <1>u DEF HandleUpdateDelay, controllerUnchanged, Goto, RepliesInserted, FirstAttempt
<1>5. ASSUME NEW f \in Frag, TryUnwrapPanics(f) PROVE RepliesInserted'
  BY Zenon, <1>5, <1>t, <1>u DEF TryUnwrapPanics, controllerUnchanged, Goto, RepliesInserted, FirstAttempt
<1>6. ASSUME NEW k \in Key, HandleExpiredAckTimer(k) PROVE RepliesInserted'
  BY Zenon, <1>6, <1>t, <1>u DEF HandleExpiredAckTimer, controllerUnchanged, Goto, RepliesInserted, FirstAttempt
<1>7. ASSUME NEW p \in network, OnAck(p) PROVE RepliesInserted'
  BY Zenon, <1>7, <1>t, <1>u DEF OnAck, Goto, RepliesInserted, FirstAttempt
<1>8. ASSUME NEW p \in sentChannel, OnSentMessage(p) PROVE RepliesInserted'
  BY Zenon, <1>8, <1>t, <1>u DEF OnSentMessage, Goto, RepliesInserted, FirstAttempt
<1>9. ASSUME NEW r \in retransmissions, OnRetransmissionRequest(r) PROVE RepliesInserted'
  BY Zenon, <1>9, <1>t, <1>u DEF Task, OnRetransmissionRequest, listenerUnchanged, Goto, RepliesInserted, FirstAttempt
<1>10. ASSUME ReleaseArc PROVE RepliesInserted'
  BY <1>10, <1>t, <1>u DEF ReleaseArc, listenerUnchanged, Goto, RepliesInserted, FirstAttempt
<1>11. ASSUME NEW f \in Frag, RetransmissionPreparationFails(f) PROVE RepliesInserted'
  BY <1>11, <1>t, <1>u DEF RetransmissionPreparationFails, listenerUnchanged, Goto, RepliesInserted, FirstAttempt
<1>12. ASSUME NEW f \in Frag, RetransmissionPrepared(f) PROVE RepliesInserted'
  BY Zenon, <1>12, <1>t, <1>u DEF Task, RetransmissionPrepared, listenerUnchanged, Goto, RepliesInserted, FirstAttempt
<1>13. ASSUME NEW r \in replyRequests, HandleReplyRetransmission(r) PROVE RepliesInserted'
  BY Zenon, <1>13, <1>t, <1>u DEF HandleReplyRetransmission, replyUnchanged, Goto, RepliesInserted, FirstAttempt
<1>14. ASSUME NEW S \in SUBSET Anonymous, TryClearPendingRetransmission(S) PROVE RepliesInserted'
  BY <1>14, <1>t, <1>u, SMTT(30) DEF TryClearPendingRetransmission, replyUnchanged, Goto, RepliesInserted, FirstAttempt
<1>15. ASSUME ReplyPreparationFails PROVE RepliesInserted'
  BY Zenon, <1>15, <1>t, <1>u DEF ReplyPreparationFails, replyUnchanged, Goto, RepliesInserted, FirstAttempt
<1>16. ASSUME ReplyPrepared PROVE RepliesInserted'
  <2>1. /\ pc'["ReplyController"] = "forward"
        /\ batch'["ReplyController"] = [f \in Frag |-> IF batch["ReplyController"][f] > 0
                                         THEN batch["ReplyController"][f] + 1 ELSE 0]
    BY Zenon, <1>16, <1>u DEF Task, ReplyPrepared, Goto
  <2>2. \A f \in Frag : batch["ReplyController"][f] \in Nat
    BY Zenon, <1>u DEF Task, Batch
  <2>3. ~FirstAttempt(batch'["ReplyController"])
    BY <2>1, <2>2 DEF FirstAttempt
  <2> QED
    BY Zenon, <2>1, <2>3 DEF RepliesInserted
<1>17. ASSUME NEW S \in SUBSET todo, TrySplitAndSendNonReplyMessage(S) PROVE RepliesInserted'
  BY Zenon, <1>17, <1>t, <1>u DEF Task, TrySplitAndSendNonReplyMessage, Goto, RepliesInserted, FirstAttempt
<1>18. ASSUME NEW S \in SUBSET todo, TrySendReplyChunks(S) PROVE RepliesInserted'
  BY <1>18, <1>t, <1>u DEF TrySendReplyChunks, Goto, RepliesInserted, FirstAttempt
<1>19. ASSUME NEW t \in Task, ForwardMessages(t) PROVE RepliesInserted'
  <2>1. CASE t = "ReplyController" /\ FirstAttempt(batch[t])
    <3>1. /\ pc["ReplyController"] = "forward" /\ pc'["ReplyController"] = "insert"
          /\ batch'["ReplyController"] = batch["ReplyController"] /\ todo' = todo
      BY Zenon, <1>19, <1>u, <2>1 DEF ForwardMessages, Goto
    <3>2. \A f \in Frag : f \in todo => ~(batch["ReplyController"][f] > 0)
      <4>1. "ReplyController" \in Task
        BY Zenon DEF Task
      <4> QED
        BY ZenonT(40), <1>t, <3>1, <4>1, PlaceNames, InPlace DEF InOnePlace
    <3>3. \A f \in Frag : batch["ReplyController"][f] \in Nat
      BY Zenon, <1>u DEF Task, Batch
    <3> QED
      BY <1>t, <2>1, <3>1, <3>2, <3>3 DEF RepliesInserted
  <2>2. CASE ~(t = "ReplyController" /\ FirstAttempt(batch[t]))
    BY Zenon, <1>19, <1>t, <1>u, <2>2 DEF Task, ForwardMessages, Goto, RepliesInserted, FirstAttempt
  <2> QED
    BY Zenon, <2>1, <2>2
<1>20. ASSUME InsertPendingAcks PROVE RepliesInserted'
  BY Zenon, <1>20, <1>t, <1>u DEF InsertPendingAcks, Goto, RepliesInserted, FirstAttempt
<1>21. ASSUME NEW p \in buffer \cup Packets(realChannel), PollNextAndSend(p) PROVE RepliesInserted'
  BY Zenon, <1>21, <1>t, <1>u DEF PollNextAndSend, Goto, RepliesInserted, FirstAttempt
<1>22. ASSUME NEW stale \in SUBSET StaleLanes, SentNotify(stale) PROVE RepliesInserted'
  BY Zenon, <1>22, <1>t, <1>u DEF SentNotify, Goto, RepliesInserted, FirstAttempt
<1>23. ASSUME OnCloseConnection PROVE RepliesInserted'
  BY Zenon, <1>23, <1>t, <1>u DEF OnCloseConnection, Goto, RepliesInserted, FirstAttempt
<1>24. ASSUME NEW p \in network, Lose(p) PROVE RepliesInserted'
  BY Zenon, <1>24, <1>t, <1>u DEF Lose, Goto, RepliesInserted, FirstAttempt
<1> QED
  BY Zenon, <1>1, <1>2, <1>3, <1>4, <1>5, <1>6, <1>7, <1>8, <1>9, <1>10, <1>11, <1>12, <1>13, <1>14, <1>15, <1>16, <1>17, <1>18, <1>19, <1>20, <1>21, <1>22, <1>23, <1>24
  DEF Next, ControllerNext, ListenerNext, ReplyNext, SendNext

-----------------------------------------------------------------------------
(* The theorems.                                                           *)

\* The inductive invariant holds when the client starts: nothing was sent yet and
\* every channel is empty.
LEMMA InvInit ==
    Init => Inv
<1> SUFFICES ASSUME Init PROVE Inv
  BY Zenon
<1> USE ConstantsAssumption DEF Init
<1>1. TypeOK
  <2>1. Nothing \in Batch
    BY Zenon, BatchType
  <2>2. << >> \in Seq(Action)
    OBVIOUS
  <2>3. pc \in [Task -> Pc] /\ batch \in [Task -> Batch]
    BY Zenon, <2>1 DEF Pc
  <2> QED
    BY <2>1, <2>2, <2>3, Zenon DEF TypeOK
<1>2. TimerKeysAgree
  BY Zenon DEF TimerKeysAgree
<1>3. \A f \in Frag, type \in ActionType : ~Queued(f, type) /\ QueuedOnce(f, type)
  BY DEF Queued, QueuedOnce
<1>4. OneTransmission
  <2>1. \A f \in Frag : InOnePlace(f)
    <3>1. ASSUME NEW f \in Frag, NEW q \in Place, In(q, f) PROVE q = "todo"
      <4>1. ~(Nothing[f] > 0)
        BY DEF Nothing
      <4>2. ~Queued(f, "StartTimer")
        BY Zenon, <1>3 DEF ActionType
      <4>3. ~Among({}, f)
        BY Zenon DEF Among
      <4> QED
        BY Zenon, <3>1, <4>1, <4>2, <4>3 DEF In
    <3> QED
      BY Zenon, <3>1 DEF InOnePlace
  <2> QED
    BY <1>3, <2>1, SMTT(30) DEF OneTransmission, Single, ActionType
<1>5. InsertedOnce
  BY Zenon, <1>3 DEF InsertedOnce, ActionType, Nothing
<1>6. RepliesInserted
  BY Zenon DEF RepliesInserted, Task
<1> QED
  BY Zenon, <1>1, <1>2, <1>4, <1>5, <1>6 DEF Inv

\* Every step of every task keeps the inductive invariant.
LEMMA InvStep ==
    Inv /\ [Next]_vars => Inv'
<1> SUFFICES ASSUME Inv, [Next]_vars PROVE Inv'
  BY Zenon
<1>1. CASE Next
  <2>1. TypeOK' /\ TimerKeysAgree' /\ RepliesInserted'
    BY Zenon, <1>1, TypeStep, TimerKeysStep, RepliesInsertedStep DEF Inv
  <2>2. OneTransmission'
    BY Zenon, <1>1, PlaceStep, StartTimerStep, SingleStep DEF OneTransmission
  <2>3. InsertedOnce'
    BY Zenon, <1>1, InsertStep DEF InsertedOnce, InsertKept, InsertOK
  <2> QED
    BY Zenon, <2>1, <2>2, <2>3 DEF Inv
<1>2. CASE UNCHANGED vars
  <2>1. TypeOK' /\ TimerKeysAgree' /\ RepliesInserted'
    BY <1>2, SMTT(30) DEF Inv, vars, TypeOK, TimerKeysAgree, RepliesInserted
  <2>2. OneTransmission'
    <3>1. \A g \in Frag : \A q \in Place : In(q, g)' => In(q, g)
      BY <1>2 DEF vars, In, Among, Queued
    <3>2. \A g \in Frag : InOnePlace(g)'
      BY Zenon, <3>1, Stays DEF Inv, OneTransmission
    <3>3. \A g \in Frag : QueuedOnce(g, "StartTimer")'
      BY Zenon, <1>2, ActionsUnchanged DEF Inv, OneTransmission, vars, ActionType
    <3>4. /\ Single(buffer)' /\ Single(sending)' /\ Single(sentChannel)'
          /\ Single(retransmissions)' /\ Single(replyRequests)'
      BY Zenon, <1>2 DEF Inv, OneTransmission, vars, Single
    <3> QED
      BY Zenon, <3>2, <3>3, <3>4 DEF OneTransmission
  <2>3. InsertedOnce'
    BY Zenon, <1>2 DEF Inv, vars, InsertedOnce, ToInsert, Queued, QueuedOnce
  <2> QED
    BY Zenon, <2>1, <2>2, <2>3 DEF Inv
<1> QED
  BY Zenon, <1>1, <1>2

\* The inductive invariant holds throughout.
THEOREM Invariance ==
    Spec => []Inv
  BY InvInit, InvStep, PTL DEF Spec

\* The pipeline keeps the shape of its state.
THEOREM TypeCorrect ==
    Spec => []TypeOK
<1>1. Inv => TypeOK
  BY Zenon DEF Inv
<1> QED
  BY <1>1, Invariance, PTL

\* No stale key: DelayQueue::remove in handle_remove never meets a vacant or a
\* reused slot, and handle_expired_ack_timer never meets a removed entry.
THEOREM NoStaleKey ==
    Spec => []TimerKeysAgree
<1>1. Inv => TimerKeysAgree
  BY Zenon DEF Inv
<1> QED
  BY <1>1, Invariance, PTL

\* The next transmission of a fragment exists at most once, so StartTimer is
\* never handled for an entry whose timer is running.
THEOREM AtMostOneTransmission ==
    Spec => []OneTransmission
<1>1. Inv => OneTransmission
  BY Zenon DEF Inv
<1> QED
  BY <1>1, Invariance, PTL

\* An entry that handle_remove took out never comes back, whatever the tasks had
\* under way for it: handle_update_delay puts back only what it finds.
THEOREM AckedOnceForAll ==
    Spec => RemovedForGood
<1>1. Inv /\ [Next]_vars => [\A f \in Frag : Gone(f) => Gone(f)']_vars
  BY Zenon, InsertStep DEF InsertKept
<1> QED
  BY <1>1, Invariance, PTL DEF Spec, RemovedForGood
=============================================================================
