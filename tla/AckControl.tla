----------------------------- MODULE AckControl -----------------------------
(***************************************************************************)
(* The reliable-transmission pipeline of the Nym client: every fragment    *)
(* sent to the mixnet is kept as a pending acknowledgement and sent again  *)
(* when its timer expires, until its acknowledgement arrives.              *)
(*                                                                         *)
(* The tasks of src/common/client-core/src/client/real_messages_control    *)
(* (ActionController, the four listeners, OutQueueControl) and the part of *)
(* the ReplyController that resends replies run concurrently and talk      *)
(* through channels.  A step is what a task does between two points where  *)
(* another task can observe it.                                            *)
(*                                                                         *)
(* A fragment's packets are numbered: attempt 1 is the first packet,       *)
(* attempt n + 1 the one built by the n-th retransmission.  Each attempt   *)
(* is a new sphinx packet with a delay of its own, so the attempt stands   *)
(* for the delay; and the Arc<PendingAcknowledgement> is rebuilt whenever  *)
(* the delay is, so the attempt identifies the Arc too.  Attempt 0 means   *)
(* "none".                                                                 *)
(***************************************************************************)
EXTENDS Naturals, Sequences

CONSTANTS
    Frag,        \* fragments to be sent, the FragmentIdentifiers
    Anonymous,   \* those that answer an AnonymousSenderTag and use reply SURBs
    Connection,  \* those whose first packet uses a ConnectionId lane
    Key,         \* slots of the DelayQueue's slab, reused once vacated
    NoFrag,      \* content of a vacant slot
    NoKey,       \* queue_key = None
    MaxAttempts, \* bound: attempt MaxAttempts is neither lost nor late
    StaleLanes   \* lanes that may be silent for MSG_CONSIDERED_STALE_AFTER_SECS

Known == Frag \ Anonymous
Lane == {"General", "Retransmission", "ConnectionId"}

ASSUME ConstantsAssumption ==
    /\ Anonymous \subseteq Frag
    /\ Connection \subseteq Frag
    /\ NoFrag \notin Frag
    /\ NoKey \notin Key
    /\ MaxAttempts \in Nat
    /\ StaleLanes \subseteq Lane

VARIABLES
    todo,            \* fragments of the messages nobody has sent yet
    delay,           \* pending_acks_data: attempt of the entry, 0 = no entry
    queueKey,        \* pending_acks_data: the entry's DelayQueue key
    timers,          \* pending_acks_timers, slot -> fragment
    actions,         \* the ActionController's channel, in order per fragment
    retransmissions, \* expired acks (Weak) on their way to the listener
    replyRequests,   \* expired acks (Weak) on their way to the ReplyController
    surbless,        \* ReplyController.pending_retransmissions
    pc,              \* where each sending task is
    batch,           \* the acks it holds, or the packets it is about to send
    realChannel,     \* the batch in OutQueueControl's channel (capacity 1)
    buffer,          \* OutQueueControl.transmission_buffer, all lanes
    sending,         \* packets given to mix_tx and not yet notified
    sentChannel,     \* notifications for the SentNotificationListener
    network,         \* packets that, or whose acks, are in the mixnet
    dropped,         \* fragments removed together with their lane
    panicked         \* a task hit a panic, the client is going down

controllerVars == <<delay, queueKey, timers>>
taskVars == <<pc, batch>>
outQueueVars == <<buffer, sending, dropped>>
vars == <<todo, delay, queueKey, timers, actions, retransmissions,
          replyRequests, surbless, pc, batch, realChannel, buffer, sending,
          sentChannel, network, dropped, panicked>>

Task == {"InputMessageListener", "RetransmissionRequestListener",
         "ReplyController"}
Pc == {"idle", "prepare", "clear", "release", "forward", "insert"}
ActionType == {"InsertPending", "RemovePending", "StartTimer", "UpdateDelay"}

\* A Weak or an Arc of a pending ack, a packet, or a notification.
Ref == [frag : Frag, att : Nat \ {0}]
Action == {a \in [type : ActionType, att : Nat] :
             a.type # "RemovePending" => a.att > 0}
Batch == [Frag -> Nat]
Nothing == [f \in Frag |-> 0]
Only(f, n) == [g \in Frag |-> IF g = f THEN n ELSE 0]
Packets(b) == {[frag |-> f, att |-> b[f]] : f \in {g \in Frag : b[g] > 0}}

LaneOf(p) == IF p.att > 1 THEN "Retransmission"
             ELSE IF p.frag \in Connection THEN "ConnectionId" ELSE "General"

Push(f, type, n) ==
    actions' = [actions EXCEPT ![f] = Append(@, [type |-> type, att |-> n])]
\* Mutant: an action for every fragment, also those not in the batch.
PushBatchForAll(b, type) ==
    actions' = [f \in Frag |-> Append(actions[f], [type |-> type, att |-> b[f]])]
PushBatch(b, type) ==
    actions' = [f \in Frag |->
                  IF b[f] > 0 THEN Append(actions[f], [type |-> type, att |-> b[f]])
                              ELSE actions[f]]

\* The strong references to the ack data besides the one in pending_acks_data.
HeldBy(t, f, n) == pc[t] \in {"prepare", "clear", "release"} /\ batch[t][f] = n
Held(f, n) == \E t \in Task : HeldBy(t, f, n)
\* Weak::upgrade succeeds.
Upgrades(r) == delay[r.frag] = r.att \/ Held(r.frag, r.att)

Goto(t, where, b) ==
    /\ pc' = [pc EXCEPT ![t] = where]
    /\ batch' = [batch EXCEPT ![t] = b]

Init ==
    /\ todo = Frag
    /\ delay = Nothing
    /\ queueKey = [f \in Frag |-> NoKey]
    /\ timers = [k \in Key |-> NoFrag]
    /\ actions = [f \in Frag |-> << >>]
    /\ retransmissions = {}
    /\ replyRequests = {}
    /\ surbless = Nothing
    /\ pc = [t \in Task |-> "idle"]
    /\ batch = [t \in Task |-> Nothing]
    /\ realChannel = Nothing
    /\ buffer = {}
    /\ sending = {}
    /\ sentChannel = {}
    /\ network = {}
    /\ dropped = {}
    /\ panicked = FALSE

-----------------------------------------------------------------------------
(* InputMessageListener and MessageHandler: sending new messages.          *)

\* A message for a known recipient: the pending acks are inserted before the
\* packets are forwarded; without a valid topology the message is given up.
TrySplitAndSendNonReplyMessage(S) ==
    LET first == [f \in Frag |-> IF f \in S THEN 1 ELSE 0] IN
    /\ pc["InputMessageListener"] = "idle"
    /\ S # {}
    /\ S \subseteq todo \cap Known
    /\ todo' = todo \ S
    /\ \/ /\ PushBatch(first, "InsertPending")
          /\ Goto("InputMessageListener", "forward", first)
       \/ UNCHANGED <<actions, pc, batch>>
    /\ UNCHANGED <<controllerVars, retransmissions, replyRequests, surbless,
                   realChannel, outQueueVars, sentChannel, network, panicked>>

\* A reply: here the packets are forwarded first and the pending acks are
\* inserted once the channel took them.
TrySendReplyChunks(S) ==
    /\ pc["ReplyController"] = "idle"
    /\ S # {}
    /\ S \subseteq todo \cap Anonymous
    /\ todo' = todo \ S
    /\ Goto("ReplyController", "forward", [f \in Frag |-> IF f \in S THEN 1 ELSE 0])
    /\ UNCHANGED <<controllerVars, actions, retransmissions, replyRequests,
                   surbless, realChannel, outQueueVars, sentChannel, network,
                   panicked>>

FirstAttempt(b) == \E f \in Frag : b[f] = 1

\* forward_messages: waits for room in the channel of OutQueueControl.
ForwardMessages(t) ==
    /\ pc[t] = "forward"
    /\ realChannel = Nothing
    /\ realChannel' = batch[t]
    /\ IF t = "ReplyController" /\ FirstAttempt(batch[t])
       THEN Goto(t, "insert", batch[t])
       ELSE Goto(t, "idle", Nothing)
    /\ UNCHANGED <<todo, controllerVars, actions, retransmissions,
                   replyRequests, surbless, outQueueVars, sentChannel, network,
                   panicked>>

InsertPendingAcks ==
    /\ pc["ReplyController"] = "insert"
    /\ PushBatch(batch["ReplyController"], "InsertPending")
    /\ Goto("ReplyController", "idle", Nothing)
    /\ UNCHANGED <<todo, controllerVars, retransmissions, replyRequests,
                   surbless, realChannel, outQueueVars, sentChannel, network,
                   panicked>>
-----------------------------------------------------------------------------
(* OutQueueControl, one packet at a time, and the mixnet behind it.        *)

\* The stream yields the next packet, taking a waiting batch into the buffer
\* first, and on_message hands it to mix_tx.
PollNextAndSend(p) ==
    /\ sending = {}
    /\ p \in buffer \cup Packets(realChannel)
    /\ buffer' = (buffer \cup Packets(realChannel)) \ {p}
    /\ realChannel' = Nothing
    /\ sending' = {p}
    /\ network' = network \cup {p}
    /\ UNCHANGED <<todo, controllerVars, actions, retransmissions,
                   replyRequests, surbless, taskVars, sentChannel, dropped,
                   panicked>>

\* Mutant: the packet is sent and nobody is told.
SentWithoutNotify(stale) ==
    /\ sending # {}
    /\ sending' = {}
    /\ UNCHANGED <<todo, controllerVars, actions, retransmissions, buffer,
                   replyRequests, surbless, taskVars, realChannel, network,
                   sentChannel, dropped, panicked>>

\* The rest of on_message: sent_notify, then prune_stale_connections.
SentNotify(stale) ==
    LET pruned == {p \in buffer : LaneOf(p) \in stale} IN
    /\ sending # {}
    /\ sentChannel' = sentChannel \cup sending
    /\ sending' = {}
    /\ buffer' = buffer \ pruned
    /\ dropped' = dropped \cup {p.frag : p \in pruned}
    /\ UNCHANGED <<todo, controllerVars, actions, retransmissions,
                   replyRequests, surbless, taskVars, realChannel, network,
                   panicked>>

\* ConnectionCommand::Close is looked at before the next packet is taken.
OnCloseConnection ==
    LET closed == {p \in buffer : LaneOf(p) = "ConnectionId"} IN
    /\ sending = {}
    /\ closed # {}
    /\ buffer' = buffer \ closed
    /\ dropped' = dropped \cup {p.frag : p \in closed}
    /\ UNCHANGED <<todo, controllerVars, actions, retransmissions,
                   replyRequests, surbless, taskVars, realChannel, sending,
                   sentChannel, network, panicked>>

\* The packet or its ack is lost on the way.
Lose(p) ==
    /\ p \in network
    /\ p.att < MaxAttempts
    /\ network' = network \ {p}
    /\ UNCHANGED <<todo, controllerVars, actions, retransmissions,
                   replyRequests, surbless, taskVars, realChannel,
                   outQueueVars, sentChannel, panicked>>

-----------------------------------------------------------------------------
(* The listeners that only translate an event into an Action.              *)

\* AcknowledgementListener: the ack of p came back.
OnAck(p) ==
    /\ p \in network
    /\ network' = network \ {p}
    /\ Push(p.frag, "RemovePending", 0)
    /\ UNCHANGED <<todo, controllerVars, retransmissions, replyRequests,
                   surbless, taskVars, realChannel, outQueueVars, sentChannel,
                   panicked>>

\* SentNotificationListener.  The attempt is history: the Action of the code
\* carries the fragment's identifier only.
OnSentMessage(p) ==
    /\ p \in sentChannel
    /\ sentChannel' = sentChannel \ {p}
    /\ Push(p.frag, "StartTimer", p.att)
    /\ UNCHANGED <<todo, controllerVars, retransmissions, replyRequests,
                   surbless, taskVars, realChannel, outQueueVars, network,
                   panicked>>

-----------------------------------------------------------------------------
(* ActionController: one Action or one expired timer at a time.            *)

\* The next Action of f, taken off the channel.
NextAction(f, type) ==
    /\ actions[f] # << >>
    /\ Head(actions[f]).type = type
    /\ actions' = [actions EXCEPT ![f] = Tail(@)]

controllerUnchanged == <<todo, replyRequests, surbless, taskVars, realChannel,
                         outQueueVars, sentChannel, network>>

HandleInsert(f) ==
    /\ NextAction(f, "InsertPending")
    /\ delay' = [delay EXCEPT ![f] = Head(actions[f]).att]
    /\ queueKey' = [queueKey EXCEPT ![f] = NoKey]
    /\ UNCHANGED <<timers, retransmissions, panicked, controllerUnchanged>>

\* The new timer's key replaces the entry's, even one that is still running.
HandleStartTimer(f) ==
    /\ NextAction(f, "StartTimer")
    /\ IF delay[f] > 0
       THEN \E k \in Key :
              /\ timers[k] = NoFrag
              /\ timers' = [timers EXCEPT ![k] = f]
              /\ queueKey' = [queueKey EXCEPT ![f] = k]
       ELSE UNCHANGED <<timers, queueKey>>
    /\ UNCHANGED <<delay, retransmissions, panicked, controllerUnchanged>>

\* Mutant: the entry goes, its timer keeps running.
RemoveWithoutCancel(f) ==
    /\ NextAction(f, "RemovePending")
    /\ delay' = [delay EXCEPT ![f] = 0]
    /\ queueKey' = [queueKey EXCEPT ![f] = NoKey]
    /\ UNCHANGED <<timers, retransmissions, panicked, controllerUnchanged>>

\* DelayQueue::remove panics on a key whose slot is vacant.
HandleRemove(f) ==
    /\ NextAction(f, "RemovePending")
    /\ delay' = [delay EXCEPT ![f] = 0]
    /\ queueKey' = [queueKey EXCEPT ![f] = NoKey]
    /\ timers' = IF queueKey[f] = NoKey THEN timers
                 ELSE [timers EXCEPT ![queueKey[f]] = NoFrag]
    /\ panicked' = (queueKey[f] # NoKey /\ timers[queueKey[f]] = NoFrag)
    /\ UNCHANGED <<retransmissions, controllerUnchanged>>

\* Arc::try_unwrap(..).unwrap(): the task unwinds while another holds the Arc.
TryUnwrapPanics(f) ==
    /\ actions[f] # << >>
    /\ Head(actions[f]).type = "UpdateDelay"
    /\ delay[f] > 0
    /\ Held(f, delay[f])
    /\ panicked' = TRUE
    /\ UNCHANGED <<controllerVars, actions, retransmissions, controllerUnchanged>>

\* Mutant: the updated entry is inserted whether or not there was one.
UpdateDelayAlways(f) ==
    /\ NextAction(f, "UpdateDelay")
    /\ delay[f] > 0 => ~Held(f, delay[f])
    /\ delay' = [delay EXCEPT ![f] = Head(actions[f]).att]
    /\ UNCHANGED <<queueKey, timers, retransmissions, panicked, controllerUnchanged>>

HandleUpdateDelay(f) ==
    /\ NextAction(f, "UpdateDelay")
    /\ delay[f] > 0 => ~Held(f, delay[f])
    /\ delay' = IF delay[f] = 0 THEN delay
                ELSE [delay EXCEPT ![f] = Head(actions[f]).att]
    /\ UNCHANGED <<queueKey, timers, retransmissions, panicked, controllerUnchanged>>

\* Mutant: the entry keeps the key of the timer that fired.
ExpireKeepingKey(k) ==
    LET f == timers[k] IN
    /\ f # NoFrag
    /\ 0 < delay[f] /\ delay[f] < MaxAttempts
    /\ timers' = [timers EXCEPT ![k] = NoFrag]
    /\ retransmissions' = retransmissions \cup {[frag |-> f, att |-> delay[f]]}
    /\ UNCHANGED <<delay, queueKey, actions, panicked, controllerUnchanged>>

\* The timer in slot k fires; the last attempt's ack comes before its timer.
HandleExpiredAckTimer(k) ==
    LET f == timers[k] IN
    /\ f # NoFrag
    /\ delay[f] < MaxAttempts
    /\ timers' = [timers EXCEPT ![k] = NoFrag]
    /\ IF delay[f] = 0 THEN UNCHANGED <<queueKey, retransmissions, panicked>>
       ELSE IF queueKey[f] = NoKey
       THEN panicked' = TRUE /\ UNCHANGED <<queueKey, retransmissions>>
       ELSE /\ queueKey' = [queueKey EXCEPT ![f] = NoKey]
            /\ retransmissions' = retransmissions
                                    \cup {[frag |-> f, att |-> delay[f]]}
            /\ UNCHANGED panicked
    /\ UNCHANGED <<delay, actions, controllerUnchanged>>
-----------------------------------------------------------------------------
(* RetransmissionRequestListener.                                          *)

listenerUnchanged == <<todo, controllerVars, surbless, realChannel,
                       outQueueVars, sentChannel, network, panicked>>

\* Mutant: no return after the reply was handed over.
RequestBothWays(r) ==
    /\ pc["RetransmissionRequestListener"] = "idle"
    /\ r \in retransmissions
    /\ retransmissions' = retransmissions \ {r}
    /\ replyRequests' = IF r.frag \in Anonymous /\ Upgrades(r)
                        THEN replyRequests \cup {r} ELSE replyRequests
    /\ IF Upgrades(r)
       THEN Goto("RetransmissionRequestListener", "prepare", Only(r.frag, r.att))
       ELSE UNCHANGED taskVars
    /\ UNCHANGED <<actions, listenerUnchanged>>

\* on_retransmission_request up to the first await.  A reply is handed to the
\* ReplyController while this task's own Arc lives until the handler returns.
OnRetransmissionRequest(r) ==
    /\ pc["RetransmissionRequestListener"] = "idle"
    /\ r \in retransmissions
    /\ retransmissions' = retransmissions \ {r}
    /\ IF ~Upgrades(r) THEN UNCHANGED <<taskVars, replyRequests>>
       ELSE IF r.frag \in Anonymous
       THEN /\ replyRequests' = replyRequests \cup {r}
            /\ Goto("RetransmissionRequestListener", "release", Only(r.frag, r.att))
       ELSE /\ Goto("RetransmissionRequestListener", "prepare", Only(r.frag, r.att))
            /\ UNCHANGED replyRequests
    /\ UNCHANGED <<actions, listenerUnchanged>>

ReleaseArc ==
    /\ pc["RetransmissionRequestListener"] = "release"
    /\ Goto("RetransmissionRequestListener", "idle", Nothing)
    /\ UNCHANGED <<actions, retransmissions, replyRequests, listenerUnchanged>>

\* Mutant: the error is returned without starting the timer.
PreparationFailsSilently(f) ==
    /\ pc["RetransmissionRequestListener"] = "prepare"
    /\ batch["RetransmissionRequestListener"][f] > 0
    /\ Goto("RetransmissionRequestListener", "idle", Nothing)
    /\ UNCHANGED <<actions, retransmissions, replyRequests, listenerUnchanged>>

\* No valid topology: the timer is started again.
RetransmissionPreparationFails(f) ==
    LET n == batch["RetransmissionRequestListener"][f] IN
    /\ pc["RetransmissionRequestListener"] = "prepare"
    /\ n > 0
    /\ Push(f, "StartTimer", n)
    /\ Goto("RetransmissionRequestListener", "idle", Nothing)
    /\ UNCHANGED <<retransmissions, replyRequests, listenerUnchanged>>

\* The new packet is ready.  A strong count of 1 means that the entry is gone;
\* otherwise the Arc is dropped, then the delay updated, then the packet sent.
RetransmissionPrepared(f) ==
    LET n == batch["RetransmissionRequestListener"][f] IN
    /\ pc["RetransmissionRequestListener"] = "prepare"
    /\ n > 0
    /\ IF delay[f] = n \/ HeldBy("ReplyController", f, n)
       THEN /\ Push(f, "UpdateDelay", n + 1)
            /\ Goto("RetransmissionRequestListener", "forward", Only(f, n + 1))
       ELSE /\ Goto("RetransmissionRequestListener", "idle", Nothing)
            /\ UNCHANGED actions
    /\ UNCHANGED <<retransmissions, replyRequests, listenerUnchanged>>

-----------------------------------------------------------------------------
(* ReplyController: resending replies.  Whether there is a SURB to spare   *)
(* is left open here.                                                      *)

replyUnchanged == <<todo, controllerVars, retransmissions, realChannel,
                    outQueueVars, sentChannel, network, panicked>>

\* handle_reply_retransmission: with a SURB the packet is prepared, otherwise
\* buffer_pending_ack keeps the Weak unless one is already waiting.
HandleReplyRetransmission(r) ==
    /\ pc["ReplyController"] = "idle"
    /\ r \in replyRequests
    /\ replyRequests' = replyRequests \ {r}
    /\ IF ~Upgrades(r) THEN UNCHANGED <<taskVars, surbless>>
       ELSE \/ /\ Goto("ReplyController", "prepare", Only(r.frag, r.att))
               /\ UNCHANGED surbless
            \/ /\ surbless' = IF surbless[r.frag] > 0 THEN surbless
                              ELSE [surbless EXCEPT ![r.frag] = r.att]
               /\ UNCHANGED taskVars
    /\ UNCHANGED <<actions, replyUnchanged>>

\* try_clear_pending_retransmission: SURBs arrived for the waiting set S.
TryClearPendingRetransmission(S) ==
    LET live == [f \in Frag |->
                   IF f \in S /\ Upgrades([frag |-> f, att |-> surbless[f]])
                   THEN surbless[f] ELSE 0] IN
    /\ pc["ReplyController"] = "idle"
    /\ S # {}
    /\ \A f \in S : surbless[f] > 0
    /\ surbless' = [f \in Frag |-> IF f \in S THEN 0 ELSE surbless[f]]
    /\ IF live = Nothing THEN UNCHANGED taskVars
       ELSE Goto("ReplyController", "clear", live)
    /\ UNCHANGED <<actions, replyRequests, replyUnchanged>>

\* No valid topology: the acks wait for the next SURBs.  A single packet goes
\* back as it is, a cleared queue without the acks that were received meanwhile.
ReplyPreparationFails ==
    LET held == batch["ReplyController"]
        others(f) == delay[f] = held[f]
                       \/ HeldBy("RetransmissionRequestListener", f, held[f]) IN
    /\ \/ /\ pc["ReplyController"] = "prepare"
          /\ surbless' = [f \in Frag |-> IF held[f] > 0 /\ surbless[f] = 0
                                         THEN held[f] ELSE surbless[f]]
       \/ /\ pc["ReplyController"] = "clear"
          /\ surbless' = [f \in Frag |-> IF held[f] > 0 /\ others(f)
                                         THEN held[f] ELSE surbless[f]]
    /\ Goto("ReplyController", "idle", Nothing)
    /\ UNCHANGED <<actions, replyRequests, replyUnchanged>>

\* Mutant: the packets are forwarded, the delays stay.
ReplyPreparedSameDelay ==
    LET held == batch["ReplyController"] IN
    /\ pc["ReplyController"] \in {"prepare", "clear"}
    /\ Goto("ReplyController", "forward",
            [f \in Frag |-> IF held[f] > 0 THEN held[f] + 1 ELSE 0])
    /\ UNCHANGED <<actions, surbless, replyRequests, replyUnchanged>>

\* The Arcs are dropped, the delays updated and the packets forwarded.
ReplyPrepared ==
    LET held == batch["ReplyController"]
        next == [f \in Frag |-> IF held[f] > 0 THEN held[f] + 1 ELSE 0] IN
    /\ pc["ReplyController"] \in {"prepare", "clear"}
    /\ PushBatch(next, "UpdateDelay")
    /\ Goto("ReplyController", "forward", next)
    /\ UNCHANGED <<surbless, replyRequests, replyUnchanged>>

-----------------------------------------------------------------------------
ControllerNext ==
    \/ \E f \in Frag : \/ HandleInsert(f)
                       \/ HandleStartTimer(f)
                       \/ HandleRemove(f)
                       \/ HandleUpdateDelay(f)
                       \/ TryUnwrapPanics(f)
    \/ \E k \in Key : HandleExpiredAckTimer(k)

ListenerNext ==
    \/ \E p \in network : OnAck(p)
    \/ \E p \in sentChannel : OnSentMessage(p)
    \/ \E r \in retransmissions : OnRetransmissionRequest(r)
    \/ ReleaseArc
    \/ \E f \in Frag : \/ RetransmissionPreparationFails(f)
                       \/ RetransmissionPrepared(f)

ReplyNext ==
    \/ \E r \in replyRequests : HandleReplyRetransmission(r)
    \/ \E S \in SUBSET Anonymous : TryClearPendingRetransmission(S)
    \/ ReplyPreparationFails
    \/ ReplyPrepared

SendNext ==
    \/ \E S \in SUBSET todo : \/ TrySplitAndSendNonReplyMessage(S)
                              \/ TrySendReplyChunks(S)
    \/ \E t \in Task : ForwardMessages(t)
    \/ InsertPendingAcks
    \/ \E p \in buffer \cup Packets(realChannel) : PollNextAndSend(p)
    \/ \E stale \in SUBSET StaleLanes : SentNotify(stale)
    \/ OnCloseConnection
    \/ \E p \in network : Lose(p)

Next == ~panicked /\ (ControllerNext \/ ListenerNext \/ ReplyNext \/ SendNext)

Spec == Init /\ [][Next]_vars
-----------------------------------------------------------------------------
(* Fairness of the liveness property: every task keeps being scheduled by  *)
(* the runtime; tokio serves the senders of a bounded channel in order, so *)
(* a waiting forward_messages gets its slot (strong fairness); a valid     *)
(* topology is available again and again; and the ack of attempt           *)
(* MaxAttempts arrives.                                                    *)
Fairness ==
    /\ \A f \in Frag :
         /\ WF_vars(~panicked /\ HandleInsert(f))
         /\ WF_vars(~panicked /\ HandleStartTimer(f))
         /\ WF_vars(~panicked /\ HandleRemove(f))
         /\ WF_vars(~panicked /\ HandleUpdateDelay(f))
         /\ SF_vars(~panicked /\ RetransmissionPrepared(f))
    /\ \A k \in Key : WF_vars(~panicked /\ HandleExpiredAckTimer(k))
    /\ \A t \in Task : SF_vars(~panicked /\ ForwardMessages(t))
    /\ WF_vars(~panicked /\ \E p \in sentChannel : OnSentMessage(p))
    /\ WF_vars(~panicked /\ \E p \in network : p.att = MaxAttempts /\ OnAck(p))
    /\ WF_vars(~panicked /\ \E r \in retransmissions : OnRetransmissionRequest(r))
    /\ WF_vars(~panicked /\ \E p \in buffer \cup Packets(realChannel) : PollNextAndSend(p))
    /\ WF_vars(~panicked /\ \E stale \in SUBSET StaleLanes : SentNotify(stale))

FairSpec == Spec /\ Fairness

-----------------------------------------------------------------------------
(* Properties.                                                             *)

\* The shape of the state.
TypeOK ==
    /\ todo \in SUBSET Frag
    /\ delay \in Batch
    /\ queueKey \in [Frag -> Key \cup {NoKey}]
    /\ timers \in [Key -> Frag \cup {NoFrag}]
    /\ actions \in [Frag -> Seq(Action)]
    /\ retransmissions \in SUBSET Ref
    /\ replyRequests \in SUBSET Ref
    /\ surbless \in Batch
    /\ pc \in [Task -> Pc]
    /\ batch \in [Task -> Batch]
    /\ realChannel \in Batch
    /\ buffer \in SUBSET Ref
    /\ sending \in SUBSET Ref
    /\ sentChannel \in SUBSET Ref
    /\ network \in SUBSET Ref
    /\ dropped \in SUBSET Frag
    /\ panicked \in BOOLEAN

\* "We MUST GUARANTEE that we do not have a stale key" (handle_remove): the key
\* in a pending ack is the key of that fragment's running timer, and every
\* running timer is known to the pending ack it will expire for, so no expiry
\* meets a removed ack or one that was not scheduled.
TimerKeysAgree ==
    /\ \A f \in Frag, k \in Key : queueKey[f] = k <=> timers[k] = f
    /\ \A f \in Frag : queueKey[f] # NoKey => delay[f] > 0

\* Where the next transmission of a fragment can be: not yet sent, with a task,
\* on one of the channels, running as a timer, or waiting for a SURB.
Place == Task \cup {"todo", "channel", "buffer", "sending", "sent", "action",
                     "timer", "expired", "reply", "surbless"}

Among(S, f) == \E r \in S : r.frag = f
Queued(f, type) == \E i \in DOMAIN actions[f] : actions[f][i].type = type

In(p, f) ==
    \/ p \in Task /\ pc[p] \in {"prepare", "clear", "forward"} /\ batch[p][f] > 0
    \/ p = "todo" /\ f \in todo
    \/ p = "channel" /\ realChannel[f] > 0
    \/ p = "buffer" /\ Among(buffer, f)
    \/ p = "sending" /\ Among(sending, f)
    \/ p = "sent" /\ Among(sentChannel, f)
    \/ p = "action" /\ Queued(f, "StartTimer")
    \/ p = "timer" /\ queueKey[f] # NoKey
    \/ p = "expired" /\ Among(retransmissions, f)
    \/ p = "reply" /\ Among(replyRequests, f)
    \/ p = "surbless" /\ surbless[f] > 0

InOnePlace(f) ==
    \A p \in Place : In(p, f) => \A q \in Place : In(q, f) => p = q
Single(S) == \A r \in S, s \in S : r.frag = s.frag => r = s
QueuedOnce(f, type) ==
    \A i \in DOMAIN actions[f], j \in DOMAIN actions[f] :
      actions[f][i].type = type /\ actions[f][j].type = type => i = j

\* Starting a timer twice for one pending ack was once a panic and is now only a
\* comment (handle_start_timer).  It cannot happen: the next transmission of a
\* fragment is in one place only, so there is never a second packet queued, a
\* second StartTimer, or a timer beside a packet.
OneTransmission ==
    /\ \A f \in Frag : InOnePlace(f)
    /\ \A f \in Frag : QueuedOnce(f, "StartTimer")
    /\ Single(buffer) /\ Single(sending) /\ Single(sentChannel)
    /\ Single(retransmissions) /\ Single(replyRequests)

\* The pending ack of f has not been given to the ActionController yet.
ToInsert(f) ==
    \/ f \in todo
    \/ /\ pc["ReplyController"] \in {"forward", "insert"}
       /\ batch["ReplyController"][f] = 1

\* Each pending ack is handed to handle_insert once.  A part of the inductive
\* invariant, about the tasks only: fragments are told apart by Frag, while the
\* code tells them apart by fragment identifiers with a random set id.  Whether
\* two messages can share an identifier is not modelled; handle_insert answers a
\* duplicate, "since we've seen this actually happen in the wild", with an error.
InsertedOnce ==
    /\ \A f \in Frag : ToInsert(f) => ~Queued(f, "InsertPending") /\ delay[f] = 0
    /\ \A f \in Frag : Queued(f, "InsertPending") => delay[f] = 0
    /\ \A f \in Frag : QueuedOnce(f, "InsertPending")

\* A batch the ReplyController forwards holds first packets only or none, and the
\* pending acks it is about to insert are those of a reply that was just sent.
RepliesInserted ==
    LET b == batch["ReplyController"] IN
    /\ pc["ReplyController"] = "forward" /\ FirstAttempt(b) => \A f \in Frag : b[f] < 2
    /\ pc["ReplyController"] = "insert" =>
         \A f \in Frag : b[f] < 2 /\ (f \in todo => b[f] = 0)

\* The pending ack of f was inserted and has been removed since.
Gone(f) == ~ToInsert(f) /\ ~Queued(f, "InsertPending") /\ delay[f] = 0

\* "Tried to UPDATE TIMER on pending ack that is already gone!"
\* (handle_update_delay): an entry that was removed never comes back, although
\* the retransmission that was being prepared when its ack arrived still pushes
\* an UpdateDelay, a packet and a StartTimer, and a late request may follow.
RemovedForGood == [][\A f \in Frag : Gone(f) => Gone(f)']_vars

\* The inductive invariant behind TimerKeysAgree.
Inv == TypeOK /\ TimerKeysAgree /\ OneTransmission /\ InsertedOnce /\ RepliesInserted

\* The panics of ActionController are unreachable: try_unwrap in
\* handle_update_delay, the unscheduled expiry, the removal of a vacant key.
NoPanic == ~panicked

\* A pending ack can still make progress.
Underway(f) ==
    \/ queueKey[f] # NoKey
    \/ \E i \in DOMAIN actions[f] :
         actions[f][i].type \in {"StartTimer", "RemovePending"}
    \/ \E t \in Task : batch[t][f] > 0 /\ pc[t] \in {"prepare", "clear", "forward"}
    \/ realChannel[f] > 0
    \/ \E p \in buffer \cup sending \cup sentChannel : p.frag = f
    \/ [frag |-> f, att |-> delay[f]] \in retransmissions \cup replyRequests
    \/ surbless[f] = delay[f]

\* No pending ack is "permanently stuck in memory" (on_retransmission_request):
\* as long as its lane was not removed with its packet in it, something that is
\* under way will start its timer, send it again or remove it.
NeverStuck == \A f \in Frag : delay[f] > 0 => Underway(f) \/ f \in dropped

\* "UpdateTimer will HAVE TO be executed before StartTimer": a timer is started
\* with the delay of the packet whose sending started it.
TimerUsesSentDelay ==
    \A f \in Frag :
      /\ actions[f] # << >>
      /\ Head(actions[f]).type = "StartTimer"
      /\ delay[f] > 0
      => delay[f] = Head(actions[f]).att

\* A pending ack is eventually removed, whatever was lost before the last
\* attempt, unless its packet went away with its lane.
EventuallyAcked ==
    \A f \in Known : delay[f] > 0 ~> (delay[f] = 0 \/ f \in dropped)
=============================================================================
