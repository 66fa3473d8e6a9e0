---------------------------- MODULE GatewayClients ----------------------------
(***************************************************************************)
(* The gateway's side of one client (src/gateway/src/node): the handlers   *)
(* of its websocket connections, the store of active handlers, the hand-   *)
(* over to a new connection, the inbox on disk, the receivers of mix       *)
(* packets, and the client's bandwidth.                                    *)
(*                                                                         *)
(* Everything in the code is keyed by the client's address and the         *)
(* handlers of different clients share nothing, so there is one client.    *)
(* A connection is opened once, and a mix packet received once.            *)
(*                                                                         *)
(* An action is what a task does between two awaits.  pc[c] is the await   *)
(* the handler of connection c is at.  A write to a socket that succeeds   *)
(* delivers; one that its client does not read may never end.  A restart   *)
(* of the gateway loses all but the database, and so does a panic: the     *)
(* binaries are built with panic = "abort".                                *)
(***************************************************************************)
EXTENDS Integers, Sequences, FiniteSets, FiniteSetsExt, Functions

CONSTANTS
    Conn,            \* websocket connections
    NoConn,          \* no connection
    Gone,            \* stands for a handler that no longer waits for the answer
    Receiver,        \* tasks that read from a mixnode's connection
    Msg,             \* messages for the client
    NoMsg,           \* a receiver holds no message
    Credential,      \* bandwidth credentials of the client
    NoCredential,    \* a handler handles no credential
    RetrievalLimit,  \* InboxManager.retrieval_limit
    Environments     \* what may happen: which connections are opened, which messages
                     \* arrive, in their order, which credentials are used, how often
                     \* testnet bandwidth is claimed and the gateway restarts

Environment == [conns : SUBSET Conn, msgs : Seq(Msg), credentials : SUBSET Credential,
                claims : Nat, restarts : Nat]

ASSUME ConstantsAssumption ==
    /\ NoConn \notin Conn /\ Gone \notin Conn /\ Gone # NoConn
    /\ NoMsg \notin Msg
    /\ NoCredential \notin Credential
    /\ IsFiniteSet(Conn)
    /\ RetrievalLimit \in Nat \ {0}
    /\ Environments \subseteq Environment

VARIABLES
    pc,           \* what the handler of a connection is waiting for
    registered,   \* ActiveClientsStore: the connection whose channels it holds
    target,       \* the connection a fresh handler asked to ping its client
    requests,     \* is_active_request_receiver: the handlers that asked, oldest first
    pending,      \* is_active_ping_pending_reply: the handler that waits for the pong
    timer,        \* ping_timeout is running
    reply,        \* the oneshot channel on which a fresh handler is answered
    stored,       \* all messages ever stored; the id of a message is its index
    inbox,        \* ids of the rows in message_store
    mark,         \* number of messages stored when a handler began to push
    cursor,       \* start_next_after, 0 for None
    batch,        \* ids of the messages a fresh handler has retrieved
    queue,        \* mix_receiver of a handler
    cache,        \* clients_store_cache of a receiver
    pushing,      \* the message a receiver has a sender for
    storing,      \* the message a receiver is storing
    keys,         \* whose handshake derived the keys in the database and the client's
    bandwidth,    \* available_bandwidth: whether there is a row, and its value
    spent,        \* spent_credential
    credential,   \* the credential a handler is verifying or crediting
    acked,        \* messages whose ack was forwarded
    delivered,    \* messages written to a socket
    lost,         \* messages dropped with a handler or because storing failed
    credited,     \* how often a credential has been credited
    env           \* what may still happen

handlerVars == <<pc, registered>>
pingVars == <<target, requests, pending, timer, reply>>
inboxVars == <<stored, inbox, mark, cursor, batch>>
mixVars == <<queue, cache, pushing, storing, acked, delivered, lost>>
bandwidthVars == <<bandwidth, spent, credential, credited>>
vars == <<handlerVars, pingVars, inboxVars, mixVars, keys, bandwidthVars, env>>

Init ==
    /\ pc = [c \in Conn |-> "none"]
    /\ registered = NoConn
    /\ target = [c \in Conn |-> NoConn]
    /\ requests = [c \in Conn |-> <<>>]
    /\ pending = [c \in Conn |-> NoConn]
    /\ timer = [c \in Conn |-> FALSE]
    /\ reply = [c \in Conn |-> "none"]
    /\ stored = <<>>
    /\ inbox = {}
    /\ mark = [c \in Conn |-> 0]
    /\ cursor = [c \in Conn |-> 0]
    /\ batch = [c \in Conn |-> {}]
    /\ queue = [c \in Conn |-> <<>>]
    /\ cache = [r \in Receiver |-> NoConn]
    /\ pushing = [r \in Receiver |-> NoMsg]
    /\ storing = [r \in Receiver |-> NoMsg]
    /\ keys = [stored |-> NoConn, client |-> NoConn]
    /\ bandwidth = [row |-> FALSE, available |-> 0]
    /\ spent = {}
    /\ credential = [c \in Conn |-> NoCredential]
    /\ acked = {}
    /\ delivered = {}
    /\ lost = {}
    /\ credited = [k \in Credential |-> 0]
    /\ env \in Environments

-------------------------------------------------------------------------------
(* The store of active handlers.                                              *)

\* A served client is being sent a ping or a response, or a mix message.
Writing == {"writing", "sending"}

Serving == {"active", "verifying", "crediting", "forwarding"} \union Writing

\* is_closed: the handler, and with it the receiving end of its channels, is gone.
IsClosed(c) == pc[c] \notin Serving \union {"dropping"}

\* get_sender, get_remote_client, is_active: a stale entry is removed.
Lookup(r) == IF r # NoConn /\ IsClosed(r) THEN NoConn ELSE r

\* disconnect: removes whatever is stored for the client's address.
Disconnect == registered' = NoConn

-------------------------------------------------------------------------------
(* FreshHandler: a connection until its client is authenticated.              *)

\* Listener::run and perform_websocket_handshake.
Accept(c) ==
    /\ pc[c] = "none"
    /\ c \in env.conns
    /\ env' = [env EXCEPT !.conns = @ \ {c}]
    /\ pc' = [pc EXCEPT ![c] = "fresh"]
    /\ UNCHANGED <<registered, pingVars, inboxVars, mixVars, keys, bandwidthVars>>

\* The socket fails before the client is authenticated.
FreshFails(c) ==
    /\ pc[c] \in {"fresh", "pushing", "responding"}
    /\ pc' = [pc EXCEPT ![c] = "closed"]
    /\ batch' = [batch EXCEPT ![c] = {}]
    /\ UNCHANGED <<registered, pingVars, stored, inbox, mark, cursor, mixVars, keys,
                   bandwidthVars, env>>

\* A database operation fails: the client is sent the error and may ask again.
StorageFails(c) ==
    /\ pc[c] \in {"authenticating", "registering", "creating", "retrieving", "removing"}
    /\ pc' = [pc EXCEPT ![c] = "fresh"]
    /\ batch' = [batch EXCEPT ![c] = {}]
    /\ UNCHANGED <<registered, pingVars, stored, inbox, mark, cursor, mixVars, keys,
                   bandwidthVars, env>>

\* handle_authenticate, up to the first await: if there is another handler, it is
\* asked to ping its client.
HandleAuthenticate(c) ==
    /\ pc[c] = "fresh"
    /\ keys.client # NoConn
    /\ LET other == Lookup(registered)
       IN  /\ registered' = other
           /\ IF other = NoConn
              THEN /\ pc' = [pc EXCEPT ![c] = "authenticating"]
                   /\ UNCHANGED pingVars
              ELSE /\ pc' = [pc EXCEPT ![c] = "waiting"]
                   /\ target' = [target EXCEPT ![c] = other]
                   /\ requests' = [requests EXCEPT ![other] = Append(@, c)]
                   /\ UNCHANGED <<pending, timer, reply>>
    /\ UNCHANGED <<inboxVars, mixVars, keys, bandwidthVars, env>>

\* Nobody waits for the answers to c's requests any more.
Abandoned(q, c) == [i \in 1 .. Len(q) |-> IF q[i] = c THEN Gone ELSE q[i]]

\* Mutant: a clone of the other handler's sender is kept.
StopWaitingLeaking(c) ==
    /\ reply' = [reply EXCEPT ![c] = "none"]
    /\ requests' = [d \in Conn |-> Abandoned(requests[d], c)]
    /\ pending' = [d \in Conn |-> IF pending[d] = c THEN Gone ELSE pending[d]]
    /\ UNCHANGED <<target, timer>>

\* The receiving end of c's oneshot channel is dropped, and so is the other handler's
\* sender.
StopWaiting(c) ==
    /\ target' = [target EXCEPT ![c] = NoConn]
    /\ reply' = [reply EXCEPT ![c] = "none"]
    /\ requests' = [d \in Conn |-> Abandoned(requests[d], c)]
    /\ pending' = [d \in Conn |-> IF pending[d] = c THEN Gone ELSE pending[d]]
    /\ UNCHANGED timer

\* handle_duplicate_client: the other connection is given up on if its client is not
\* active, its handler is gone (no answer can come), or the timeout expires.
ReplaceDuplicate(c) ==
    /\ pc[c] = "waiting"
    /\ reply[c] \in {"none", "NotActive"}
    /\ Disconnect
    /\ pc' = [pc EXCEPT ![c] = "authenticating"]
    /\ StopWaiting(c)
    /\ UNCHANGED <<inboxVars, mixVars, keys, bandwidthVars, env>>

RejectDuplicate(c) ==
    /\ pc[c] = "waiting"
    /\ reply[c] \in {"Active", "BusyPinging"}
    /\ pc' = [pc EXCEPT ![c] = "fresh"]
    /\ StopWaiting(c)
    /\ UNCHANGED <<registered, inboxVars, mixVars, keys, bandwidthVars, env>>

StartPushing(c) ==
    /\ cursor' = [cursor EXCEPT ![c] = 0]
    /\ mark' = [mark EXCEPT ![c] = Len(stored)]
    /\ UNCHANGED <<stored, inbox, batch>>

\* authenticate_client: the client's keys are compared with the stored ones.
AuthenticateClient(c) ==
    /\ pc[c] = "authenticating"
    /\ IF keys.stored = keys.client
       THEN /\ pc' = [pc EXCEPT ![c] = "retrieving"]
            /\ StartPushing(c)
       ELSE /\ pc' = [pc EXCEPT ![c] = "closed"]
            /\ UNCHANGED inboxVars
    /\ UNCHANGED <<registered, pingVars, mixVars, keys, bandwidthVars, env>>

\* handle_register, with the handshake: a client with an active handler is refused.
HandleRegister(c) ==
    /\ pc[c] = "fresh"
    /\ keys.client = NoConn
    /\ registered' = Lookup(registered)
    /\ registered' = NoConn
    /\ pc' = [pc EXCEPT ![c] = "registering"]
    /\ UNCHANGED <<pingVars, inboxVars, mixVars, keys, bandwidthVars, env>>

\* Mutant: a client with keys is taken to have a bandwidth entry.
InsertSharedKeysOnce(c) ==
    /\ pc[c] = "registering"
    /\ keys' = [keys EXCEPT !.stored = c]
    /\ pc' = [pc EXCEPT ![c] = IF keys.stored = NoConn THEN "creating" ELSE "retrieving"]
    /\ UNCHANGED <<registered, pingVars, inboxVars, mixVars, bandwidthVars, env>>

\* register_client: the keys are stored (and replace older ones), ...
InsertSharedKeys(c) ==
    /\ pc[c] = "registering"
    /\ keys' = [keys EXCEPT !.stored = c]
    /\ pc' = [pc EXCEPT ![c] = "creating"]
    /\ UNCHANGED <<registered, pingVars, inboxVars, mixVars, bandwidthVars, env>>

\* ... then the bandwidth entry, unless there is one.
CreateBandwidthEntry(c) ==
    /\ pc[c] = "creating"
    /\ bandwidth' = [bandwidth EXCEPT !.row = TRUE]
    /\ pc' = [pc EXCEPT ![c] = "retrieving"]
    /\ StartPushing(c)
    /\ UNCHANGED <<registered, pingVars, mixVars, keys, spent, credential, credited, env>>

\* get_messages: the rows after the cursor, of which the oldest retrieval_limit are
\* returned, and where the next call starts if there are more.
Rows(c) == {id \in inbox : id > cursor[c]}
Page(c) == {id \in Rows(c) : Cardinality({j \in Rows(c) : j <= id}) <= RetrievalLimit}

\* Mutant: the additional row that was looked at is not returned again.
StartAfterSkipping(c) == IF Page(c) = Rows(c) THEN 0 ELSE Max(Page(c)) + 1

StartAfter(c) == IF Page(c) = Rows(c) THEN 0 ELSE Max(Page(c))

RetrieveMessages(c) ==
    /\ pc[c] = "retrieving"
    /\ batch' = [batch EXCEPT ![c] = Page(c)]
    /\ cursor' = [cursor EXCEPT ![c] = StartAfter(c)]
    /\ pc' = [pc EXCEPT ![c] = "pushing"]
    /\ UNCHANGED <<registered, pingVars, stored, inbox, mark, mixVars, keys, bandwidthVars,
                   env>>

\* push_packets_to_client with the retrieved messages.
PushMessages(c) ==
    /\ pc[c] = "pushing"
    /\ delivered' = delivered \union {stored[id] : id \in batch[c]}
    /\ pc' = [pc EXCEPT ![c] = "removing"]
    /\ UNCHANGED <<registered, pingVars, inboxVars, queue, cache, pushing, storing, acked, lost,
                   keys, bandwidthVars, env>>

\* remove_messages removes one row at a time; then the next page, if there is one.
RemoveMessages(c) ==
    /\ pc[c] = "removing"
    /\ IF batch[c] = {}
       THEN /\ pc' = [pc EXCEPT ![c] = IF cursor[c] = 0 THEN "responding" ELSE "retrieving"]
            /\ UNCHANGED inboxVars
       ELSE /\ inbox' = inbox \ {Min(batch[c])}
            /\ batch' = [batch EXCEPT ![c] = @ \ {Min(@)}]
            /\ UNCHANGED <<pc, stored, mark, cursor>>
    /\ UNCHANGED <<registered, pingVars, mixVars, keys, bandwidthVars, env>>

-------------------------------------------------------------------------------
(* What a restart loses.                                                      *)

Queued == UNION {Range(queue[c]) : c \in Conn}

LoseMemory ==
    /\ pc' = [c \in Conn |-> IF pc[c] = "none" THEN "none" ELSE "closed"]
    /\ registered' = NoConn
    /\ target' = [c \in Conn |-> NoConn]
    /\ requests' = [c \in Conn |-> <<>>]
    /\ pending' = [c \in Conn |-> NoConn]
    /\ timer' = [c \in Conn |-> FALSE]
    /\ reply' = [c \in Conn |-> "none"]
    /\ batch' = [c \in Conn |-> {}]
    /\ lost' = lost \union Queued \union ((Range(pushing) \union Range(storing)) \ {NoMsg})
    /\ queue' = [c \in Conn |-> <<>>]
    /\ cache' = [r \in Receiver |-> NoConn]
    /\ pushing' = [r \in Receiver |-> NoMsg]
    /\ storing' = [r \in Receiver |-> NoMsg]
    /\ credential' = [c \in Conn |-> NoCredential]
    /\ UNCHANGED <<stored, inbox, mark, cursor, bandwidth, spent, credited, acked, delivered>>

GatewayRestarts ==
    /\ env.restarts > 0
    /\ env' = [env EXCEPT !.restarts = @ - 1]
    /\ LoseMemory
    /\ UNCHANGED keys

\* perform_initial_authentication, the rest: the response is sent and the handler is
\* upgraded.  insert_remote panics if the store has an entry, be it a stale one.
Respond(c) ==
    /\ pc[c] = "responding"
    /\ keys' = [keys EXCEPT !.client = IF @ = NoConn THEN c ELSE @]
    /\ UNCHANGED env
    /\ IF registered # NoConn
       THEN LoseMemory
       ELSE /\ registered' = c
            /\ pc' = [pc EXCEPT ![c] = "active"]
            /\ UNCHANGED <<pingVars, inboxVars, mixVars, bandwidthVars>>

-------------------------------------------------------------------------------
(* AuthenticatedHandler: the branches of select! in listen_for_requests.      *)

\* Answers h, unless h has stopped waiting.
Answer(h, result) ==
    reply' = IF h \in Conn THEN [reply EXCEPT ![h] = result] ELSE reply

\* handle_is_active_request; any request restarts the timeout.  What is set after the
\* write of the ping is set before it, which nobody can tell.
HandleIsActiveRequest(c) ==
    /\ pc[c] = "active"
    /\ requests[c] # <<>>
    /\ requests' = [requests EXCEPT ![c] = Tail(@)]
    /\ timer' = [timer EXCEPT ![c] = TRUE]
    /\ IF pending[c] # NoConn
       THEN /\ Answer(Head(requests[c]), "BusyPinging")
            /\ UNCHANGED <<pc, pending>>
       ELSE /\ pending' = [pending EXCEPT ![c] = Head(requests[c])]
            /\ pc' = [pc EXCEPT ![c] = "writing"]
            /\ UNCHANGED reply
    /\ UNCHANGED <<registered, target, inboxVars, mixVars, keys, bandwidthVars, env>>

\* handle_pong with the tag of the pending ping.
HandlePong(c) ==
    /\ pc[c] = "active"
    /\ pending[c] # NoConn
    /\ Answer(pending[c], "Active")
    /\ pending' = [pending EXCEPT ![c] = NoConn]
    /\ UNCHANGED <<handlerVars, target, requests, timer, inboxVars, mixVars, keys,
                   bandwidthVars, env>>

\* handle_ping_timeout
HandlePingTimeout(c) ==
    /\ pc[c] = "active"
    /\ timer[c]
    /\ timer' = [timer EXCEPT ![c] = FALSE]
    /\ Answer(pending[c], "NotActive")
    /\ pending' = [pending EXCEPT ![c] = NoConn]
    /\ UNCHANGED <<handlerVars, target, requests, inboxVars, mixVars, keys, bandwidthVars,
                   env>>

\* send_websocket_message with a ping or a response returns.
SendWebsocketMessage(c) ==
    /\ pc[c] = "writing"
    /\ pc' = [pc EXCEPT ![c] = "active"]
    /\ UNCHANGED <<registered, pingVars, inboxVars, mixVars, keys, bandwidthVars, env>>

\* The next message from mix_receiver is to be written to the socket, ...
TakeMixMessage(c) ==
    /\ pc[c] = "active"
    /\ queue[c] # <<>>
    /\ pc' = [pc EXCEPT ![c] = "sending"]
    /\ UNCHANGED <<registered, pingVars, inboxVars, mixVars, keys, bandwidthVars, env>>

\* ... and push_packets_to_client returns.
PushMixMessage(c) ==
    /\ pc[c] = "sending"
    /\ queue[c] # <<>>
    /\ delivered' = delivered \union {Head(queue[c])}
    /\ queue' = [queue EXCEPT ![c] = Tail(@)]
    /\ pc' = [pc EXCEPT ![c] = "active"]
    /\ UNCHANGED <<registered, pingVars, inboxVars, cache, pushing, storing, acked, lost, keys,
                   bandwidthVars, env>>

\* The loop is left and the handler removes its entry from the store, ...
StopListening(c) ==
    /\ Disconnect
    /\ pc' = [pc EXCEPT ![c] = "dropping"]
    /\ UNCHANGED <<pingVars, inboxVars, mixVars, keys, bandwidthVars, env>>

\* ... because the socket is closed or fails, be it in a write, or the gateway is
\* shutting down, ...
SocketFails(c) ==
    /\ pc[c] \in {"active"} \union Writing
    /\ StopListening(c)

\* ... or because nobody holds the sending end of is_active_request_receiver.
ChannelClosed(c) ==
    /\ pc[c] = "active"
    /\ registered # c
    /\ requests[c] = <<>>
    /\ \A d \in Conn : target[d] # c
    /\ StopListening(c)

\* Drop removes the entry once more; then the receiving ends of the channels go.
Drop(c) ==
    /\ pc[c] = "dropping"
    /\ Disconnect
    /\ pc' = [pc EXCEPT ![c] = "closed"]
    /\ requests' = [requests EXCEPT ![c] = <<>>]
    /\ pending' = [pending EXCEPT ![c] = NoConn]
    /\ timer' = [timer EXCEPT ![c] = FALSE]
    /\ lost' = lost \union Range(queue[c])
    /\ queue' = [queue EXCEPT ![c] = <<>>]
    /\ UNCHANGED <<target, reply, inboxVars, cache, pushing, storing, acked, delivered, keys,
                   bandwidthVars, env>>

-------------------------------------------------------------------------------
(* Requests for bandwidth and to forward packets.                             *)

\* handle_bandwidth_request, up to the check that the credential is not spent.
HandleBandwidthRequest(c, k) ==
    /\ pc[c] = "active"
    /\ k \in env.credentials
    /\ k \notin spent
    /\ pc' = [pc EXCEPT ![c] = "verifying"]
    /\ credential' = [credential EXCEPT ![c] = k]
    /\ UNCHANGED <<registered, pingVars, inboxVars, mixVars, keys, bandwidth, spent, credited,
                   env>>

\* Mutant: the column is not UNIQUE.
InsertFailsNever(c) == FALSE

InsertFails(c) == credential[c] \in spent

\* The credential is verified and its serial number inserted, which fails if it is
\* there: the column is UNIQUE.
InsertSpentCredential(c) ==
    /\ pc[c] = "verifying"
    /\ IF InsertFails(c)
       THEN /\ pc' = [pc EXCEPT ![c] = "writing"]
            /\ credential' = [credential EXCEPT ![c] = NoCredential]
       ELSE /\ pc' = [pc EXCEPT ![c] = "crediting"]
            /\ UNCHANGED credential
    /\ spent' = spent \union {credential[c]}
    /\ UNCHANGED <<registered, pingVars, inboxVars, mixVars, keys, bandwidth, credited, env>>

\* increase_bandwidth and consume_bandwidth: an UPDATE does nothing without a row.
Update(amount) ==
    bandwidth' = IF bandwidth.row THEN [bandwidth EXCEPT !.available = @ + amount] ELSE bandwidth

IncreaseBandwidth(c) ==
    /\ pc[c] = "crediting"
    /\ Update(1)
    /\ credited' = [credited EXCEPT ![credential[c]] = @ + 1]
    /\ credential' = [credential EXCEPT ![c] = NoCredential]
    /\ pc' = [pc EXCEPT ![c] = "writing"]
    /\ UNCHANGED <<registered, pingVars, inboxVars, mixVars, keys, spent, env>>

HandleClaimTestnetBandwidth(c) ==
    /\ pc[c] = "active"
    /\ env.claims > 0
    /\ env' = [env EXCEPT !.claims = @ - 1]
    /\ Update(1)
    /\ pc' = [pc EXCEPT ![c] = "writing"]
    /\ UNCHANGED <<registered, pingVars, inboxVars, mixVars, keys, spent, credential, credited>>

\* Mutant: the packet's own size is not asked for.
HandleForwardSphinxAtZero(c) ==
    /\ pc[c] = "active"
    /\ bandwidth.row /\ bandwidth.available >= 0
    /\ pc' = [pc EXCEPT ![c] = "forwarding"]
    /\ UNCHANGED <<registered, pingVars, inboxVars, mixVars, keys, bandwidthVars, env>>

\* handle_forward_sphinx: the available bandwidth is read and found sufficient, ...
HandleForwardSphinx(c) ==
    /\ pc[c] = "active"
    /\ bandwidth.row /\ bandwidth.available >= 1
    /\ pc' = [pc EXCEPT ![c] = "forwarding"]
    /\ UNCHANGED <<registered, pingVars, inboxVars, mixVars, keys, bandwidthVars, env>>

\* ... then consumed, and the packet is forwarded.
ConsumeBandwidth(c) ==
    /\ pc[c] = "forwarding"
    /\ Update(-1)
    /\ pc' = [pc EXCEPT ![c] = "writing"]
    /\ UNCHANGED <<registered, pingVars, inboxVars, mixVars, keys, spent, credential, credited,
                   env>>

\* The request is malformed or not allowed, or its verification or a database operation
\* fails: the client is to be sent the error.
RequestFails(c) ==
    /\ pc[c] \in {"active", "verifying", "crediting", "forwarding"}
    /\ pc' = [pc EXCEPT ![c] = "writing"]
    /\ credential' = [credential EXCEPT ![c] = NoCredential]
    /\ UNCHANGED <<registered, pingVars, inboxVars, mixVars, keys, bandwidth, spent, credited,
                   env>>

-------------------------------------------------------------------------------
(* ConnectionHandler: a receiver of mix packets.                              *)

\* check_cache: a sender that is not known or is closed is looked up anew.
Stale(r) == cache[r] = NoConn \/ IsClosed(cache[r])

\* handle_processed_packet up to the end of check_cache.  If there is no handler, the
\* cache is left as it is.
HandleProcessedPacket(r) ==
    /\ pushing[r] = NoMsg /\ storing[r] = NoMsg
    /\ env.msgs # <<>>
    /\ env' = [env EXCEPT !.msgs = Tail(@)]
    /\ registered' = IF Stale(r) THEN Lookup(registered) ELSE registered
    /\ cache' = [cache EXCEPT ![r] = IF Stale(r) /\ registered' # NoConn THEN registered' ELSE @]
    /\ IF cache'[r] # NoConn
       THEN pushing' = [pushing EXCEPT ![r] = Head(env.msgs)] /\ UNCHANGED storing
       ELSE storing' = [storing EXCEPT ![r] = Head(env.msgs)] /\ UNCHANGED pushing
    /\ UNCHANGED <<pc, pingVars, inboxVars, queue, acked, delivered, lost, keys, bandwidthVars>>

\* Mutant: the result of unbounded_send is not looked at.
TryPushMessageToClientBlindly(r) ==
    /\ pushing[r] # NoMsg
    /\ queue' = IF IsClosed(cache[r]) THEN queue
                ELSE [queue EXCEPT ![cache[r]] = Append(@, pushing[r])]
    /\ acked' = acked \union {pushing[r]}
    /\ pushing' = [pushing EXCEPT ![r] = NoMsg]
    /\ UNCHANGED <<handlerVars, pingVars, inboxVars, cache, storing, delivered, lost, keys,
                   bandwidthVars, env>>

\* The rest of try_push_message_to_client, and forward_ack if the message is pushed.  The
\* handler, which runs on another thread, may be gone by now, or may have been when the
\* cache was checked: then unbounded_send returns the message, which is to be stored.
TryPushMessageToClient(r) ==
    /\ pushing[r] # NoMsg
    /\ IF IsClosed(cache[r])
       THEN /\ storing' = [storing EXCEPT ![r] = pushing[r]]
            /\ UNCHANGED <<queue, acked>>
       ELSE /\ queue' = [queue EXCEPT ![cache[r]] = Append(@, pushing[r])]
            /\ acked' = acked \union {pushing[r]}
            /\ UNCHANGED storing
    /\ pushing' = [pushing EXCEPT ![r] = NoMsg]
    /\ UNCHANGED <<handlerVars, pingVars, inboxVars, cache, delivered, lost, keys, bandwidthVars,
                   env>>

\* Mutant: the id is that of the next row.
StoreMessageAhead(r) ==
    /\ storing[r] # NoMsg
    /\ stored' = Append(stored, storing[r])
    /\ inbox' = inbox \union {Len(stored) + 2}
    /\ acked' = acked \union {storing[r]}
    /\ storing' = [storing EXCEPT ![r] = NoMsg]
    /\ UNCHANGED <<handlerVars, pingVars, mark, cursor, batch, queue, cache, pushing, delivered,
                   lost, keys, bandwidthVars, env>>

\* store_processed_packet_payload succeeds or fails; the ack is forwarded either way.
StoreMessage(r) ==
    /\ storing[r] # NoMsg
    /\ stored' = Append(stored, storing[r])
    /\ inbox' = inbox \union {Len(stored) + 1}
    /\ acked' = acked \union {storing[r]}
    /\ storing' = [storing EXCEPT ![r] = NoMsg]
    /\ UNCHANGED <<handlerVars, pingVars, mark, cursor, batch, queue, cache, pushing, delivered,
                   lost, keys, bandwidthVars, env>>

StoreFails(r) ==
    /\ storing[r] # NoMsg
    /\ lost' = lost \union {storing[r]}
    /\ acked' = acked \union {storing[r]}
    /\ storing' = [storing EXCEPT ![r] = NoMsg]
    /\ UNCHANGED <<handlerVars, pingVars, inboxVars, queue, cache, pushing, delivered, keys,
                   bandwidthVars, env>>

-------------------------------------------------------------------------------

\* What a handler does by itself.
HandlerStep(c) ==
    \/ ReplaceDuplicate(c) \/ RejectDuplicate(c) \/ AuthenticateClient(c)
    \/ InsertSharedKeys(c) \/ CreateBandwidthEntry(c)
    \/ RetrieveMessages(c) \/ RemoveMessages(c)
    \/ HandleIsActiveRequest(c) \/ HandlePingTimeout(c) \/ TakeMixMessage(c)
    \/ ChannelClosed(c) \/ Drop(c)
    \/ InsertSpentCredential(c) \/ IncreaseBandwidth(c) \/ ConsumeBandwidth(c)

\* A write to the client's socket ends.
WriteStep(c) ==
    \/ PushMessages(c) \/ Respond(c)
    \/ SendWebsocketMessage(c) \/ PushMixMessage(c)

\* What the client, the network and the machine do to a handler.
ClientStep(c) ==
    \/ Accept(c) \/ FreshFails(c) \/ StorageFails(c) \/ SocketFails(c) \/ RequestFails(c)
    \/ HandleAuthenticate(c) \/ HandleRegister(c) \/ HandlePong(c)
    \/ HandleClaimTestnetBandwidth(c) \/ HandleForwardSphinx(c)
    \/ \E k \in Credential : HandleBandwidthRequest(c, k)

MixStep(r) ==
    \/ HandleProcessedPacket(r)
    \/ TryPushMessageToClient(r)
    \/ StoreMessage(r)
    \/ StoreFails(r)

Next ==
    \/ \E c \in Conn : HandlerStep(c) \/ WriteStep(c) \/ ClientStep(c)
    \/ \E r \in Receiver : MixStep(r)
    \/ GatewayRestarts

Spec == Init /\ [][Next]_vars

\* The branch of select! that waits for requests of other handlers.
IsActiveBranch(c) == HandleIsActiveRequest(c) \/ ChannelClosed(c)

\* A task that can take a step is scheduled.  select! starts from a random branch, so
\* a branch that is ready again and again is taken in the end.  Database calls and
\* verifications return.  Nothing is assumed of the client, its socket or the network: no
\* write has a timeout, and WriteStep is not fair.
Fairness ==
    \A c \in Conn :
        /\ WF_vars(HandlerStep(c))
        /\ SF_vars(IsActiveBranch(c))

FairSpec == Spec /\ Fairness
-------------------------------------------------------------------------------
(* Properties.                                                                *)

\* The type invariant.  Every id in the inbox, in a batch or in a cursor is one of a
\* message that was stored.
TypeOK ==
    /\ pc \in [Conn -> Serving \union {"none", "fresh", "waiting", "authenticating",
                   "registering", "creating", "retrieving", "pushing", "removing",
                   "responding", "dropping", "closed"}]
    /\ registered \in Conn \union {NoConn}
    /\ target \in [Conn -> Conn \union {NoConn}]
    /\ requests \in [Conn -> Seq(Conn \union {Gone})]
    /\ pending \in [Conn -> Conn \union {NoConn, Gone}]
    /\ timer \in [Conn -> BOOLEAN]
    /\ reply \in [Conn -> {"none", "Active", "NotActive", "BusyPinging"}]
    /\ stored \in Seq(Msg)
    /\ inbox \subseteq 1 .. Len(stored)
    /\ batch \in [Conn -> SUBSET (1 .. Len(stored))]
    /\ mark \in [Conn -> 0 .. Len(stored)]
    /\ cursor \in [Conn -> 0 .. Len(stored)]
    /\ queue \in [Conn -> Seq(Msg)]
    /\ cache \in [Receiver -> Conn \union {NoConn}]
    /\ pushing \in [Receiver -> Msg \union {NoMsg}]
    /\ storing \in [Receiver -> Msg \union {NoMsg}]
    /\ keys \in [stored : Conn \union {NoConn}, client : Conn \union {NoConn}]
    /\ bandwidth \in [row : BOOLEAN, available : Int]
    /\ spent \subseteq Credential
    /\ credential \in [Conn -> Credential \union {NoCredential}]
    /\ acked \subseteq Msg /\ delivered \subseteq Msg /\ lost \subseteq Msg
    /\ credited \in [Credential -> Nat]
    /\ env \in Environment

\* A message whose ack has been sent is delivered, in the inbox, or in the queue of a
\* handler that still reads it, unless its handler ended first or it could not be
\* stored.  A handler that ends between check_cache and unbounded_send does not take the
\* message with it, and none leaves the inbox before it is written to a socket.
AckedMessagesKept ==
    \A m \in acked :
        \/ m \in delivered
        \/ m \in lost
        \/ \E id \in inbox : stored[id] = m
        \/ \E c \in Conn : ~IsClosed(c) /\ m \in Range(queue[c])

\* When a handler is about to tell its client that it is authenticated, all messages
\* stored before it began to push have been delivered and have left the inbox, over
\* however many pages and with whatever other handlers push at the same time.
InboxFlushed ==
    \A c \in Conn : pc[c] = "responding" =>
        \A id \in 1 .. mark[c] : id \notin inbox /\ stored[id] \in delivered

\* A credential is credited at most once, though checking, marking and crediting are
\* separate and several handlers may do them for the same credential; whoever is
\* crediting one is the only one to do so.
CreditedOnce ==
    \A k \in Credential :
        credited[k] + Cardinality({c \in Conn : pc[c] = "crediting" /\ credential[c] = k})
            <= IF k \in spent THEN 1 ELSE 0

\* A client that knows its keys has a bandwidth row, so that what it claims or pays for
\* is not lost in an UPDATE without effect, also if the gateway restarts or the
\* database fails between storing the keys and creating the row.
KeysImplyRow == keys.client # NoConn => bandwidth.row

\* Reading the bandwidth and consuming it are separate, and a client may be served by
\* several handlers while one replaces the other: the overdraft is at most one packet
\* for every other handler.
OverdraftBounded ==
    bandwidth.available < 0 =>
        -bandwidth.available < Cardinality({c \in Conn : pc[c] # "none"})

\* A handler that has lost its entry in the store ends, provided its client does not
\* leave it in a write for ever: the new connection is not left with a second one, which
\* would take messages from receivers that cached its sender.
SupersededHandlersEnd ==
    \A c \in Conn :
        []<>(pc[c] \notin Writing) => (pc[c] \in Serving /\ registered # c ~> pc[c] = "closed")
==============================================================================
