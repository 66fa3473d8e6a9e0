------------------------------ MODULE Socks5Proxy ------------------------------
(***************************************************************************)
(* One connection proxied over the mixnet: the socks5 client               *)
(* (src/common/socks5-client-core) and the network requester               *)
(* (src/service-providers/network-requester), each with the ProxyRunner    *)
(* and the connection Controller of src/common/socks5/proxy-helpers.       *)
(*                                                                         *)
(* On a side, the inbound task reads the local socket and sends numbered   *)
(* messages, and the outbound task writes what arrives to the socket.  A   *)
(* message waits in the connection's lane until it is put on the mixnet,   *)
(* which delivers in any order; the Controller of the other side puts the  *)
(* messages in order again.  A command to the Controller takes effect when *)
(* it is sent, as its channel is first in, first out.                      *)
(*                                                                         *)
(* What is read from a socket at once is a number, counted from one.       *)
(***************************************************************************)
EXTENDS Naturals, Sequences, FiniteSets, FiniteSetsExt, SequencesExt

CONSTANTS
    MaxReasonableOffset,  \* MAX_REASONABLE_OFFSET
    Environments          \* scenarios: what is read, how many keepalives are sent,
                          \* and whether messages are lost, writes fail, and waits
                          \* take longer than their timeouts

Side == {"client", "requester"}
Other(s) == CHOOSE o \in Side : o # s

ASSUME ProxyAssumption ==
    /\ MaxReasonableOffset \in Nat
    /\ Environments \subseteq [data : [Side -> Nat], keepalives : [Side -> Nat],
                               faults : BOOLEAN]

VARIABLES
    inbound,    \* run_inbound: off, reading, closing or done
    outbound,   \* run_outbound: off, writing or done
    seq,        \* next_message_seq
    lane,       \* messages of the connection that are not yet on the mixnet
    net,        \* messages on the mixnet
    conn,       \* active_connections, recently_closed
    pending,    \* pending_messages
    channel,    \* from the Controller to run_outbound
    closing,    \* ConnectionCommand::Close that is not yet handled
    connecting, \* start_proxy of the requester: none, connecting, refused, connected
    sent,       \* what was read from the socket
    delivered,  \* what was written to the socket
    end,        \* why the socket is not written to any more
    env

vars == <<inbound, outbound, seq, lane, net, conn, pending, channel, closing,
          connecting, sent, delivered, end, env>>

NoConnection == [state |-> "none", next_sequence |-> 0, messages |-> {},
                 closed_at_index |-> {}, is_closed |-> FALSE]

Init ==
    /\ inbound = [s \in Side |-> "off"]
    /\ outbound = [s \in Side |-> "off"]
    /\ seq = [s \in Side |-> 0]
    /\ lane = [s \in Side |-> <<>>]
    /\ net = {}
    /\ conn = [s \in Side |-> NoConnection]
    /\ pending = [s \in Side |-> <<>>]
    /\ channel = [s \in Side |-> <<>>]
    /\ closing = [s \in Side |-> FALSE]
    /\ connecting = "none"
    /\ sent = [s \in Side |-> <<>>]
    /\ delivered = [s \in Side |-> <<>>]
    /\ end = [s \in Side |-> "open"]
    /\ env \in Environments

Message(s, n, data, closed) ==
    [from |-> s, seq |-> n, data |-> data, local_socket_closed |-> closed]

\* Told from a message with data by its content.
ConnectRequest == Message("client", 0, <<0>>, FALSE)

-------------------------------------------------------------------------------
(* The Controller.                                                            *)

\* Mutant: any sequence number is reasonable.
WriteToBufAnyOffset(c, m) ==
    LET closed == [c EXCEPT !.closed_at_index = IF m.local_socket_closed THEN {m.seq} ELSE @]
    IN  IF m.seq < c.next_sequence \/ \E k \in c.messages : k.seq = m.seq
        THEN closed
        ELSE [closed EXCEPT !.messages = @ \union {m}]

\* OrderedMessageBuffer::write, with closed_at_index set before.
WriteToBuf(c, m) ==
    LET closed == [c EXCEPT !.closed_at_index = IF m.local_socket_closed THEN {m.seq} ELSE @]
    IN  IF \/ m.seq > c.next_sequence + MaxReasonableOffset
           \/ m.seq < c.next_sequence
           \/ \E k \in c.messages : k.seq = m.seq
        THEN closed
        ELSE [closed EXCEPT !.messages = @ \union {m}]

\* The messages OrderedMessageBuffer::read removes and joins, in order.
Contiguous(c) ==
    {m \in c.messages :
        \A n \in c.next_sequence .. m.seq : \E k \in c.messages : k.seq = n}

ReadData(c) ==
    FlattenSeq([i \in 1 .. Cardinality(Contiguous(c)) |->
        (CHOOSE m \in Contiguous(c) : m.seq = c.next_sequence + i - 1).data])

\* Mutant: the end is reported as soon as its message has arrived.
ReadFromBufEarly(c) ==
    [c EXCEPT !.next_sequence = @ + Cardinality(Contiguous(c)),
              !.messages = @ \ Contiguous(c),
              !.is_closed = c.closed_at_index # {}]

ReadFromBuf(c) ==
    LET next == c.next_sequence + Cardinality(Contiguous(c))
    IN  [c EXCEPT !.next_sequence = next,
                  !.messages = @ \ Contiguous(c),
                  !.is_closed = @ \/ \E i \in c.closed_at_index : next - 1 >= i]

\* send_to_connection for an active connection: what is contiguous goes to the
\* outbound task, unless it is empty.
SendToActive(s, m) ==
    LET c == WriteToBuf(conn[s], m)
        r == ReadFromBuf(c)
        payload == ReadData(c)
    IN  /\ conn' = [conn EXCEPT ![s] = IF Contiguous(c) = {} THEN c ELSE r]
        /\ channel' = [channel EXCEPT ![s] =
               IF \/ Contiguous(c) = {}
                  \/ payload = <<>> /\ ~r.is_closed
                  \/ outbound[s] = "done"
               THEN @
               ELSE Append(@, [payload |-> payload, socket_closed |-> r.is_closed])]

SendToConnection(s, m) ==
    \/ /\ conn[s].state = "active"
       /\ SendToActive(s, m)
       /\ UNCHANGED pending
    \/ /\ conn[s].state = "none"
       /\ pending' = [pending EXCEPT ![s] = Append(@, m)]
       /\ UNCHANGED <<conn, channel>>
    \/ /\ conn[s].state = "closed"
       /\ UNCHANGED <<conn, channel, pending>>

InsertConnection(s) ==
    /\ conn' = [conn EXCEPT ![s] = [NoConnection EXCEPT !.state = "active"]]
    /\ UNCHANGED <<channel, pending>>

\* The rest of insert_connection: the pending messages follow, in the order they
\* came.  The Controller does nothing else until they are done.
Draining(s) == conn[s].state = "active" /\ pending[s] # <<>>

SendPending(s) ==
    /\ Draining(s)
    /\ SendToActive(s, Head(pending[s]))
    /\ pending' = [pending EXCEPT ![s] = Tail(@)]
    /\ UNCHANGED <<inbound, outbound, seq, lane, net, closing, connecting, sent, delivered,
                   end, env>>

\* remove_connection, which announces the closed connection to OutQueueControl.
RemoveConnection(s) ==
    /\ conn' = [conn EXCEPT ![s] = [NoConnection EXCEPT !.state = "closed"]]
    /\ closing' = [closing EXCEPT ![s] = TRUE]

-------------------------------------------------------------------------------
(* Starting the proxy.                                                        *)

StartProxy(s) ==
    /\ InsertConnection(s)
    /\ inbound' = [inbound EXCEPT ![s] = "reading"]
    /\ outbound' = [outbound EXCEPT ![s] = "writing"]

\* handle_request and run_proxy of the socks5 client.
HandleRequest ==
    /\ inbound["client"] = "off"
    /\ StartProxy("client")
    /\ lane' = [lane EXCEPT !["client"] = <<ConnectRequest>>]
    /\ UNCHANGED <<seq, net, closing, connecting, sent, delivered, end, env>>

\* start_proxy of the requester, once the filter has been passed.
Connected ==
    /\ connecting = "connecting"
    /\ connecting' = "connected"
    /\ StartProxy("requester")
    /\ UNCHANGED <<seq, lane, net, closing, sent, delivered, end, env>>

\* The connection to the remote address fails: the client is told that it is closed.
ConnectFails ==
    /\ connecting = "connecting"
    /\ connecting' = "refused"
    /\ lane' = [lane EXCEPT !["requester"] =
                   Append(@, Message("requester", 0, <<>>, TRUE))]
    /\ UNCHANGED <<inbound, outbound, seq, net, conn, pending, channel, closing, sent,
                   delivered, end, env>>

\* The address is filtered: the client only reports the error it is sent.
Filtered ==
    /\ connecting = "connecting"
    /\ connecting' = "filtered"
    /\ UNCHANGED <<inbound, outbound, seq, lane, net, conn, pending, channel, closing,
                   sent, delivered, end, env>>

-------------------------------------------------------------------------------
(* run_inbound                                                                *)

\* OrderedMessageSender: construct_message and send_message.
SendData(s, data, closed) ==
    /\ lane' = [lane EXCEPT ![s] = Append(@, Message(s, seq[s], data, closed))]
    /\ seq' = [seq EXCEPT ![s] = @ + 1]

unchangedByInbound ==
    <<outbound, net, conn, pending, channel, closing, connecting, delivered, end>>

ReadSocket(s) ==
    /\ inbound[s] = "reading"
    /\ env.data[s] > 0
    /\ LET chunk == Len(sent[s]) + 1
       IN  /\ SendData(s, <<chunk>>, FALSE)
           /\ sent' = [sent EXCEPT ![s] = Append(@, chunk)]
    /\ env' = [env EXCEPT !.data[s] = @ - 1]
    /\ UNCHANGED <<inbound, unchangedByInbound>>

\* The socket is closed, or reading from it fails.
ReadEnd(s) ==
    /\ inbound[s] = "reading"
    /\ SendData(s, <<>>, TRUE)
    /\ inbound' = [inbound EXCEPT ![s] = "closing"]
    /\ UNCHANGED <<sent, env, unchangedByInbound>>

Keepalive(s) ==
    /\ inbound[s] \in {"reading", "closing"}
    /\ env.keepalives[s] > 0
    /\ SendData(s, <<>>, FALSE)
    /\ env' = [env EXCEPT !.keepalives[s] = @ - 1]
    /\ UNCHANGED <<inbound, sent, unchangedByInbound>>

\* Mutant: the lane is not waited for.
ClosingAtOnce(s) ==
    /\ inbound[s] = "closing"
    /\ inbound' = [inbound EXCEPT ![s] = "done"]
    /\ UNCHANGED <<seq, lane, sent, env, unchangedByInbound>>

\* closing_future: wait_until_lane_empty, for four minutes at most.
ClosingDone(s) ==
    /\ inbound[s] = "closing"
    /\ lane[s] = <<>> \/ env.faults
    /\ inbound' = [inbound EXCEPT ![s] = "done"]
    /\ UNCHANGED <<seq, lane, sent, env, unchangedByInbound>>

\* shutdown_future: some time after the outbound task has ended.
InboundShutdown(s) ==
    /\ inbound[s] \in {"reading", "closing"}
    /\ outbound[s] = "done"
    /\ SendData(s, <<>>, TRUE)
    /\ inbound' = [inbound EXCEPT ![s] = "done"]
    /\ UNCHANGED <<sent, env, unchangedByInbound>>

-------------------------------------------------------------------------------
(* run_outbound                                                               *)

unchangedByOutbound ==
    <<inbound, seq, lane, net, conn, pending, closing, connecting, sent, env>>

OutboundEnds(s, why) ==
    /\ outbound' = [outbound EXCEPT ![s] = "done"]
    /\ channel' = [channel EXCEPT ![s] = <<>>]
    /\ end' = [end EXCEPT ![s] = why]

\* deal_with_message
DealWithMessage(s) ==
    /\ outbound[s] = "writing"
    /\ channel[s] # <<>>
    /\ delivered' = [delivered EXCEPT ![s] = @ \o Head(channel[s]).payload]
    /\ IF Head(channel[s]).socket_closed
       THEN OutboundEnds(s, "eof")
       ELSE channel' = [channel EXCEPT ![s] = Tail(@)] /\ UNCHANGED <<outbound, end>>
    /\ UNCHANGED unchangedByOutbound

WriteFails(s) ==
    /\ outbound[s] = "writing"
    /\ env.faults
    /\ channel[s] # <<>>
    /\ OutboundEnds(s, "failed")
    /\ UNCHANGED <<delivered, unchangedByOutbound>>

\* Nothing is on its way to side s, and nothing will be.
Quiet(s) ==
    LET o == Other(s)
    IN  /\ channel[s] = <<>> /\ ~Draining(s)
        /\ lane[o] = <<>>
        /\ \A m \in net : m.from = s
        /\ \/ inbound[o] = "done"
           \/ /\ inbound[o] = "off"
              /\ connecting # "connecting"
              /\ ConnectRequest \notin net \union Range(lane[s])

\* Mutant: the time is counted from the first message that arrives.
MixTimeoutAfterMessage(s) ==
    /\ outbound[s] = "writing"
    /\ Quiet(s) \/ env.faults
    /\ conn[s].next_sequence > 0
    /\ OutboundEnds(s, "timeout")
    /\ UNCHANGED <<delivered, unchangedByOutbound>>

\* mix_timeout: no message for MIX_TTL.
MixTimeout(s) ==
    /\ outbound[s] = "writing"
    /\ Quiet(s) \/ env.faults
    /\ OutboundEnds(s, "timeout")
    /\ UNCHANGED <<delivered, unchangedByOutbound>>

\* shutdown_future: some time after the inbound task has ended.
OutboundShutdown(s) ==
    /\ outbound[s] = "writing"
    /\ inbound[s] = "done"
    /\ OutboundEnds(s, "shutdown")
    /\ UNCHANGED <<delivered, unchangedByOutbound>>

\* Both tasks have ended: ProxyRunner::run returns.
ProxyDone(s) ==
    /\ inbound[s] = "done"
    /\ outbound[s] = "done"
    /\ conn[s].state = "active"
    /\ ~Draining(s)
    /\ RemoveConnection(s)
    /\ UNCHANGED <<inbound, outbound, seq, lane, net, pending, channel, connecting, sent,
                   delivered, end, env>>

-------------------------------------------------------------------------------
(* The lane and the mixnet.                                                   *)

Transmit(s) ==
    /\ lane[s] # <<>>
    /\ net' = net \union {Head(lane[s])}
    /\ lane' = [lane EXCEPT ![s] = Tail(@)]
    /\ UNCHANGED <<inbound, outbound, seq, conn, pending, channel, closing, connecting,
                   sent, delivered, end, env>>

\* on_close_connection drops what has reached the lane by then.
OnCloseConnection(s) ==
    /\ closing[s]
    /\ closing' = [closing EXCEPT ![s] = FALSE]
    /\ \E n \in 1 .. Len(lane[s]) + 1 :
          lane' = [lane EXCEPT ![s] = SubSeq(@, n, Len(@))]
    /\ UNCHANGED <<inbound, outbound, seq, net, conn, pending, channel, connecting, sent,
                   delivered, end, env>>

\* handle_proxy_connect of the requester, handle_proxy_send and
\* on_provider_data_response.
Receive(m) ==
    /\ m \in net
    /\ net' = net \ {m}
    /\ IF m = ConnectRequest
       THEN connecting' = "connecting" /\ UNCHANGED <<conn, channel, pending>>
       ELSE /\ ~Draining(Other(m.from))
            /\ SendToConnection(Other(m.from), m)
            /\ UNCHANGED connecting
    /\ UNCHANGED <<inbound, outbound, seq, lane, closing, sent, delivered, end, env>>

Lose(m) ==
    /\ m \in net
    /\ env.faults
    /\ net' = net \ {m}
    /\ UNCHANGED <<inbound, outbound, seq, lane, conn, pending, channel, closing,
                   connecting, sent, delivered, end, env>>

-------------------------------------------------------------------------------
\* Tasks run, sleeps end, and the mixnet delivers what it does not lose.
SystemStep ==
    \/ Connected \/ ConnectFails \/ Filtered
    \/ \E s \in Side :
         \/ ClosingDone(s)
         \/ InboundShutdown(s)
         \/ DealWithMessage(s)
         \/ OutboundShutdown(s)
         \/ Quiet(s) /\ MixTimeout(s)
         \/ ProxyDone(s)
         \/ SendPending(s)
         \/ Transmit(s)
         \/ OnCloseConnection(s)
    \/ \E m \in net : Receive(m)

Next ==
    \/ HandleRequest
    \/ \E s \in Side :
         \/ ReadSocket(s) \/ ReadEnd(s) \/ Keepalive(s)
         \/ WriteFails(s)
         \/ MixTimeout(s)
    \/ SystemStep
    \/ \E m \in net : Lose(m)

\* A behaviour has finitely many steps, so that it is enough that one is taken as
\* long as there is one.
Spec == Init /\ [][Next]_vars /\ WF_vars(SystemStep)

-------------------------------------------------------------------------------
SocketData == [from : Side, seq : Nat, data : Seq(Nat), local_socket_closed : BOOLEAN]

\* The type invariant.  The buffer holds messages from next_sequence on, up to
\* MAX_REASONABLE_OFFSET.
TypeOK ==
    /\ inbound \in [Side -> {"off", "reading", "closing", "done"}]
    /\ outbound \in [Side -> {"off", "writing", "done"}]
    /\ seq \in [Side -> Nat]
    /\ lane \in [Side -> Seq(SocketData)]
    /\ net \subseteq SocketData
    /\ \A s \in Side :
          /\ conn[s].state \in {"none", "active", "closed"}
          /\ conn[s].messages \subseteq SocketData
          /\ \A m \in conn[s].messages :
                m.seq \in conn[s].next_sequence .. conn[s].next_sequence + MaxReasonableOffset
    /\ pending \in [Side -> Seq(SocketData)]
    /\ channel \in [Side -> Seq([payload : Seq(Nat), socket_closed : BOOLEAN])]
    /\ closing \in [Side -> BOOLEAN]
    /\ connecting \in {"none", "connecting", "connected", "refused", "filtered"}
    /\ sent \in [Side -> Seq(Nat)]
    /\ delivered \in [Side -> Seq(Nat)]
    /\ end \in [Side -> {"open", "eof", "failed", "timeout", "shutdown"}]

\* A side has told the other one that there is nothing more to come.
Finished(s) ==
    \/ inbound[s] \in {"closing", "done"}
    \/ s = "requester" /\ connecting = "refused"

Promise == INSTANCE Stream WITH
    Data <- 1 .. Max({e.data[s] : e \in Environments, s \in Side}),
    finished <- [s \in Side |-> Finished(s)],
    end <- [s \in Side |-> IF end[s] \in {"open", "eof"} THEN end[s] ELSE "cut"]

\* A proxied connection implements a pair of streams: a socket is sent what was read
\* from the other one, in order, without gaps and once, and its outbound task ends on
\* the other's close only after all of it, in whatever order the messages come and
\* whichever of them are lost, late, too far ahead or dropped with the lane.
ImplementsStream == Promise!StreamSpec

Ended(s) == inbound[s] = "done" /\ outbound[s] = "done" /\ conn[s].state = "closed"

\* No connection is left half open: when a task of one side has ended, for whatever
\* reason, both tasks of both sides end and the connection is removed from the
\* Controllers, even if the messages that say so are lost.  Assumed is that a write to
\* the local socket returns: write_all in deal_with_message has no timeout.
HalfOpenEnds ==
    \A s \in Side :
        (inbound[s] = "done" \/ outbound[s] = "done") ~>
            [](\A t \in Side : Ended(t) \/ inbound[t] = "off")

\* When a local socket is at its end and nothing fails, the other side does not wait
\* for MIX_TTL: it learns of the end, having received everything, unless its own
\* socket ended first or there is no other side.  Messages may overtake the connect
\* request, and closing the connection drops what is left in the lane.
EndDelivered ==
    \A s \in Side :
        (~env.faults /\ inbound[s] = "closing") ~>
            \/ end[Other(s)] \in {"eof", "shutdown"}
            \/ inbound[Other(s)] \in {"closing", "done"} /\ outbound[Other(s)] = "writing"
            \/ connecting \in {"refused", "filtered"}
================================================================================
