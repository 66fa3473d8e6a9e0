----------------------------- MODULE ReplySurbs -----------------------------
(***************************************************************************)
(* Anonymous replies: a client (the responder) answers a sender it knows   *)
(* by a tag only (the requester), spending one reply SURB per packet.  The *)
(* responder's ReplyController queues what it has no SURBs for, asks the   *)
(* requester for more (each request costs a SURB as well), and gives up    *)
(* on senders that stay silent.                                            *)
(*                                                                         *)
(* Both clients run the same code; the parts that matter are the           *)
(* responder's ReplyController with its storage (module ReplyStorage), and *)
(* of the requester the handler of SURB requests, the reply keys and the   *)
(* receiving of replies.  The acknowledgements, their timers and the       *)
(* reliable sending to a known recipient are module AckControl's; here a   *)
(* packet is delivered or lost, its ack comes back or does not, and the    *)
(* timer of a lost one fires.                                              *)
(*                                                                         *)
(* A handler of the responder's ReplyController is one step: no other task *)
(* changes what it works on.  The requester sends SURBs and stores their   *)
(* keys in two steps: the send is awaited, and the task that receives      *)
(* replies looks keys up meanwhile.  SURBs are numbered as the requester   *)
(* makes them.                                                             *)
(***************************************************************************)
EXTENDS ReplyStorage

CONSTANTS
    Reply,              \* the fragments of replies, a set of numbers
    MaxThreshold,       \* max_surb_threshold
    MinRequest,         \* minimum_reply_surb_request_size
    MaxRequest,         \* maximum_reply_surb_request_size
    MaxAllowed,         \* maximum_allowed_reply_surb_request_size
    BatchSize,          \* SURBs per message answering a request
    Environments        \* the scenarios: budgets of faults and messages

ASSUME ConfigAssumption ==
    /\ Reply \subseteq Nat
    /\ IsFiniteSet(Reply)
    /\ {MinThreshold, MaxThreshold, MinRequest, MaxAllowed} \subseteq Nat
    /\ {MaxRequest, BatchSize} \subseteq Nat \ {0}

ASSUME NoEntryAssumption ==
    NoEntry \notin [data : Seq(Nat), pendingReception : Nat, age : 0..SurbAge]

ASSUME EnvironmentsAssumption ==
    \A x \in Environments :
        /\ x.surbs \in Nat
        /\ x.replies \subseteq Reply
        /\ {x.losses, x.topology, x.refusals, x.messages, x.crashes,
            x.shutdowns, x.database, x.halfDays, x.delays, x.overtakes} \subseteq Nat

VARIABLES
    todo,       \* reply fragments the application has not sent yet
    ctl,        \* the ReplyController: waiting, on its last event, or gone
    mem,        \* what it has in memory, and what its step sends
    net,        \* packets on their way to the requester
    inbox,      \* messages with SURBs on their way to the responder
    peer,       \* the requester
    history     \* SURBs stored, spent, liable to be spent twice; keys purged

controllerVars == <<ctl, mem>>
vars == <<env, budget, phase, db, todo, ctl, mem, net, inbox, peer, history>>

Data(n) == [type |-> "data", id |-> n, amount |-> 0]
SurbRequest(n, amount) == [type |-> "request", id |-> n, amount |-> amount]

\* out and failures exist during a step only.
Booted(entry) ==
    [entry |-> entry, replies |-> << >>, retransmissions |-> {}, unacked |-> {},
     reconstructed |-> {}, out |-> {}, failures |-> 0]

-----------------------------------------------------------------------------
(* The parts of the handlers, on the controller's memory m.  ok: there is  *)
(* a valid topology to prepare packets with.                               *)

MinOf(a, b) == IF a < b THEN a ELSE b
MaxOf(a, b) == IF a > b THEN a ELSE b

DataOf(ids) == [i \in DOMAIN ids |-> Data(ids[i])]

Packets(frags, surbs) ==
    {[frag |-> frags[i], surb |-> surbs[i]] : i \in 1..Len(frags)}

\* The packets are prepared and sent, or the SURBs are returned.
Spend(m, frags, ok) ==
    LET n == Len(frags)
        surbs == Taken(m.entry, n)
        left == Without(m.entry, n)
    IN  IF ok THEN [m EXCEPT !.entry = left,
                             !.out = @ \cup Packets(frags, surbs),
                             !.unacked = @ \cup Range(frags)]
        ELSE [m EXCEPT !.entry = InsertSurbs(left, surbs), !.failures = @ + 1]

TotalQueue(m) == Len(m.replies) + Cardinality(m.retransmissions)

ShouldRequestMoreSurbs(m) ==
    LET expected == PendingReception(m.entry) + AvailableSurbs(m.entry) IN
    /\ TotalQueue(m) > 0
    /\ expected < MaxThreshold
    /\ expected < TotalQueue(m) + MinThreshold

\* Each request is a message of its own: the SURB it is sent with names it.
RequestReplySurbsForQueueClearing(m, ok) ==
    LET size == MinOf(MaxRequest, MaxOf(TotalQueue(m), MinRequest))
        spent == Spend(m, <<SurbRequest(Head(m.entry.data), size)>>, ok)
    IN  IF TotalQueue(m) = 0 \/ AvailableSurbs(m.entry) = 0 THEN m
        ELSE IF ok THEN [spent EXCEPT !.entry = IncrementPendingReception(@, size)]
        ELSE spent

RequestIfNeeded(m, ok) ==
    IF ShouldRequestMoreSurbs(m)
    THEN RequestReplySurbsForQueueClearing(m, ok) ELSE m

\* The first fragments of the queue, put back at its end if sending fails.
SendFirst(m, n, ok) ==
    LET first == SubSeq(m.replies, 1, n)
        popped == [m EXCEPT !.replies = Drop(@, n)]
    IN  IF n = 0 THEN m
        ELSE IF ok THEN Spend(popped, first, ok)
        ELSE [Spend(popped, first, ok) EXCEPT !.replies = @ \o first]

TryClearPendingQueue(m, ok) ==
    SendFirst(m, MinOf(Len(m.replies), Spendable(m.entry)), ok)

\* A map's keys in the order they are iterated, which is any one.
Listed(S) == CHOOSE f \in [1..Cardinality(S) -> S] : IsInjective(f)

\* Entries are popped until n fragments are taken; those whose ack has come
\* (the Weak is dead) are forgotten.
TryClearPendingRetransmission(m, ok) ==
    LET n == Spendable(m.entry)
        queue == Listed(m.retransmissions)
        alive(i) == {queue[j] : j \in 1..i} \cap m.unacked
        popped == CHOOSE i \in 0..Len(queue) :
                    /\ i = Len(queue) \/ Cardinality(alive(i)) = n
                    /\ \A j \in 0..(i - 1) : Cardinality(alive(j)) < n
        taken == Listed(alive(popped))
        rest == [m EXCEPT !.retransmissions = Range(Drop(queue, popped))]
    IN  IF n = 0 THEN m
        ELSE IF taken = << >> THEN rest
        ELSE IF ok THEN Spend(rest, taken, ok)
        ELSE [Spend(rest, taken, ok) EXCEPT !.retransmissions = @ \cup Range(taken)]

-----------------------------------------------------------------------------
(* The ReplyController's events.  After it has seen the shutdown it waits  *)
(* two seconds, in which it takes one event more.                          *)

Handles == ctl \in {"on", "last"}

Topology == IF budget.topology > 0 THEN BOOLEAN ELSE {TRUE}

\* The handler ends with memory m, in which the SURBs of msgs are new.
Done(m, msgs) ==
    LET spent == {p.surb : p \in m.out}
        stored == UNION {Range(msg.surbs) : msg \in msgs} IN
    /\ m.failures <= budget.topology
    /\ mem' = [m EXCEPT !.out = {}, !.failures = 0]
    /\ net' = net \cup m.out
    /\ history' =
         [history EXCEPT
            !.spent = @ \cup spent,
            !.stored = @ \cup stored,
            !.doubled = @ \cup {s \in spent : Exposed(s)}
                          \cup (stored \cap history.stored)]
    /\ ctl' = IF ctl = "last" THEN "gone" ELSE ctl

Failed(m) == [budget EXCEPT !.topology = @ - m.failures]

\* The pending ack of f has no timer while f is queued for SURBs.
TimerFires(f) ==
    /\ f \in mem.unacked \ mem.retransmissions
    /\ \A p \in net : p.frag # f

\* A reply of the fragments S; refused if the sender is not known.  What could
\* not be sent is queued, in the order of the message, which is any one.
HandleSendReply(S) ==
    /\ Handles
    /\ S # {}
    /\ S \subseteq todo
    /\ todo' = todo \ S
    /\ IF mem.entry = NoEntry THEN Done(mem, {}) /\ UNCHANGED budget
       ELSE \E frags \in {DataOf(Listed(S))}, ok, ok2 \in Topology :
            \E sent \in {SendFirst([mem EXCEPT !.replies = frags],
                                   MinOf(Len(frags), Spendable(mem.entry)), ok)} :
            \E queued \in {[sent EXCEPT !.replies =
                              mem.replies \o (IF ok THEN @ ELSE frags)]} :
            \E m \in {RequestIfNeeded(queued, ok2)} :
              Done(m, {}) /\ budget' = Failed(m)
    /\ UNCHANGED <<env, phase, db, inbox, peer>>

\* Received SURBs, once per message.  again: the ack is lost, and the sender
\* will repeat the message.
HandleReceivedSurbs(msg, again) ==
    /\ Handles
    /\ msg \in inbox
    /\ again => budget.losses > 0
    /\ inbox' = IF again THEN inbox ELSE inbox \ {msg}
    /\ \E entry \in {IF msg.requested
                     THEN DecrementPendingReception(mem.entry, Len(msg.surbs))
                     ELSE mem.entry},
          ok, ok2, ok3 \in Topology :
       \E stored \in {[mem EXCEPT !.entry = InsertSurbs(entry, msg.surbs),
                                  !.reconstructed = @ \cup {msg}]} :
       \E cleared \in {TryClearPendingRetransmission(stored, ok)} :
       \E emptied \in {TryClearPendingQueue(cleared, ok2)} :
       \E m \in {IF msg \in mem.reconstructed THEN mem
                 ELSE RequestIfNeeded(emptied, ok3)} :
         /\ Done(m, {msg} \ mem.reconstructed)
         /\ budget' = [Failed(m) EXCEPT !.losses = IF again THEN @ - 1 ELSE @]
    /\ UNCHANGED <<env, phase, db, todo, peer>>

\* The ack timer of f fired and its pending ack is still there.  A request
\* may be sent with a SURB of the reserve.
HandleReplyRetransmission(f) ==
    /\ Handles
    /\ TimerFires(f)
    /\ mem.entry # NoEntry
    /\ \E finds \in {FindsSurb(mem.entry, f.type = "request")},
          ok, ok2 \in Topology :
       \E sent \in {IF finds THEN Spend(mem, <<f>>, ok) ELSE mem} :
       \E queued \in {[sent EXCEPT !.retransmissions = @ \cup {f}]} :
       \E m \in {IF finds /\ ok THEN sent ELSE RequestIfNeeded(queued, ok2)} :
         Done(m, {}) /\ budget' = Failed(m)
    /\ UNCHANGED <<env, phase, db, todo, inbox, peer>>

\* Mutant: a silent sender is asked again however long it has been silent.
InspectNeverDrops ==
    /\ Handles
    /\ mem.replies # << >>
    /\ mem.entry # NoEntry
    /\ mem.entry.age >= RerequestAge
    /\ \E ok \in Topology :
       \E asked \in {RequestReplySurbsForQueueClearing(mem, ok)} :
       \E m \in {[asked EXCEPT !.entry = ResetPendingReception(@)]} :
         Done(m, {}) /\ budget' = Failed(m)
    /\ UNCHANGED <<env, phase, db, todo, inbox, peer>>

\* The replies of a sender that has been silent for too long are dropped; one
\* silent for a while is asked again and nothing is expected from it.
InspectStaleEntries ==
    /\ Handles
    /\ mem.replies # << >>
    /\ mem.entry # NoEntry => mem.entry.age >= RerequestAge
    /\ IF mem.entry = NoEntry \/ mem.entry.age >= DropAge
       THEN Done([mem EXCEPT !.replies = << >>], {}) /\ UNCHANGED budget
       ELSE \E ok \in Topology :
            \E asked \in {RequestReplySurbsForQueueClearing(mem, ok)} :
            \E m \in {[asked EXCEPT !.entry = ResetPendingReception(@)]} :
              Done(m, {}) /\ budget' = Failed(m)
    /\ UNCHANGED <<env, phase, db, todo, inbox, peer>>

InvalidateOldData ==
    /\ Handles
    /\ mem.entry # NoEntry
    /\ mem.entry.age >= SurbAge
    /\ Done([mem EXCEPT !.entry = NoEntry], {})
    /\ UNCHANGED <<env, budget, phase, db, todo, inbox, peer>>

-----------------------------------------------------------------------------
(* The responder's process.                                                *)

Start ==
    /\ Load
    /\ ctl' = "on"
    /\ mem' = Booted(db'.entry)
    /\ UNCHANGED <<todo, net, inbox, peer, history>>

\* The storage task's steps; it reads the map while the controller runs.
StorageTask ==
    /\ \/ StartStorageSession
       \/ StartStorageSessionFails
       \/ RotateAndStartFlush
       \/ DumpReplySurbs(mem.entry)
       \/ EndStorageFlush
       \/ FlushFails
       \/ StopStorageSession
       \/ StopStorageSessionFails
    /\ UNCHANGED <<todo, controllerVars, net, inbox, peer, history>>

Shutdown ==
    /\ phase \in {"session", "nosession"}
    /\ ctl = "on"
    /\ budget.shutdowns > 0
    /\ budget' = [budget EXCEPT !.shutdowns = @ - 1]
    /\ phase' = IF phase = "session" THEN "shutdown" ELSE "stopped"
    /\ ctl' = "last"
    /\ UNCHANGED <<env, db, todo, mem, net, inbox, peer, history>>

\* The process ends: what is in memory is lost.
Ends ==
    /\ phase' = "down"
    /\ ctl' = "gone"
    /\ mem' = Booted(NoEntry)
    /\ UNCHANGED <<env, db, todo, net, inbox, peer, history>>

Exit == phase = "stopped" /\ Ends /\ UNCHANGED budget

Crash ==
    /\ phase # "down"
    /\ budget.crashes > 0
    /\ budget' = [budget EXCEPT !.crashes = @ - 1]
    /\ Ends

\* handle_reply_retransmission finds the sender's entry invalidated: the
\* expect() aborts the process.
UnknownRecipientPanics ==
    /\ Handles
    /\ mem.entry = NoEntry
    /\ \E f \in mem.unacked : TimerFires(f)
    /\ Ends
    /\ UNCHANGED budget

-----------------------------------------------------------------------------
(* The mixnet and the requester.                                           *)

\* The SURBs of messages sent whose keys are not stored yet.
Unstored == UNION {Range(msg.surbs) : msg \in peer.storing}

\* A packet arrives.  The gateway acknowledges it; the requester needs the
\* key of its SURB to make anything of it, and the key serves once.  overtakes
\* bounds the packets that are there before their keys are stored.
Deliver(p, acked) ==
    LET known == p.surb \in DOMAIN peer.keys
        new == known /\ p.frag \notin peer.seen IN
    /\ p \in net
    /\ net' = net \ {p}
    /\ mem' = IF acked THEN [mem EXCEPT !.unacked = @ \ {p.frag}] ELSE mem
    /\ peer' = [peer EXCEPT
                  !.keys = [s \in DOMAIN @ \ {p.surb} |-> @[s]],
                  !.seen = IF known THEN @ \cup {p.frag} ELSE @,
                  !.requests = IF new /\ p.frag.type = "request"
                               THEN @ \cup {p.frag} ELSE @]
    /\ ~acked => budget.losses > 0
    /\ p.surb \in Unstored => budget.overtakes > 0
    /\ budget' = [budget EXCEPT
                    !.losses = IF acked THEN @ ELSE @ - 1,
                    !.overtakes = IF p.surb \in Unstored THEN @ - 1 ELSE @]
    /\ UNCHANGED <<env, phase, db, todo, ctl, inbox, history>>

Lose(p) ==
    /\ p \in net
    /\ budget.losses > 0
    /\ budget' = [budget EXCEPT !.losses = @ - 1]
    /\ net' = net \ {p}
    /\ UNCHANGED <<env, phase, db, todo, controllerVars, inbox, peer, history>>

\* A message with n new SURBs is sent: only then are their keys stored.
Sending(n, requested) ==
    LET msg == [surbs |-> [i \in 1..n |-> peer.next + i - 1],
                requested |-> requested]
    IN  /\ inbox' = inbox \cup {msg}
        /\ peer' = [peer EXCEPT !.next = @ + n,
                                !.owed = IF requested THEN @ - n ELSE @,
                                !.storing = @ \cup {msg}]

\* The task has stored the keys of what it sent last.
Stored(requested) == \A msg \in peer.storing : msg.requested # requested

\* Data with SURBs, sent by the task of the application's messages.
TrySendMessageWithReplySurbs ==
    /\ Stored(FALSE)
    /\ budget.messages > 0
    /\ budget' = [budget EXCEPT !.messages = @ - 1]
    /\ Sending(env.surbs, FALSE)
    /\ UNCHANGED <<env, phase, db, todo, controllerVars, net, history>>

\* The requester's ReplyController takes up a request.  The recipient is one
\* tags_storage knows: its tag went out with the first SURBs.
HandleSurbRequest(r) ==
    /\ r \in peer.requests
    /\ peer.owed = 0 /\ Stored(TRUE)
    /\ peer' = [peer EXCEPT !.requests = @ \ {r},
                            !.owed = MinOf(r.amount, MaxAllowed)]
    /\ UNCHANGED <<env, budget, phase, db, todo, controllerVars, net, inbox, history>>

\* The next batch of what was asked for; one that cannot be sent is left out.
TrySendAdditionalReplySurbs ==
    LET n == MinOf(BatchSize, peer.owed) IN
    /\ peer.owed > 0 /\ Stored(TRUE)
    /\ \/ Sending(n, TRUE) /\ UNCHANGED budget
       \/ /\ budget.refusals > 0
          /\ budget' = [budget EXCEPT !.refusals = @ - 1]
          /\ peer' = [peer EXCEPT !.next = @ + n, !.owed = @ - n]
          /\ UNCHANGED inbox
    /\ UNCHANGED <<env, phase, db, todo, controllerVars, net, history>>

\* reply_key_storage.insert_multiple, when the send has returned.
StoreReplyKeys(msg) ==
    /\ msg \in peer.storing
    /\ peer' = [peer EXCEPT
                  !.storing = @ \ {msg},
                  !.keys = [s \in DOMAIN @ \cup Range(msg.surbs) |->
                              IF s \in Range(msg.surbs) THEN 0 ELSE @[s]]]
    /\ UNCHANGED <<env, budget, phase, db, todo, controllerVars, net, inbox, history>>

\* The requester's own invalidate_old_data.
InvalidateReplyKeys ==
    LET old == {s \in DOMAIN peer.keys : peer.keys[s] >= 2} IN
    /\ old # {}
    /\ peer' = [peer EXCEPT !.keys = [s \in DOMAIN @ \ old |-> @[s]]]
    /\ history' = [history EXCEPT !.purged = @ \cup old]
    /\ UNCHANGED <<env, budget, phase, db, todo, controllerVars, net, inbox>>

-----------------------------------------------------------------------------
(* Time.  In a patient scenario nothing under way takes minutes.  delays   *)
(* bounds how often the sender is silent for seconds while it is.          *)

Idle ==
    /\ net = {} /\ inbox = {} /\ peer.requests = {}
    /\ peer.owed = 0 /\ peer.storing = {}
    /\ mem.unacked \subseteq mem.retransmissions

SecondsPass ==
    /\ mem.entry # NoEntry
    /\ mem.entry.age < DropAge
    /\ env.patient /\ mem.entry.age = RerequestAge =>
         Idle /\ (mem.replies # << >> => AvailableSurbs(mem.entry) = 0)
    /\ mem' = [mem EXCEPT !.entry.age = @ + 1]
    /\ IF mem.entry.age = RerequestAge \/ Idle THEN UNCHANGED budget
       ELSE /\ budget.delays > 0
            /\ budget' = [budget EXCEPT !.delays = @ - 1]
    /\ UNCHANGED <<env, phase, db, todo, ctl, net, inbox, peer, history>>

Aged(entry) == IF entry = NoEntry THEN NoEntry ELSE [entry EXCEPT !.age = SurbAge]

\* Half a day, the last packets of which may be under way.
HalfDayPasses ==
    /\ budget.halfDays > 0
    /\ mem.replies = << >>
    /\ phase # "down" => inbox = {} /\ peer.requests = {}
    /\ peer.owed = 0 /\ peer.storing = {}
    /\ budget' = [budget EXCEPT !.halfDays = @ - 1]
    /\ mem' = [mem EXCEPT !.entry = Aged(@)]
    /\ db' = [db EXCEPT !.entry = Aged(@), !.idle = MinOf(2, @ + 1)]
    /\ peer' = [peer EXCEPT !.keys = [s \in DOMAIN @ |-> MinOf(2, @[s] + 1)]]
    /\ UNCHANGED <<env, phase, todo, ctl, net, inbox, history>>

-----------------------------------------------------------------------------
Init ==
    /\ env \in Environments
    /\ budget = [losses |-> env.losses, topology |-> env.topology,
                 refusals |-> env.refusals, messages |-> env.messages,
                 crashes |-> env.crashes, shutdowns |-> env.shutdowns,
                 database |-> env.database, halfDays |-> env.halfDays,
                 delays |-> env.delays, overtakes |-> env.overtakes]
    /\ phase = "down"
    /\ db = FreshDb
    /\ todo = env.replies
    /\ ctl = "gone"
    /\ mem = Booted(NoEntry)
    /\ net = {}
    /\ inbox = {}
    /\ peer = [keys |-> << >>, next |-> 1, requests |-> {}, seen |-> {},
               owed |-> 0, storing |-> {}]
    /\ history = [stored |-> {}, spent |-> {}, doubled |-> {}, purged |-> {}]

\* What the clients, the mixnet and time do without being made to.
SystemStep ==
    \/ \E msg \in inbox : HandleReceivedSurbs(msg, FALSE)
    \/ \E f \in mem.unacked : HandleReplyRetransmission(f)
    \/ InspectStaleEntries
    \/ InvalidateOldData
    \/ Start
    \/ StorageTask
    \/ Exit
    \/ UnknownRecipientPanics
    \/ \E p \in net : Deliver(p, TRUE)
    \/ \E r \in peer.requests : HandleSurbRequest(r)
    \/ TrySendAdditionalReplySurbs
    \/ \E msg \in peer.storing : StoreReplyKeys(msg)
    \/ InvalidateReplyKeys
    \/ SecondsPass

Next ==
    \/ SystemStep
    \/ \E S \in SUBSET todo : HandleSendReply(S)
    \/ \E msg \in inbox : HandleReceivedSurbs(msg, TRUE)
    \/ Shutdown
    \/ Crash
    \/ \E p \in net : Deliver(p, FALSE) \/ Lose(p)
    \/ TrySendMessageWithReplySurbs
    \/ HalfDayPasses

Spec == Init /\ [][Next]_vars /\ WF_vars(SystemStep)

-----------------------------------------------------------------------------
Surb == 1..(peer.next - 1)
Entry == [data : Seq(Surb), pendingReception : Nat, age : 0..SurbAge]
Fragment == {Data(n) : n \in Reply}
              \cup {SurbRequest(n, a) : n \in Surb, a \in 1..MaxRequest}

\* The state is of the declared shape; the controller and the storage task
\* exist together, and what is kept of a step is gone after it.
TypeOK ==
    /\ phase \in {"down", "loaded", "session", "nosession", "shutdown",
                  "flushing", "dumped", "flushed", "stopped"}
    /\ ctl \in {"on", "last", "gone"}
    /\ phase = "down" => ctl = "gone"
    /\ phase \in {"loaded", "session"} => ctl = "on"
    /\ todo \subseteq Reply
    /\ mem.entry = NoEntry \/ mem.entry \in Entry
    /\ db.entry = NoEntry \/ db.entry \in Entry
    /\ Range(mem.replies) \subseteq {Data(n) : n \in Reply}
    /\ mem.unacked \cup mem.retransmissions \subseteq Fragment
    /\ mem.out = {} /\ mem.failures = 0
    /\ net \subseteq [frag : Fragment, surb : Surb]
    /\ UNION {Range(m.surbs) : m \in inbox \cup peer.storing} \subseteq Surb
    /\ peer.owed \in Nat
    /\ DOMAIN peer.keys \subseteq Surb
    /\ \A b \in DOMAIN budget : budget[b] \in Nat

\* A SURB that was spent is not held again, and not in a database that the
\* next start would trust (client_in_use, flush_in_progress).  The code lets
\* two kinds slip: those spent before the storage task has marked the file or
\* after it has dumped them, and those of a message repeated after a restart.
SpentSurbsAreGone ==
    LET held == IF mem.entry = NoEntry THEN {} ELSE Range(mem.entry.data) IN
    (held \cup TrustedSurbs) \cap history.spent \subseteq history.doubled

\* The requester holds, or is about to store, the key of every packet on its
\* way and of every SURB the responder could use, unless the SURB was spent
\* twice or has outlived maximum_reply_key_age.  About to store: a reply that
\* overtakes insert_multiple, which follows the awaited send, is acknowledged
\* and cannot be read.
RepliesReadable ==
    LET held == IF mem.entry = NoEntry THEN {} ELSE Range(mem.entry.data) IN
    ({p.surb : p \in net} \cup held)
      \subseteq DOMAIN peer.keys \cup Unstored \cup history.doubled \cup history.purged

\* SURBs asked for and not received: in requests the requester has not read
\* or not answered, and in answers not received.
Outstanding ==
    LET sent == mem.unacked \cup {p.frag : p \in net}
        asked == {f \in sent : f.type = "request" /\ f \notin peer.seen}
        answers == {m \in inbox : m.requested /\ m \notin mem.reconstructed}
    IN  MapThenSumSet(LAMBDA r : r.amount, asked \cup peer.requests)
          + peer.owed
          + MapThenSumSet(LAMBDA m : Len(m.surbs), answers)

\* pending_reception never counts more SURBs than are to come, so it does not
\* keep should_request_more_surbs from asking for ever: it is counted down for
\* what arrives, late answers to a request forgotten by the stale inspection
\* included.  A requester that could not send, or read, takes that away, and
\* so would one that sends fewer than were asked for (MaxAllowed < MaxRequest).
PendingReceptionJustified ==
    /\ MaxAllowed >= MaxRequest
    /\ budget.refusals = env.refusals
    /\ budget.overtakes = env.overtakes
    /\ history.doubled \cup history.purged = {}
    => PendingReception(mem.entry) <= Outstanding

Queued(n) == Data(n) \in Range(mem.replies)

\* A reply waiting for SURBs is sent, or dropped with the silence of its
\* sender: the queue holds nothing for ever.
RepliesLeave == \A n \in Reply : Queued(n) ~> ~Queued(n)

Waits(n) ==
    \/ Data(n) \in mem.unacked
    \/ Queued(n) /\ mem.entry # NoEntry /\ mem.entry.age < DropAge

=============================================================================
