---------------------------- MODULE ReplyStorage ----------------------------
(***************************************************************************)
(* What a client that answers an anonymous sender keeps of it: the reply   *)
(* SURBs received (ReceivedReplySurbsMap, one entry per sender; the        *)
(* entries are independent, so there is one sender here) and the database  *)
(* they survive a restart in.                                              *)
(*                                                                         *)
(* The map is in memory.  It is written to the database once, when the     *)
(* client shuts down, by a task of its own (flush_on_shutdown) while the   *)
(* ReplyController may still be handling a request.  The flags of the      *)
(* status table tell the next start what to make of the file.              *)
(*                                                                         *)
(* Ages stand for the waiting periods of the configuration: 1 is more than *)
(* maximum_reply_surb_rerequest_waiting_period, 2 more than the drop       *)
(* waiting period, 3 more than maximum_reply_surb_age.                     *)
(***************************************************************************)
EXTENDS Integers, Sequences, FiniteSets, FiniteSetsExt, Functions

CONSTANTS
    NoEntry,        \* the map has no entry for the sender
    MinThreshold    \* min_surb_threshold

VARIABLES
    env,            \* the scenario, fixed
    budget,         \* the faults still to come
    phase,          \* where flush_on_shutdown is
    db              \* the database file

RerequestAge == 1
DropAge == 2
SurbAge == 3

-----------------------------------------------------------------------------
(* ReceivedReplySurbs and the operations of the map.                       *)

NewEntry(surbs) == [data |-> surbs, pendingReception |-> 0, age |-> 0]

AvailableSurbs(entry) == IF entry = NoEntry THEN 0 ELSE Len(entry.data)
PendingReception(entry) == IF entry = NoEntry THEN 0 ELSE entry.pendingReception

Drop(s, n) == SubSeq(s, n + 1, Len(s))

\* What can be taken for data: the threshold is kept for requests.
Spendable(entry) ==
    IF AvailableSurbs(entry) > MinThreshold
    THEN AvailableSurbs(entry) - MinThreshold ELSE 0

\* The SURBs taken by get_reply_surbs, and the entry it leaves.
Taken(entry, n) == SubSeq(entry.data, 1, n)
\* Mutant: the SURBs are read, not drained.
WithoutNothing(entry, n) == entry
Without(entry, n) == [entry EXCEPT !.data = Drop(@, n)]

\* get_reply_surb_ignoring_threshold and get_reply_surb find a SURB.
FindsSurb(entry, ignoringThreshold) ==
    /\ AvailableSurbs(entry) > 0
    /\ ignoringThreshold \/ AvailableSurbs(entry) >= MinThreshold

\* insert_surbs, also for SURBs handed back: the sender counts as heard of.
InsertSurbs(entry, surbs) ==
    IF entry = NoEntry THEN NewEntry(surbs)
    ELSE [entry EXCEPT !.data = @ \o surbs, !.age = 0]

IncrementPendingReception(entry, n) ==
    [entry EXCEPT !.pendingReception = @ + n]

\* Mutant: what was asked for stays expected when it arrives.
DecrementNothing(entry, n) == entry
\* Mutant: the count is not kept from going below zero.
DecrementBelowZero(entry, n) ==
    IF entry = NoEntry THEN NoEntry
    ELSE [entry EXCEPT !.pendingReception = @ - n]
DecrementPendingReception(entry, n) ==
    IF entry = NoEntry THEN NoEntry
    ELSE [entry EXCEPT !.pendingReception = IF @ > n THEN @ - n ELSE 0]

ResetPendingReception(entry) ==
    IF entry = NoEntry THEN NoEntry ELSE [entry EXCEPT !.pendingReception = 0]

-----------------------------------------------------------------------------
(* The database: its status row and the SURBs of the sender.  idle counts  *)
(* the half days since the last flush.                                     *)

FreshDb == [flushInProgress |-> FALSE, flushed |-> FALSE, clientInUse |-> TRUE,
            entry |-> NoEntry, idle |-> 0]

\* try_load returns the backend; otherwise the file is archived.
Loads == ~db.flushInProgress /\ db.flushed

\* try_load keeps the SURBs of the file.
Trusts == ~db.clientInUse /\ db.idle < 2

\* setup_fs_reply_surb_backend; the controller then starts with db'.entry.
Load ==
    /\ phase = "down"
    /\ phase' = "loaded"
    /\ db' = IF ~Loads THEN FreshDb
             ELSE IF Trusts THEN db ELSE [db EXCEPT !.entry = NoEntry]
    /\ UNCHANGED <<env, budget>>

\* Mutant: the session is started without marking the file as in use.
StartUnmarked ==
    /\ phase = "loaded"
    /\ phase' = "session"
    /\ UNCHANGED <<env, budget, db>>

\* The first step of flush_on_shutdown, a task spawned after the load.
StartStorageSession ==
    /\ phase = "loaded"
    /\ phase' = "session"
    /\ db' = [db EXCEPT !.clientInUse = TRUE]
    /\ UNCHANGED <<env, budget>>

\* The update fails and the task returns: nothing will be flushed.
StartStorageSessionFails ==
    /\ phase = "loaded"
    /\ budget.database > 0
    /\ budget' = [budget EXCEPT !.database = @ - 1]
    /\ phase' = "nosession"
    /\ UNCHANGED <<env, db>>

\* Up to the first dump: the old file is renamed and a new one started.
RotateAndStartFlush ==
    /\ phase = "shutdown"
    /\ phase' = "flushing"
    /\ db' = [FreshDb EXCEPT !.flushInProgress = TRUE]
    /\ UNCHANGED <<env, budget>>

\* pending_reception is not stored.
DumpReplySurbs(entry) ==
    /\ phase = "flushing"
    /\ phase' = "dumped"
    /\ db' = [db EXCEPT !.entry = ResetPendingReception(entry)]
    /\ UNCHANGED <<env, budget>>

\* remove_old and end_storage_flush.
EndStorageFlush ==
    /\ phase = "dumped"
    /\ phase' = "flushed"
    /\ db' = [db EXCEPT !.flushInProgress = FALSE, !.flushed = TRUE]
    /\ UNCHANGED <<env, budget>>

\* An error inside flush_surb_storage; the session is stopped all the same.
FlushFails ==
    /\ phase \in {"flushing", "dumped"}
    /\ budget.database > 0
    /\ budget' = [budget EXCEPT !.database = @ - 1]
    /\ phase' = "flushed"
    /\ UNCHANGED <<env, db>>

StopStorageSession ==
    /\ phase = "flushed"
    /\ phase' = "stopped"
    /\ db' = [db EXCEPT !.clientInUse = FALSE]
    /\ UNCHANGED <<env, budget>>

\* stop_client_use fails, also after a rotate that failed with its pool closed.
StopStorageSessionFails ==
    /\ phase \in {"shutdown", "flushed"}
    /\ budget.database > 0
    /\ budget' = [budget EXCEPT !.database = @ - 1]
    /\ phase' = "stopped"
    /\ UNCHANGED <<env, db>>

\* The SURBs the next start will use.
TrustedSurbs ==
    IF Loads /\ Trusts /\ db.entry # NoEntry THEN Range(db.entry.data) ELSE {}

\* A SURB spent now stays in a file that may be trusted: the session is not
\* marked, or the SURB has been dumped already.
Exposed(surb) ==
    /\ phase \notin {"session", "shutdown"}
    /\ db.entry # NoEntry
    /\ surb \in Range(db.entry.data)
=============================================================================
