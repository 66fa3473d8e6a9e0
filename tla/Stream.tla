-------------------------------- MODULE Stream --------------------------------
(***************************************************************************)
(* What a proxied connection promises its two sockets: each of them        *)
(* receives a prefix of what was read from the other one, in order and     *)
(* without gaps, and is told that the other one is at its end only when it *)
(* has received everything.  A side may give up at any time.               *)
(***************************************************************************)
EXTENDS Naturals, Sequences

CONSTANTS
    Side,      \* the two ends of the connection
    Data       \* what is read from a socket at once

VARIABLES
    sent,      \* by side: what was read from its socket
    finished,  \* by side: its socket is at its end, or is not read any more
    delivered, \* by side: what was written to its socket
    end        \* by side: whether its socket is written to, and if not why

streamVars == <<sent, finished, delivered, end>>

StreamInit ==
    /\ sent = [s \in Side |-> <<>>]
    /\ finished = [s \in Side |-> FALSE]
    /\ delivered = [s \in Side |-> <<>>]
    /\ end = [s \in Side |-> "open"]

Send(s) ==
    /\ ~finished[s]
    /\ \E x \in Data : sent' = [sent EXCEPT ![s] = Append(@, x)]
    /\ UNCHANGED <<finished, delivered, end>>

Finish(s) ==
    /\ finished' = [finished EXCEPT ![s] = TRUE]
    /\ UNCHANGED <<sent, delivered, end>>

\* Side s receives more of what o has sent, and perhaps its end.
Deliver(s, o) ==
    /\ end[s] = "open"
    /\ \E n \in Len(delivered[s]) .. Len(sent[o]) :
          /\ delivered' = [delivered EXCEPT ![s] = SubSeq(sent[o], 1, n)]
          /\ \/ UNCHANGED end
             \/ /\ finished[o]
                /\ n = Len(sent[o])
                /\ end' = [end EXCEPT ![s] = "eof"]
    /\ UNCHANGED <<sent, finished>>

Cut(s) ==
    /\ end[s] = "open"
    /\ end' = [end EXCEPT ![s] = "cut"]
    /\ UNCHANGED <<sent, finished, delivered>>

StreamNext ==
    \E s \in Side :
        \/ Send(s)
        \/ Finish(s)
        \/ \E o \in Side \ {s} : Deliver(s, o)
        \/ Cut(s)

StreamSpec == StreamInit /\ [][StreamNext]_streamVars
===============================================================================
