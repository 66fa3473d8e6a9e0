--------------------------- MODULE MCGatewayClients ---------------------------
(* A small instance of GatewayClients for TLC.                                *)
EXTENDS GatewayClients, TLC

CONSTANTS c1, c2, c3, r1, m1, m2, k1

\* Two messages arrive while a connection replaces another.
Delivery == [conns |-> {c1, c2}, msgs |-> <<m1, m2>>, credentials |-> {}, claims |-> 0,
             restarts |-> 0]

\* The same with one message, and the gateway restarts.
Crash == [conns |-> {c1, c2}, msgs |-> <<m1>>, credentials |-> {}, claims |-> 0, restarts |-> 1]

\* A client spends a credential, claims bandwidth and sends over two connections.
Bandwidth == [conns |-> {c1, c2}, msgs |-> <<>>, credentials |-> {k1}, claims |-> 1,
              restarts |-> 1]

\* Three connections compete for the client.
Handover == [conns |-> {c1, c2, c3}, msgs |-> <<>>, credentials |-> {}, claims |-> 0,
             restarts |-> 0]

AllEnvironments == {Delivery, Crash, Bandwidth, Handover}
===============================================================================
