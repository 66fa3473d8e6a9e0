----------------------------- MODULE MCSocks5Proxy -----------------------------
(* Small instances of Socks5Proxy for TLC.                                    *)
EXTENDS Socks5Proxy

Scenario(client, requester, keepalives, faults) ==
    [data |-> [client |-> client, requester |-> requester],
     keepalives |-> [client |-> 0, requester |-> keepalives], faults |-> faults]

\* Nothing goes wrong, and no side sends more messages than the other one accepts
\* ahead of a missing one.
Exchange == Scenario(1, 1, 0, FALSE)
Upload == Scenario(2, 0, 0, FALSE)
Download == Scenario(0, 1, 1, FALSE)

\* Anything may go wrong.
Unreliable == Scenario(2, 0, 0, TRUE)

AllEnvironments == {Exchange, Upload, Download, Unreliable}
===============================================================================
