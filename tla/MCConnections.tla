--------------------------- MODULE MCConnections ---------------------------
(***************************************************************************)
(* Connections on a small table.  A peer is one run of a client program:   *)
(* an address, a session id and a name.  Two of them (a1 and a2) are       *)
(* IPv4 clients on different hosts that chose the same source port, which  *)
(* HostPort cannot tell apart.                                             *)
(***************************************************************************)
EXTENDS Connections

CONSTANTS a1, a2, a3, a4, a5, n1, n2, none, nowhere

MCAddr == {a1, a2, a3, a4, a5}

MCHostPort == [a \in MCAddr |-> IF a = a2 THEN a1 ELSE a]

Peer == {
    [addr |-> a1, session |-> 1, name |-> n1],
    [addr |-> a1, session |-> 2, name |-> n2],   \* restart on the same port
    [addr |-> a2, session |-> 1, name |-> n1],   \* a rival for the name
    [addr |-> a3, session |-> 1, name |-> n2],
    [addr |-> a4, session |-> 1, name |-> none],  \* a spectator
    [addr |-> a5, session |-> 1, name |-> none]} \* one client too many

MCArrivals ==
    {[addr |-> p.addr, session |-> p.session, turn |-> t, name |-> p.name] :
        p \in Peer, t \in {0, 1}}
=============================================================================
