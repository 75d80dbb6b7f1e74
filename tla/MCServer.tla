------------------------------ MODULE MCServer ------------------------------
(***************************************************************************)
(* The server with a few client programs, each with an address and a name  *)
(* of its own; names are their ranks in the string order, 0 is the empty   *)
(* one.  Only the clients in Leaving ever fall silent long enough for      *)
(* their timers to expire: a bound on the environment, not on the server.  *)
(***************************************************************************)
EXTENDS Server

CONSTANTS
    Peers,      \* the clients; client n is called n and is at address n
    Leaving,
    Keys        \* the turn directions they send

MCHostPort == [a \in Addr |-> a]

MCArrivals ==
    {[addr |-> p, session |-> 1, turn |-> t, name |-> p] : p \in Peers, t \in Keys}

MCNext ==
    \/ PollAll /\ \A s \in revents' : clientAddress[s] \in Leaving
    \/ Handle

MCSpec == Init /\ [][MCNext]_vars

MCFairSpec == MCSpec /\ Fairness
=============================================================================
