------------------------------ MODULE MCServer ------------------------------
(* Instances of Server for TLC.                                            *)
EXTENDS Server

CONSTANTS s1, s2, k1, k2, u1, u2

MCServers == {s1, s2}
MCRegistrations == {k1, k2}
MCUses == {u1, u2}

\* Two connections for the requests of one process, one for the other's, and one in
\* each for the migrations' driver.
MCMaxOpen == [s \in MCServers |-> IF s = s1 THEN 3 ELSE 2]

\* DB_MAX_OPEN_CONNS=1.
MCPoolOfOne == [s \in MCServers |-> 1]

Starts(first, second) == [s \in MCServers |-> IF s = s1 THEN first ELSE second]

\* Every request on one process; two registrations and a use on two processes that
\* start together; a registration and a use through restarts of both.
MCLoads ==
    {[requests |-> {k1, k2, u1, u2}, starts |-> Starts(1, 0)],
     [requests |-> {k1, k2, u1}, starts |-> Starts(1, 1)],
     [requests |-> {k1, u1}, starts |-> Starts(2, 2)]}

\* One registration on one process.
MCOneRequest == {[requests |-> {k1}, starts |-> Starts(1, 0)]}

\* Of necessity a drain is over after its 30 s, too: what then still waits for ever
\* does so in a process that serves.
MCDrainsEnd ==
    /\ ServerFairSpec
    /\ \A s \in Servers : WF_allVars(phase[s] = "drain" /\ (Drained(s) \/ Exit(s)))
=============================================================================
