------------------------- MODULE MCMysqlConnection -------------------------
(***************************************************************************)
(* MysqlConnection for TLC: the clients of its runs.                       *)
(***************************************************************************)
EXTENDS MysqlConnection

CONSTANTS q1, q2, q3, p1, e1

\* Waits for each answer, and otherwise does anything, anywhere.
Waiting ==
    [requests |-> {q1, q2, p1, e1}, overlap |-> FALSE, inside |-> {"connect_cb", "result_cb", "drain_cb", "close_cb"},
     close |-> TRUE, ping |-> FALSE, sync |-> TRUE, throwing |-> {q1, NoReq}, results |-> 1]

\* Pings as well, anywhere, and lets its requests start over a ping.
Pinging == [Waiting EXCEPT !.requests = {q1, p1, e1}, !.throwing = {NoReq}, !.ping = TRUE]

\* Makes three queries of two result sets each without waiting for their answers, and pings
\* between them.
Pipelined ==
    [requests |-> {q1, q2, q3}, overlap |-> TRUE, inside |-> {}, close |-> TRUE, ping |-> TRUE, sync |-> TRUE,
     throwing |-> {q1}, results |-> 2]

\* Makes two queries, and nothing fails at once.
Overlapping ==
    [requests |-> {q1, q2}, overlap |-> TRUE, inside |-> {}, close |-> FALSE, ping |-> FALSE, sync |-> FALSE,
     throwing |-> {}, results |-> 1]

MCClients == {Waiting, Pinging, Pipelined}
OverlapClients == {Overlapping}
=============================================================================
