---------------------------- MODULE MCHTTPServer ----------------------------
(***************************************************************************)
(* HTTPServer for TLC: a first connection with every request, whatever main*)
(* and the signal handler do, and a second one that meets the first one's  *)
(* download while the server serves.                                       *)
(***************************************************************************)
EXTENDS HTTPServer, TLC

CONSTANTS m1, m2, c1, c2, s1, s2

\* A pull streams with and without the stream header.
AllRequests ==
    [route : Routes \ {"pull"}, header : BOOLEAN, model : {m1}]
        \cup [route : {"pull"}, header : {FALSE}, model : {m1, m2}]
        \cup [route : {"other"}, header : {FALSE}, model : {m2}]

\* Bounds on what the first connection is given.
FirstOnly == client'[c1].model # m2 /\ client'[c1].socket # s2

\* Bounds on the second: it comes to a server that is not stopped, once the
\* first has a download to begin; it pulls the same model, or comes for
\* another one or for something else when the first has been closed.  Both
\* poll at most once again, and nobody comes after it.
SecondMeetsPull ==
    client'[c2].at # "out" =>
        /\ g_running' /\ start' = "started" /\ ~terminated'
        /\ client'[c1].route = "pull"
        /\ client[c1].at \notin {"waiting", "recv", "routing"}
        /\ client'[c2].route \in {"pull", "other"} /\ ~client'[c2].header
        /\ client'[c2].model = m2 => client[c1].at = "closed"
        /\ client'[c2].at = "waiting" => loop' = "select"
        /\ client[c2].at \notin {"out", "waiting"} => loop' = loop
        /\ \A c \in Conn : client'[c].polls < MaxPolls

Serving == Init /\ [][Next /\ FirstOnly /\ SecondMeetsPull]_vars /\ Fairness

=============================================================================
