----------------------------- MODULE HTTPServer -----------------------------
(***************************************************************************)
(* The API server: class HTTPServer of runtime/server.{h,cpp} with main    *)
(* and the signal handler of runtime/main.cpp, which both stop it.         *)
(*                                                                         *)
(* One thread runs socket_server_loop, and every accepted connection gets  *)
(* a detached thread of its own and a SOCKET value that no other open      *)
(* connection has; once it is closed the system gives the value away again.*)
(* A pull is served by two: its connection polls, and the downloader, which*)
(* is not in src/, calls back.  A step ends at every access to running_,   *)
(* server_socket_ and g_server, at every send and at every wait.  What is  *)
(* sent after the last WSACleanup is lost.                                 *)
(***************************************************************************)
EXTENDS Integers, Sequences

CONSTANTS
    Conn,        \* the connections clients make
    Socket,      \* SOCKET values the system gives to connections
    Model,       \* the downloader's entries: values of safe_name
    Requests,    \* what clients may ask for: route, stream header, model
    MaxChunks,   \* bound: chunks a route streams before its response
    MaxPolls     \* polls of a download in ten minutes: 2400

(* static: a file of the UI    plain: tags, delete    other: version, unknown
   stream: generate, chat      preflight: OPTIONS     nothing: the client closes *)
Routes == {"static", "plain", "other", "stream", "pull", "preflight", "nothing"}

ASSUME ServerAssumption ==
    /\ Requests \subseteq [route : Routes, header : BOOLEAN, model : Model]
    /\ MaxChunks \in Nat
    /\ MaxPolls \in Nat \ {0}

VARIABLES
    running_, server_socket_, loop, winsock,
    server_thread_,  \* "none", "joinable", "joined"
    g_running, g_server,
    start,       \* how far main's start of the server is
    stopper,     \* "main", "handler" -> how far its stop is
    alive,       \* main has not yet left the scope of server and engine
    terminated,  \* an exception that nobody catches has ended the process
    client,      \* connection -> its request and its thread
    download,    \* connection -> the download it has started
    entry        \* model -> the connection whose download get_progress shows

serverVars == <<running_, server_socket_, loop, winsock>>
processVars == <<g_running, g_server, start, alive, terminated>>
mainVars == <<server_thread_, stopper, processVars>>
downloadVars == <<download, entry>>
clientVars == <<client, downloadVars>>
vars == <<serverVars, mainVars, clientVars>>

Stoppers == {"main", "handler"}

\* Where a connection holds a SOCKET value.
Open == {"recv", "routing", "download", "polling", "sleeping", "answer", "closing"}

NotConnected == [at |-> "out", route |-> "nothing", header |-> FALSE,
                 model |-> "none", socket |-> "none",
                 streaming |-> FALSE, sent |-> <<>>,
                 verdict |-> "none",    \* what the response says of the pull
                 polls |-> 0]

\* outcome: how it goes    shown: get_progress says so    reported: so did the callback
NoDownload == [outcome |-> "none", shown |-> FALSE, reported |-> FALSE, chunks |-> 0]

\* main has constructed the server.
Init ==
    /\ running_ = FALSE
    /\ server_socket_ = "invalid"
    /\ loop = "none"
    /\ winsock = 0
    /\ server_thread_ = "none"
    /\ g_running = TRUE
    /\ g_server = FALSE
    /\ start = "constructed"
    /\ stopper = [s \in Stoppers |-> "idle"]
    /\ alive = TRUE
    /\ terminated = FALSE
    /\ client = [c \in Conn |-> NotConnected]
    /\ download = [c \in Conn |-> NoDownload]
    /\ entry = <<>>

-----------------------------------------------------------------------------
(* main's start of the server *)

\* g_server = &server
Publish ==
    /\ start = "constructed"
    /\ g_server' = TRUE
    /\ start' = "published"
    /\ UNCHANGED <<serverVars, server_thread_, g_running, stopper, alive, terminated, clientVars>>

StartFlag ==
    /\ start = "published"
    /\ running_' = TRUE
    /\ start' = "running"
    /\ UNCHANGED <<server_socket_, loop, winsock, server_thread_, g_running, g_server,
                   stopper, alive, terminated, clientVars>>

\* The new thread may run before server_thread_ is assigned.
StartThread ==
    /\ start = "running"
    /\ loop' = "startup"
    /\ start' = "created"
    /\ UNCHANGED <<running_, server_socket_, winsock, server_thread_, g_running,
                   g_server, stopper, alive, terminated, clientVars>>

AssignThread ==
    /\ start = "created"
    /\ server_thread_' = "joinable"
    /\ start' = "started"
    /\ UNCHANGED <<serverVars, g_running, g_server, stopper, alive, terminated, clientVars>>

MainStarts == Publish \/ StartFlag \/ StartThread \/ AssignThread

-----------------------------------------------------------------------------
(* socket_server_loop *)

\* WSAStartup and socket, each of which may fail.
LoopStartup ==
    /\ loop = "startup"
    /\ \/ winsock' = 1 /\ server_socket_' = "made" /\ loop' = "bind"
       \/ loop' = "ended" /\ UNCHANGED <<winsock, server_socket_>>
    /\ UNCHANGED <<running_, mainVars, clientVars>>

\* bind and listen, which fail also on a socket that stop has closed.
LoopBind ==
    /\ loop = "bind"
    /\ \/ /\ server_socket_ = "made" /\ winsock > 0
          /\ server_socket_' = "listening"
          /\ loop' = "head"
          /\ UNCHANGED winsock
       \/ /\ server_socket_' = "invalid"
          /\ loop' = "ended"
          /\ winsock' = 0
    /\ UNCHANGED <<running_, mainVars, clientVars>>

\* Mutant of LoopHead: the loop does not look at running_.
LoopForever ==
    /\ loop = "head"
    /\ loop' = "select"
    /\ UNCHANGED <<running_, server_socket_, winsock, mainVars, clientVars>>

LoopHead ==
    /\ loop = "head"
    /\ loop' = IF running_ THEN "select" ELSE "close"
    /\ UNCHANGED <<running_, server_socket_, winsock, mainVars, clientVars>>

\* select returns after a second at the latest, or at once on a closed socket.
SelectNothing ==
    /\ loop = "select"
    /\ loop' = "head"
    /\ UNCHANGED <<running_, server_socket_, winsock, mainVars, clientVars>>

Accept(c) ==
    /\ loop = "select"
    /\ server_socket_ = "listening" /\ winsock > 0
    /\ client[c].at = "waiting"
    /\ \E value \in Socket :
          /\ \A e \in Conn : client[e].at \in Open => client[e].socket # value
          /\ client' = [client EXCEPT ![c].at = "recv", ![c].socket = value]
    /\ loop' = "head"
    /\ UNCHANGED <<running_, server_socket_, winsock, mainVars, downloadVars>>

LoopClose ==
    /\ loop = "close"
    /\ server_socket_' = "invalid"
    /\ winsock' = 0
    /\ loop' = "ended"
    /\ UNCHANGED <<running_, mainVars, clientVars>>

LoopStep ==
    \/ LoopStartup \/ LoopBind \/ LoopHead \/ LoopClose
    \/ SelectNothing \/ \E c \in Conn : Accept(c)

-----------------------------------------------------------------------------
(* The thread of a connection *)

Connect(c, request) ==
    /\ client[c].at = "out"
    /\ server_socket_ = "listening"
    /\ client' = [client EXCEPT ![c].at = "waiting", ![c].route = request.route,
                                ![c].header = request.header, ![c].model = request.model]
    /\ UNCHANGED <<serverVars, mainVars, downloadVars>>

\* c's messages so far and these, unless the sockets are gone.
Sending(c, messages) ==
    IF winsock = 0 THEN client[c].sent ELSE client[c].sent \o messages

\* c goes on to `place`, having sent `messages`.
Send(c, messages, place) ==
    /\ client' = [client EXCEPT ![c].at = place, ![c].sent = Sending(c, messages)]
    /\ UNCHANGED <<serverVars, mainVars, downloadVars>>

\* recv waits without a time limit: a client may stay silent for ever.
\* A request without an answer of the API is answered at once; a streaming
\* request, by its header or by its path, gets the head of an event stream.
Receive(c) ==
    /\ client[c].at = "recv"
    /\ LET route == client[c].route
           streams == client[c].header \/ route \in {"stream", "pull"}
       IN \/ route = "nothing" /\ Send(c, <<>>, "closing")
          \/ route = "preflight" /\ Send(c, <<"head">>, "closing")
          \/ route = "static" /\ Send(c, <<"head", "body">>, "closing")
          \/ /\ route \notin {"nothing", "preflight", "static"}
             /\ Send(c, IF streams THEN <<"stream head">> ELSE <<>>, "routing")

Chunks(c) == Len(SelectSeq(client[c].sent, LAMBDA m : m = "chunk"))

\* handle_request: the callback streams a chunk ...
StreamChunk(c) ==
    /\ client[c].at = "routing"
    /\ client[c].route = "stream"
    /\ Chunks(c) < MaxChunks /\ winsock > 0
    /\ Send(c, <<"chunk">>, "routing")

\* ... and the route says whether it streams; other routes leave that as it was.
Routed(c) ==
    /\ client[c].at = "routing"
    /\ client[c].route # "pull"
    /\ client' = [client EXCEPT ![c].at = "answer",
          ![c].streaming = \/ client[c].route = "stream"
                           \/ client[c].route = "other" /\ client[c].header]
    /\ UNCHANGED <<serverVars, mainVars, downloadVars>>

-----------------------------------------------------------------------------
(* handle_pull *)

\* What get_progress(safe_name) returns: of the last download of that name,
\* whoever has started it.
Progress(c) == download[entry[client[c].model]]

\* The response is `verdict`; before it come `messages`.
Respond(c, messages, verdict) ==
    client' = [client EXCEPT ![c].at = "answer", ![c].streaming = TRUE,
                             ![c].sent = Sending(c, messages), ![c].verdict = verdict]

\* A body that does not parse, or names no model, is an error.
PullPrepares(c) ==
    /\ client[c].at = "routing"
    /\ client[c].route = "pull"
    /\ \/ Respond(c, <<>>, "error")
       \/ client' = [client EXCEPT ![c].at = "download",
                                   ![c].sent = Sending(c, <<"preparing">>)]
    /\ UNCHANGED <<serverVars, mainVars, downloadVars>>

\* The downloader may refuse, and does what it is already downloading.
PullStarts(c) ==
    /\ client[c].at = "download"
    /\ LET model == client[c].model
       IN  \/ Respond(c, <<>>, "error") /\ UNCHANGED downloadVars
           \/ /\ model \in DOMAIN entry => Progress(c).shown
              /\ client' = [client EXCEPT ![c].at = "polling"]
              /\ \E outcome \in {"completed", "failed"} :
                    download' = [download EXCEPT ![c].outcome = outcome]
              /\ entry' = [m \in DOMAIN entry \cup {model} |->
                               IF m = model THEN c ELSE entry[m]]
    /\ UNCHANGED <<serverVars, mainVars>>

\* Mutant of PollCompleted: whatever is over has succeeded.
PollOver(c) ==
    /\ client[c].at = "polling"
    /\ Progress(c).shown
    /\ Respond(c, <<"success">>, "success")
    /\ UNCHANGED <<serverVars, mainVars, downloadVars>>

PollCompleted(c) ==
    /\ client[c].at = "polling"
    /\ Progress(c).shown /\ Progress(c).outcome = "completed"
    /\ Respond(c, <<"success">>, "success")
    /\ UNCHANGED <<serverVars, mainVars, downloadVars>>

PollFailed(c) ==
    /\ client[c].at = "polling"
    /\ Progress(c).shown /\ Progress(c).outcome = "failed"
    /\ Respond(c, <<>>, "error")
    /\ UNCHANGED <<serverVars, mainVars, downloadVars>>

PollSleeps(c) ==
    /\ client[c].at = "polling"
    /\ ~Progress(c).shown
    /\ client' = [client EXCEPT ![c].at = "sleeping", ![c].polls = @ + 1]
    /\ UNCHANGED <<serverVars, mainVars, downloadVars>>

\* Ten minutes are over after MaxPolls polls, or earlier if a poll takes long.
PollWakes(c) ==
    /\ client[c].at = "sleeping"
    /\ \/ /\ client[c].polls < MaxPolls
          /\ client' = [client EXCEPT ![c].at = "polling"]
       \/ Respond(c, <<>>, "downloading")
    /\ UNCHANGED <<serverVars, mainVars, downloadVars>>

PullStep(c) ==
    \/ PullPrepares(c) \/ PullStarts(c)
    \/ PollCompleted(c) \/ PollFailed(c) \/ PollSleeps(c) \/ PollWakes(c)

\* Mutant of CallBack: every open connection that pulls the model is told.
CallBackAll(c, message) ==
    client' = [e \in Conn |->
        IF client[e].at \in Open /\ client[e].model = client[c].model
        THEN [client[e] EXCEPT
                 !.sent = Sending(e, <<IF e = c THEN message ELSE "stray">>)]
        ELSE client[e]]

\* The callback keeps a copy of the SOCKET value: whoever has that value now
\* gets what it streams, be it the connection c that pulls or a later one.
CallBack(c, message) ==
    client' = [e \in Conn |->
        IF client[e].at \in Open /\ client[e].socket = client[c].socket
        THEN [client[e] EXCEPT
                 !.sent = Sending(e, <<IF e = c THEN message ELSE "stray">>)]
        ELSE client[e]]

DownloadProgress(c) ==
    /\ download[c].outcome # "none" /\ ~download[c].reported
    /\ download[c].chunks < MaxChunks
    /\ CallBack(c, "chunk")
    /\ download' = [download EXCEPT ![c].chunks = @ + 1]
    /\ UNCHANGED <<serverVars, mainVars, entry>>

DownloadReports(c) ==
    /\ download[c].outcome # "none" /\ ~download[c].reported
    /\ CallBack(c, IF download[c].outcome = "completed" THEN "success" ELSE "failure")
    /\ download' = [download EXCEPT ![c].reported = TRUE]
    /\ UNCHANGED <<serverVars, mainVars, entry>>

\* What get_progress returns from now on.
DownloadShows(c) ==
    /\ download[c].outcome # "none" /\ ~download[c].shown
    /\ download' = [download EXCEPT ![c].shown = TRUE]
    /\ UNCHANGED <<serverVars, mainVars, client, entry>>

DownloaderStep(c) == DownloadProgress(c) \/ DownloadReports(c) \/ DownloadShows(c)

-----------------------------------------------------------------------------
\* Mutant of Answer: the end of the stream is not announced.
AnswerOpenEnded(c) ==
    /\ client[c].at = "answer"
    /\ Send(c, IF client[c].streaming THEN <<"body">> ELSE <<"head", "body">>,
            "closing")

Answer(c) ==
    /\ client[c].at = "answer"
    /\ Send(c, IF client[c].streaming THEN <<"body", "[DONE]">> ELSE <<"head", "body">>,
            "closing")

\* Mutant of CloseClient: only a connection that sent something is closed.
CloseAnswered(c) ==
    /\ client[c].at = "closing"
    /\ client[c].route # "nothing"
    /\ Send(c, <<>>, "closed")

CloseClient(c) ==
    /\ client[c].at = "closing"
    /\ Send(c, <<>>, "closed")

\* What escapes the handlers ends the process from the detached thread: the
\* conversion of a path of the UI, or text that is not UTF-8, of an unknown
\* route or of a body quoted in a catch block, when it is dumped.
Throws(c) ==
    /\ client[c].at \in {"recv", "routing"}
    /\ client[c].route \notin {"nothing", "preflight"}
    /\ terminated' = TRUE
    /\ UNCHANGED <<serverVars, server_thread_, stopper, g_running, g_server, start,
                   alive, clientVars>>

Serves(c) ==
    \/ StreamChunk(c) \/ Routed(c) \/ PullStep(c) \/ Answer(c) \/ CloseClient(c)

ClientStep(c) == Receive(c) \/ Serves(c) \/ Throws(c)

-----------------------------------------------------------------------------
(* stop, called by main and by the signal handler's thread *)

\* SIGINT or SIGTERM, in a thread of its own.
Signal ==
    /\ stopper["handler"] = "idle"
    /\ g_running' = FALSE
    /\ stopper' = [stopper EXCEPT !["handler"] = "called"]
    /\ UNCHANGED <<serverVars, g_server, server_thread_, start, alive, terminated, clientVars>>

\* if (g_server)
SignalTests ==
    /\ stopper["handler"] = "called"
    /\ stopper' = [stopper EXCEPT !["handler"] = IF g_server THEN "found" ELSE "stopped"]
    /\ UNCHANGED <<serverVars, server_thread_, processVars, clientVars>>

\* g_server->stop(): the pointer is read again, and may be null by now, or not.
SignalEnters ==
    /\ stopper["handler"] = "found"
    /\ \/ stopper' = [stopper EXCEPT !["handler"] = "flag"] /\ UNCHANGED terminated
       \/ ~g_server /\ terminated' = TRUE /\ UNCHANGED stopper
    /\ UNCHANGED <<serverVars, server_thread_, g_running, g_server, start, alive, clientVars>>

\* main leaves its loop.
MainStops ==
    /\ start = "started" /\ stopper["main"] = "idle"
    /\ ~g_running \/ ~running_
    /\ stopper' = [stopper EXCEPT !["main"] = "flag"]
    /\ UNCHANGED <<serverVars, server_thread_, processVars, clientVars>>

StopFlag(s) ==
    /\ stopper[s] = "flag"
    /\ running_' = FALSE
    /\ stopper' = [stopper EXCEPT ![s] = "close"]
    /\ UNCHANGED <<server_socket_, loop, winsock, server_thread_, processVars, clientVars>>

StopClose(s) ==
    /\ stopper[s] = "close"
    /\ server_socket_' = "invalid"
    /\ stopper' = [stopper EXCEPT ![s] = "test"]
    /\ UNCHANGED <<running_, loop, winsock, server_thread_, processVars, clientVars>>

\* if (server_thread_.joinable())
StopTest(s) ==
    /\ stopper[s] = "test"
    /\ stopper' = [stopper EXCEPT ![s] =
          IF server_thread_ = "joinable" THEN "joining" ELSE "cleanup"]
    /\ UNCHANGED <<serverVars, server_thread_, processVars, clientVars>>

\* Mutant of StopJoin: the thread is not waited for.
StopDetach(s) ==
    /\ stopper[s] = "joining"
    /\ server_thread_' = "joined"
    /\ stopper' = [stopper EXCEPT ![s] = "cleanup"]
    /\ UNCHANGED <<serverVars, processVars, clientVars>>

\* Joining a thread somebody else has joined meanwhile throws, or returns.
StopJoin(s) ==
    /\ stopper[s] = "joining"
    /\ loop = "ended"
    /\ server_thread_' = "joined"
    /\ stopper' = [stopper EXCEPT ![s] = "cleanup"]
    /\ UNCHANGED <<serverVars, processVars, clientVars>>

JoinThrows(s) ==
    /\ stopper[s] = "joining"
    /\ server_thread_ = "joined"
    /\ terminated' = TRUE
    /\ UNCHANGED <<serverVars, server_thread_, stopper, g_running, g_server, start,
                   alive, clientVars>>

StopCleanup(s) ==
    /\ stopper[s] = "cleanup"
    /\ winsock' = 0
    /\ stopper' = [stopper EXCEPT ![s] = "stopped"]
    /\ UNCHANGED <<running_, server_socket_, loop, server_thread_, processVars, clientVars>>

\* main sets g_server to nullptr and leaves; server, engine and registry go.
\* The destructor's stop finds everything stopped.
MainLeaves ==
    /\ stopper["main"] = "stopped" /\ alive
    /\ g_server' = FALSE
    /\ alive' = FALSE
    /\ UNCHANGED <<serverVars, server_thread_, g_running, start, stopper, terminated,
                   clientVars>>

StopStep(s) ==
    \/ StopFlag(s) \/ StopClose(s) \/ StopTest(s)
    \/ StopJoin(s) \/ JoinThrows(s) \/ StopCleanup(s)

-----------------------------------------------------------------------------
Next ==
    /\ ~terminated
    /\ \/ LoopStep
       \/ MainStarts
       \/ \E c \in Conn : \/ ClientStep(c) \/ DownloaderStep(c)
                         \/ \E request \in Requests : Connect(c, request)
       \/ Signal \/ SignalTests \/ SignalEnters \/ MainStops \/ MainLeaves
       \/ \E s \in Stoppers : StopStep(s)

\* Every thread that can run does; nobody has to connect, to send a request or
\* to signal, and a download may take for ever.
Fairness ==
    /\ WF_vars(LoopStep)
    /\ \A c \in Conn : WF_vars(Serves(c))
    /\ \A s \in Stoppers : WF_vars(StopStep(s))
    /\ WF_vars(MainStarts) /\ WF_vars(MainStops) /\ WF_vars(MainLeaves)

Spec == Init /\ [][Next]_vars /\ Fairness

-----------------------------------------------------------------------------
(* When main destroys the server, no thread uses the listening socket any   *)
(* more and it is closed (server.cpp:108-125), in whatever order main, the  *)
(* signal handler and the server thread close it, and however early the     *)
(* signal comes.                                                            *)
StoppedIsQuiet == ~alive => loop = "ended" /\ server_socket_ = "invalid"

(* A connection that is closed while the server runs has got a whole answer *)
(* (server.cpp:247-335): a head and its body, or the head of a stream, the  *)
(* response and [DONE], wherever the chunks are that a route and the        *)
(* downloader stream between them, and what the callback of a closed pull   *)
(* adds, unless the stream header came with a route that does not stream.   *)
Framing == {"head", "stream head", "body", "[DONE]"}

\* What of the messages frames the answer is `frame`, in this order.
Frames(frame, sent) ==
    LET places == {i \in DOMAIN sent : sent[i] \in Framing}
    IN  \E place \in [DOMAIN frame -> places] :
            /\ \A i \in DOMAIN frame : sent[place[i]] = frame[i]
            /\ \A i, j \in DOMAIN frame : i < j => place[i] < place[j]
            /\ \A n \in places : \E i \in DOMAIN frame : n = place[i]

\* The frames of a whole answer to c's request.
Whole(c) ==
    {<<"head", "body">>, <<"stream head", "body", "[DONE]">>}
        \cup (IF client[c].route = "nothing" THEN {<<>>}
              ELSE IF client[c].route = "preflight" THEN {<<"head">>} ELSE {})

WholeAnswers ==
    \A c \in Conn :
        (/\ client[c].at = "closed" /\ winsock > 0
         /\ ~(client[c].header /\ client[c].route = "plain")) =>
            \E frame \in Whole(c) : Frames(frame, client[c].sent)

(* "Poll for completion (max 10 min)" (server.cpp:594): whatever the order  *)
(* in which downloads of one name end, are reported by their callbacks and  *)
(* shown by get_progress, begin again for another client and outlast the    *)
(* time of the one that polls, a client is told success only when a         *)
(* download of its model has completed, an error only when one has failed   *)
(* or its own never began, and a failure by the callback only of its own.   *)
Hears(c, message) == \E i \in DOMAIN client[c].sent : client[c].sent[i] = message

Over(model, how) ==
    \E d \in Conn : /\ client[d].model = model
                    /\ download[d].outcome = how
                    /\ download[d].shown \/ download[d].reported

PullTellsTheTruth ==
    \A c \in Conn :
        LET says == client[c].verdict
        IN  /\ says = "success" \/ Hears(c, "success") => Over(client[c].model, "completed")
            /\ says = "error" =>
                  download[c].outcome = "none" \/ Over(client[c].model, "failed")
            /\ Hears(c, "failure") => download[c].outcome = "failed"
            /\ says = "downloading" => download[c].outcome # "none"

(* The callback streams to a copy of the SOCKET value (server.cpp:299-302,  *)
(* 576-589) that it keeps after the connection is closed: what it says of a *)
(* download does reach other clients, but only on the value of a pull that  *)
(* has been closed, never while the pull it belongs to is still served.     *)
StraysFollowAClose ==
    \A c \in Conn : Hears(c, "stray") =>
        \E d \in Conn \ {c} : /\ client[d].at = "closed"
                              /\ client[d].socket = client[c].socket
                              /\ download[d].outcome # "none"

(* "Stop the server" (server.h:37): a signal ends the program, be it that   *)
(* an exception does: main leaves, however it, the handler and the loop     *)
(* interleave.                                                              *)
SignalEndsProgram == ~g_running ~> ~alive \/ terminated

(* A connection whose request has come is closed (server.cpp:196-339): also *)
(* a pull whose download never ends, and whatever other clients do.  As a   *)
(* connection is made once, each is closed just if again and again none is  *)
(* left.  Of a client that sends nothing the code promises nothing.         *)
ReceivedIsClosed ==
    []<>(\/ \A c \in Conn : client[c].at \notin Open \ {"recv"}
         \/ ~alive \/ terminated)

=============================================================================
