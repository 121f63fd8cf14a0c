-------------------------- MODULE HTTPServerProofs --------------------------
(***************************************************************************)
(* Proofs about HTTPServer, for any connections, chunks and polls.         *)
(***************************************************************************)
EXTENDS HTTPServer, SequenceTheorems, TLAPS

-----------------------------------------------------------------------------
(* Start and stop. *)

(* What main has started it joins before it leaves, and whoever joins finds *)
(* the loop ended; a loop that has not made its socket, or has ended, leaves *)
(* none behind.                                                             *)
StopInv ==
    /\ start \in {"constructed", "published", "running", "created", "started"}
    /\ DOMAIN stopper = Stoppers
    /\ start = "started" <=> server_thread_ # "none"
    /\ start \notin {"created", "started"} => loop = "none"
    /\ server_thread_ \in {"none", "joinable", "joined"}
    /\ server_thread_ = "joined" => loop = "ended"
    /\ stopper["main"] # "idle" => start = "started"
    /\ \A s \in Stoppers : stopper[s] = "joining" => server_thread_ # "none"
    /\ stopper["main"] \in {"cleanup", "stopped"} => server_thread_ = "joined"
    /\ ~alive => stopper["main"] = "stopped"
    /\ loop \in {"none", "startup", "ended"} => server_socket_ = "invalid"

LEMMA StopInit == Init => StopInv
  BY DEF Init, StopInv, Stoppers

LEMMA StopNext == StopInv /\ [Next]_vars => StopInv'
  <1> SUFFICES ASSUME StopInv, [Next]_vars PROVE StopInv'
    OBVIOUS
  <1> USE DEF StopInv, Stoppers
  <1>1. CASE LoopStep
    <2> USE DEF mainVars, processVars, clientVars
    <2>1. CASE LoopStartup
      BY <2>1 DEF LoopStartup
    <2>2. CASE LoopBind
      BY <2>2 DEF LoopBind
    <2>3. CASE LoopHead
      BY <2>3 DEF LoopHead
    <2>4. CASE LoopClose
      BY <2>4 DEF LoopClose
    <2>5. CASE SelectNothing
      BY <2>5 DEF SelectNothing
    <2>6. CASE \E c \in Conn : Accept(c)
      BY <2>6 DEF Accept
    <2> QED BY <1>1, <2>1, <2>2, <2>3, <2>4, <2>5, <2>6 DEF LoopStep
  <1>2. CASE MainStarts
    <2> USE DEF serverVars, clientVars
    <2>1. CASE Publish
      BY <2>1 DEF Publish
    <2>2. CASE StartFlag
      BY <2>2 DEF StartFlag
    <2>3. CASE StartThread
      BY <2>3 DEF StartThread
    <2>4. CASE AssignThread
      BY <2>4 DEF AssignThread
    <2> QED BY <1>2, <2>1, <2>2, <2>3, <2>4 DEF MainStarts
  <1>3. CASE UNCHANGED <<serverVars, server_thread_, stopper, start, alive>>
    BY <1>3 DEF serverVars
  <1>4. ASSUME NEW c \in Conn, ClientStep(c) \/ DownloaderStep(c) PROVE StopInv'
    <2>1. UNCHANGED <<serverVars, server_thread_, stopper, start, alive>>
      BY <1>4 DEF ClientStep, Serves, Throws, DownloaderStep, Receive, StreamChunk, Routed,
                  PullStep, PullPrepares, PullStarts, PollCompleted, PollFailed, PollSleeps,
                  PollWakes, Answer, CloseClient, Send, DownloadProgress,
                  DownloadReports, DownloadShows, mainVars, processVars
    <2> QED BY <1>3, <2>1
  <1>5. ASSUME NEW c \in Conn, NEW request \in Requests, Connect(c, request)
        PROVE  StopInv'
    BY <1>3, <1>5 DEF Connect, mainVars, processVars
  <1>6. CASE Signal \/ SignalTests \/ SignalEnters
    BY <1>6 DEF Signal, SignalTests, SignalEnters, serverVars, processVars
  <1>7. CASE MainStops
    BY <1>7 DEF MainStops, serverVars, processVars
  <1>8. CASE MainLeaves
    BY <1>8 DEF MainLeaves, serverVars
  <1>9. ASSUME NEW s \in Stoppers, StopStep(s) PROVE StopInv'
    <2> USE DEF serverVars, processVars
    <2>1. CASE StopFlag(s)
      BY <2>1 DEF StopFlag
    <2>2. CASE StopClose(s)
      BY <2>2 DEF StopClose
    <2>3. CASE StopTest(s)
      BY <2>3 DEF StopTest
    <2>4. CASE StopJoin(s)
      BY <2>4 DEF StopJoin
    <2>5. CASE JoinThrows(s)
      BY <2>5 DEF JoinThrows
    <2>6. CASE StopCleanup(s)
      BY <2>6 DEF StopCleanup
    <2> QED BY <1>9, <2>1, <2>2, <2>3, <2>4, <2>5, <2>6 DEF StopStep
  <1>10. CASE UNCHANGED vars
    BY <1>3, <1>10 DEF vars, mainVars, processVars
  <1> QED BY <1>1, <1>2, <1>4, <1>5, <1>6, <1>7, <1>8, <1>9, <1>10 DEF Next

(* However early the signal comes, and however main, the handler and the    *)
(* loop interleave in stop (server.cpp:108-125): main destroys the server   *)
(* only when the loop has ended and its socket is closed.                   *)
THEOREM ServerStoppedIsQuiet == Spec => []StoppedIsQuiet
  <1>1. StopInv => StoppedIsQuiet
    BY DEF StopInv, StoppedIsQuiet
  <1> QED BY <1>1, StopInit, StopNext, PTL DEF Spec

-----------------------------------------------------------------------------
(* The pull route. *)

\* Messages that say nothing of a download, and all of them.
Quiet == {"head", "stream head", "body", "[DONE]", "chunk", "preparing"}
Messages == Quiet \cup {"success", "failure", "stray"}

\* Where a pull has no download yet, and all places.
Before == {"out", "waiting", "recv", "routing", "download"}
Polls == {"polling", "sleeping"}
Places == Before \cup Polls \cup {"answer", "closing", "closed"}

Clients ==
    [at : Places, route : Routes, header : BOOLEAN,
     model : Model \cup {"none"}, socket : Socket \cup {"none"},
     streaming : BOOLEAN, sent : Seq(Messages),
     verdict : {"none", "success", "error", "downloading"}, polls : Nat]

Downloads ==
    [outcome : {"none", "completed", "failed"}, shown : BOOLEAN, reported : BOOLEAN,
     chunks : Nat]

Says(r, m) == \E i \in DOMAIN r.sent : r.sent[i] = m

(* What a connection has been told of its own download and of its model's:  *)
(* before its download begins nothing, then what has happened.              *)
TrueOf(r, d) ==
    /\ r.at \in {"out", "waiting"} => r.sent = << >>
    /\ r.at \in Before => d.outcome = "none" /\ r.verdict = "none"
    /\ r.at \in Polls => d.outcome # "none" /\ r.verdict = "none"
    /\ r.verdict = "success" \/ Says(r, "success") => Over(r.model, "completed")
    /\ r.verdict = "error" => d.outcome = "none" \/ Over(r.model, "failed")
    /\ Says(r, "failure") => d.outcome = "failed"
    /\ r.verdict = "downloading" => d.outcome # "none"

(* get_progress has an entry for who polls, and what it shows is a download *)
(* of that model that somebody has begun.                                   *)
EntriesInv ==
    /\ \A c \in Conn : client[c].at \in Polls => client[c].model \in DOMAIN entry
    /\ \A m \in DOMAIN entry : /\ entry[m] \in Conn
                               /\ client[entry[m]].model = m
                               /\ download[entry[m]].outcome # "none"

ClientsInv ==
    /\ client \in [Conn -> Clients]
    /\ download \in [Conn -> Downloads]
    /\ EntriesInv
    /\ \A c \in Conn : TrueOf(client[c], download[c])

LEMMA ClientsInit == Init => ClientsInv
  <1> SUFFICES ASSUME Init PROVE ClientsInv
    OBVIOUS
  <1>0. << >> \in Seq(Messages) /\ DOMAIN << >> = {}
    OBVIOUS
  <1>1. NotConnected \in Clients
    BY <1>0 DEF NotConnected, Clients, Places, Before, Routes
  <1>2. NoDownload \in Downloads
    BY DEF NoDownload, Downloads
  <1>3. client \in [Conn -> Clients] /\ download \in [Conn -> Downloads]
    BY <1>1, <1>2 DEF Init
  <1>4. ASSUME NEW c \in Conn PROVE TrueOf(client[c], download[c])
    <2>1. client[c] = NotConnected /\ download[c] = NoDownload
      BY DEF Init
    <2>2. \A m : ~Says(client[c], m)
      BY <2>1 DEF Says, NotConnected
    <2> QED BY <2>1, <2>2 DEF TrueOf, NotConnected, NoDownload, Polls
  <1>5. EntriesInv
    BY <1>0 DEF EntriesInv, Init, NotConnected, Polls
  <1> QED BY <1>3, <1>4, <1>5 DEF ClientsInv

\* What was sent stays, and what is new is one of the messages or lost.
LEMMA SendingSays ==
    ASSUME ClientsInv, NEW c \in Conn, NEW messages \in Seq(Messages)
    PROVE  /\ Sending(c, messages) \in Seq(Messages)
           /\ \A i \in DOMAIN Sending(c, messages) :
                 \/ \E j \in DOMAIN client[c].sent : client[c].sent[j] = Sending(c, messages)[i]
                 \/ \E j \in DOMAIN messages : messages[j] = Sending(c, messages)[i]
  <1>1. client[c].sent \in Seq(Messages)
    BY DEF ClientsInv, Clients
  <1>2. CASE winsock = 0
    BY <1>1, <1>2 DEF Sending
  <1>3. CASE winsock # 0
    <2> DEFINE old == client[c].sent
               new == old \o messages
    <2>1. old \in Seq(Messages) /\ new \in Seq(Messages)
      BY <1>1
    <2>2. /\ Len(new) = Len(old) + Len(messages)
          /\ \A i \in 1..Len(new) :
                new[i] = IF i <= Len(old) THEN old[i] ELSE messages[i - Len(old)]
      BY <2>1
    <2>3. /\ DOMAIN new = 1..Len(new) /\ DOMAIN old = 1..Len(old)
          /\ DOMAIN messages = 1..Len(messages) /\ Len(old) \in Nat /\ Len(messages) \in Nat
      BY <2>1
    <2>4. ASSUME NEW i \in DOMAIN new
          PROVE  \/ \E j \in DOMAIN old : old[j] = new[i]
                 \/ \E j \in DOMAIN messages : messages[j] = new[i]
      BY <2>2, <2>3
    <2> QED BY <1>3, <2>1, <2>4 DEF Sending
  <1> QED BY <1>2, <1>3

LEMMA SaysNew ==
    ASSUME ClientsInv, NEW c \in Conn, NEW messages \in Seq(Messages), NEW r,
           r.sent = Sending(c, messages), NEW m, Says(r, m)
    PROVE  Says(client[c], m) \/ \E j \in DOMAIN messages : messages[j] = m
  BY SendingSays DEF Says

(* What a model's download has come to stays so: a download that has begun  *)
(* keeps its model and its outcome, and is not taken back.                  *)
Keeps(r, d, s, e) ==
    d.outcome # "none" =>
        /\ s.model = r.model /\ e.outcome = d.outcome
        /\ d.shown => e.shown
        /\ d.reported => e.reported

LEMMA OverStays ==
    ASSUME \A c \in Conn : Keeps(client[c], download[c], client'[c], download'[c]),
           NEW model, NEW how, how # "none", Over(model, how)
    PROVE  Over(model, how)'
  <1>1. PICK c \in Conn : /\ client[c].model = model
                          /\ download[c].outcome = how
                          /\ download[c].shown \/ download[c].reported
    BY DEF Over
  <1>2. /\ client'[c].model = model
        /\ download'[c].outcome = how
        /\ download'[c].shown \/ download'[c].reported
    BY <1>1 DEF Keeps
  <1> QED BY <1>2 DEF Over

\* A step of one connection leaves the others as they are.
LEMMA OneClient ==
    ASSUME ClientsInv, NEW c \in Conn, NEW r \in Clients, NEW d \in Downloads,
           client' = [client EXCEPT ![c] = r], download' = [download EXCEPT ![c] = d],
           Keeps(client[c], download[c], r, d), TrueOf(r, d),
           \/ entry' = entry /\ (r.at \in Polls => r.model \in DOMAIN entry)
           \/ /\ d.outcome # "none"
              /\ entry' = [m \in DOMAIN entry \cup {r.model} |->
                              IF m = r.model THEN c ELSE entry[m]]
    PROVE  ClientsInv'
  <1>1. client' \in [Conn -> Clients] /\ download' \in [Conn -> Downloads]
    BY DEF ClientsInv
  <1>2. /\ client'[c] = r /\ download'[c] = d
        /\ \A e \in Conn : e # c => client'[e] = client[e] /\ download'[e] = download[e]
    BY DEF ClientsInv
  <1>3. \A e \in Conn : Keeps(client[e], download[e], client'[e], download'[e])
    BY <1>2 DEF Keeps
  <1>4. \A model : /\ Over(model, "completed") => Over(model, "completed")'
                   /\ Over(model, "failed") => Over(model, "failed")'
    BY <1>3, OverStays
  <1>5. ASSUME NEW e \in Conn PROVE TrueOf(client[e], download[e])'
    <2> DEFINE s == client'[e]
               f == download'[e]
    <2>1. TrueOf(s, f)
      BY <1>2 DEF ClientsInv
    <2> QED BY <1>4, <2>1 DEF TrueOf, Says
  <1>6. DOMAIN entry \subseteq DOMAIN entry' /\ (r.at \in Polls => r.model \in DOMAIN entry')
    OBVIOUS
  <1>7. \A e \in Conn : client'[e].at \in Polls => client'[e].model \in DOMAIN entry'
    BY <1>2, <1>6 DEF ClientsInv, EntriesInv
  <1>8. ASSUME NEW m \in DOMAIN entry'
        PROVE  /\ entry'[m] \in Conn /\ client'[entry'[m]].model = m
               /\ download'[entry'[m]].outcome # "none"
    <2>1. CASE m \in DOMAIN entry /\ entry'[m] = entry[m]
      BY <1>3, <2>1 DEF ClientsInv, EntriesInv, Keeps
    <2>2. CASE m = r.model /\ entry'[m] = c /\ d.outcome # "none"
      BY <1>2, <2>2
    <2> QED BY <2>1, <2>2
  <1>9. EntriesInv'
    BY <1>7, <1>8 DEF EntriesInv
  <1> QED BY <1>1, <1>5, <1>9 DEF ClientsInv

\* A step that says nothing of a download, and does not go where one is needed.
LEMMA Unrelated ==
    ASSUME ClientsInv, NEW c \in Conn, NEW r \in Clients,
           client' = [client EXCEPT ![c] = r], UNCHANGED downloadVars,
           r.model = client[c].model, r.verdict = client[c].verdict,
           r.at \notin Polls \cup {"out", "waiting"},
           r.at \in Before => client[c].at \in Before,
           NEW messages \in Seq(Quiet), r.sent = Sending(c, messages)
    PROVE  ClientsInv'
  <1>0. /\ messages \in Seq(Messages)
        /\ \A i \in DOMAIN messages : messages[i] \notin {"success", "failure"}
    <2>1. \A i \in DOMAIN messages : messages[i] \in Quiet
      OBVIOUS
    <2>2. Quiet \subseteq Messages /\ "success" \notin Quiet /\ "failure" \notin Quiet
      BY DEF Messages, Quiet
    <2>3. messages \in Seq(Messages)
      BY <2>2
    <2> QED BY <2>1, <2>2, <2>3
  <1>1. /\ download' = [download EXCEPT ![c] = download[c]] /\ download[c] \in Downloads
        /\ entry' = entry /\ TrueOf(client[c], download[c])
    BY DEF ClientsInv, downloadVars
  <1>2. (Says(r, "success") => Says(client[c], "success"))
        /\ (Says(r, "failure") => Says(client[c], "failure"))
    BY <1>0, SaysNew
  <1>3. TrueOf(r, download[c])
    BY <1>1, <1>2 DEF TrueOf
  <1>4. Keeps(client[c], download[c], r, download[c])
    BY DEF Keeps
  <1> QED BY <1>1, <1>3, <1>4, OneClient

LEMMA SendStep ==
    ASSUME ClientsInv, NEW c \in Conn, NEW messages \in Seq(Quiet), NEW place \in Places,
           Send(c, messages, place),
           place \notin Polls \cup {"out", "waiting"},
           place \in Before => client[c].at \in Before
    PROVE  ClientsInv'
  <1> DEFINE r == [client[c] EXCEPT !.at = place, !.sent = Sending(c, messages)]
  <1>1. client[c] \in Clients /\ Sending(c, messages) \in Seq(Messages)
    BY SendingSays DEF ClientsInv, Messages
  <1>2. /\ r \in Clients /\ r.verdict = client[c].verdict /\ r.model = client[c].model
        /\ r.at = place /\ r.sent = Sending(c, messages)
    BY <1>1 DEF Clients
  <1>3. client' = [client EXCEPT ![c] = r] /\ UNCHANGED downloadVars
    BY DEF Send
  <1> HIDE DEF r
  <1> QED BY <1>2, <1>3, Unrelated

LEMMA ServerStep ==
    ASSUME ClientsInv, NEW c \in Conn,
           \/ Receive(c) \/ StreamChunk(c) \/ Answer(c) \/ CloseClient(c)
    PROVE  ClientsInv'
  <1>1. /\ << >> \in Seq(Quiet) /\ <<"head">> \in Seq(Quiet)
        /\ <<"head", "body">> \in Seq(Quiet) /\ <<"stream head">> \in Seq(Quiet)
        /\ <<"body", "[DONE]">> \in Seq(Quiet) /\ <<"body">> \in Seq(Quiet)
        /\ <<"chunk">> \in Seq(Quiet)
    BY DEF Quiet
  <1>2. CASE StreamChunk(c)
    <2>1. Send(c, <<"chunk">>, "routing") /\ client[c].at \in Before
      BY <1>2 DEF StreamChunk, Before
    <2>2. ASSUME NEW messages \in Seq(Quiet), Send(c, messages, "routing") PROVE ClientsInv'
      BY <2>1, <2>2, SendStep DEF Places, Before, Polls
    <2> QED BY <1>1, <2>1, <2>2
  <1>3. ASSUME NEW messages \in Seq(Quiet), Send(c, messages, "closing") PROVE ClientsInv'
    BY <1>3, SendStep DEF Places, Before, Polls
  <1>4. ASSUME NEW messages \in Seq(Quiet), Send(c, messages, "closed") PROVE ClientsInv'
    BY <1>4, SendStep DEF Places, Before, Polls
  <1>5. CASE Answer(c)
    <2>1. \/ Send(c, <<"body", "[DONE]">>, "closing") \/ Send(c, <<"head", "body">>, "closing")
      BY <1>5 DEF Answer
    <2> QED BY <1>1, <1>3, <2>1
  <1>6. CASE CloseClient(c)
    <2>1. Send(c, << >>, "closed")
      BY <1>6 DEF CloseClient
    <2> QED BY <1>1, <1>4, <2>1
  <1>7. CASE Receive(c)
    <2>1. /\ client[c].at \in Before
          /\ \/ Send(c, << >>, "closing") \/ Send(c, <<"head">>, "closing")
             \/ Send(c, <<"head", "body">>, "closing")
             \/ Send(c, <<"stream head">>, "routing") \/ Send(c, << >>, "routing")
      BY <1>7 DEF Receive, Before
    <2>2. ASSUME NEW messages \in Seq(Quiet), Send(c, messages, "routing") PROVE ClientsInv'
      BY <2>1, <2>2, SendStep DEF Places, Before, Polls
    <2> QED BY <1>1, <1>3, <2>1, <2>2
  <1> QED BY <1>2, <1>5, <1>6, <1>7

\* Steps that send nothing and say nothing.
LEMMA PlaceStep ==
    ASSUME ClientsInv, NEW c \in Conn,
           \/ Accept(c) \/ Routed(c)
           \/ \E request \in Requests : Connect(c, request)
    PROVE  ClientsInv'
  <1>1. ASSUME NEW r \in Clients, client' = [client EXCEPT ![c] = r], UNCHANGED downloadVars,
               r.verdict = client[c].verdict, r.sent = client[c].sent,
               client[c].at \in Before, r.at \in Before \cup {"answer"},
               r.model = client[c].model \/ client[c].at = "out",
               r.at \in {"out", "waiting"} => client[c].at = "out"
        PROVE  ClientsInv'
    <2>1. /\ download[c] \in Downloads /\ entry' = entry
          /\ download' = [download EXCEPT ![c] = download[c]]
          /\ TrueOf(client[c], download[c]) /\ r.at \notin Polls
      BY <1>1 DEF ClientsInv, downloadVars, Polls, Before
    <2>2. /\ download[c].outcome = "none" /\ r.verdict = "none"
          /\ client[c].at = "out" => r.sent = << >>
      BY <1>1, <2>1 DEF TrueOf
    <2>3. Keeps(client[c], download[c], r, download[c])
      BY <2>2 DEF Keeps
    <2>4. CASE r.model = client[c].model
      <3>1. TrueOf(r, download[c])
        BY <1>1, <2>1, <2>2, <2>4 DEF TrueOf, Says
      <3> QED BY <1>1, <2>1, <2>3, <3>1, OneClient
    <2>5. CASE client[c].at = "out"
      <3>1. \A m : ~Says(r, m)
        BY <2>2, <2>5 DEF Says
      <3>2. TrueOf(r, download[c])
        BY <2>1, <2>2, <2>5, <3>1 DEF TrueOf
      <3> QED BY <1>1, <2>1, <2>3, <3>2, OneClient
    <2> QED BY <1>1, <2>4, <2>5
  <1>2. client[c] \in Clients /\ client \in [Conn -> Clients]
    BY DEF ClientsInv
  <1>3. CASE Accept(c)
    <2>1. PICK value \in Socket :
             client' = [client EXCEPT ![c] = [client[c] EXCEPT !.at = "recv",
                                                              !.socket = value]]
      BY <1>2, <1>3 DEF Accept
    <2> DEFINE r == [client[c] EXCEPT !.at = "recv", !.socket = value]
    <2>2. r \in Clients /\ client[c].at \in Before /\ r.at \in Before \cup {"answer"}
          /\ r.at \notin {"out", "waiting"}
      BY <1>2, <1>3 DEF Accept, Clients, Places, Before
    <2>3. r.verdict = client[c].verdict /\ r.model = client[c].model /\ r.sent = client[c].sent
      BY <1>2 DEF Clients
    <2>4. client' = [client EXCEPT ![c] = r] /\ UNCHANGED downloadVars
      BY <2>1, <1>3 DEF Accept
    <2> HIDE DEF r
    <2> QED BY <1>1, <2>2, <2>3, <2>4
  <1>4. CASE Routed(c)
    <2>1. PICK streaming \in BOOLEAN :
             client' = [client EXCEPT ![c] = [client[c] EXCEPT !.at = "answer",
                                                              !.streaming = streaming]]
      BY <1>2, <1>4 DEF Routed, Clients
    <2> DEFINE r == [client[c] EXCEPT !.at = "answer", !.streaming = streaming]
    <2>2. r \in Clients /\ client[c].at \in Before /\ r.at \in Before \cup {"answer"}
          /\ r.at \notin {"out", "waiting"}
      BY <1>2, <1>4 DEF Routed, Clients, Places, Before
    <2>3. r.verdict = client[c].verdict /\ r.model = client[c].model /\ r.sent = client[c].sent
      BY <1>2 DEF Clients
    <2>4. UNCHANGED downloadVars
      BY <1>4 DEF Routed
    <2> HIDE DEF r
    <2> QED BY <1>1, <2>1, <2>2, <2>3, <2>4 DEF r
  <1>5. ASSUME NEW request \in Requests, Connect(c, request)
        PROVE  ClientsInv'
    <2> DEFINE r == [client[c] EXCEPT !.at = "waiting", !.route = request.route,
                                      !.header = request.header, !.model = request.model]
    <2>0. request \in [route : Routes, header : BOOLEAN, model : Model]
      BY ServerAssumption
    <2>1. r \in Clients /\ client[c].at \in Before /\ r.at \in Before \cup {"answer"}
          /\ client[c].at = "out"
      BY <1>2, <1>5, <2>0 DEF Connect, Clients, Places, Before
    <2>2. r.verdict = client[c].verdict /\ r.sent = client[c].sent
      BY <1>2 DEF Clients
    <2>3. client' = [client EXCEPT ![c] = r] /\ UNCHANGED downloadVars
      BY <1>2, <1>5 DEF Connect
    <2> HIDE DEF r
    <2> QED BY <1>1, <1>5, <2>1, <2>2, <2>3
  <1> QED BY <1>3, <1>4, <1>5

\* A response that is true of the model's downloads.
LEMMA RespondStep ==
    ASSUME ClientsInv, NEW c \in Conn, NEW messages \in Seq(Messages),
           NEW verdict \in {"success", "error", "downloading"},
           Respond(c, messages, verdict), UNCHANGED downloadVars,
           \A i \in DOMAIN messages :
               messages[i] = "success" /\ Over(client[c].model, "completed"),
           verdict = "success" => Over(client[c].model, "completed"),
           verdict = "error" =>
               download[c].outcome = "none" \/ Over(client[c].model, "failed"),
           verdict = "downloading" => download[c].outcome # "none"
    PROVE  ClientsInv'
  <1> DEFINE r == [client[c] EXCEPT !.at = "answer", !.streaming = TRUE,
                                    !.sent = Sending(c, messages), !.verdict = verdict]
  <1>1. client[c] \in Clients /\ client \in [Conn -> Clients]
        /\ Sending(c, messages) \in Seq(Messages)
    BY SendingSays DEF ClientsInv
  <1>2. r \in Clients
    BY <1>1 DEF Clients, Places
  <1>3. r.at = "answer" /\ r.verdict = verdict /\ r.model = client[c].model
        /\ r.sent = Sending(c, messages)
    BY <1>1 DEF Clients
  <1>4. client' = [client EXCEPT ![c] = r]
    BY <1>1 DEF Respond
  <1> HIDE DEF r
  <1>5. /\ download[c] \in Downloads /\ TrueOf(client[c], download[c])
        /\ download' = [download EXCEPT ![c] = download[c]] /\ entry' = entry
    BY <1>1 DEF ClientsInv, downloadVars
  <1>6. /\ Says(r, "success") => Says(client[c], "success") \/ Over(client[c].model, "completed")
        /\ Says(r, "failure") => Says(client[c], "failure")
    BY <1>3, SaysNew
  <1>7. TrueOf(r, download[c])
    BY <1>3, <1>5, <1>6 DEF TrueOf, Before, Polls
  <1>8. Keeps(client[c], download[c], r, download[c]) /\ r.at \notin Polls
    BY <1>3 DEF Keeps, Polls
  <1> QED BY <1>2, <1>4, <1>5, <1>7, <1>8, OneClient

\* What get_progress shows a connection that polls is over.
LEMMA ProgressOver ==
    ASSUME ClientsInv, NEW c \in Conn, client[c].at \in Polls, Progress(c).shown
    PROVE  Over(client[c].model, Progress(c).outcome)
  <1>1. client[c].model \in DOMAIN entry
    BY DEF ClientsInv, EntriesInv
  <1>2. /\ entry[client[c].model] \in Conn
        /\ client[entry[client[c].model]].model = client[c].model
    BY <1>1 DEF ClientsInv, EntriesInv
  <1> QED BY <1>2 DEF Over, Progress

LEMMA PullNext ==
    ASSUME ClientsInv, NEW c \in Conn, PullStep(c)
    PROVE  ClientsInv'
  <1>1. /\ << >> \in Seq(Messages) /\ <<"success">> \in Seq(Messages)
        /\ <<"preparing">> \in Seq(Quiet) /\ <<"preparing">> \in Seq(Messages)
    BY DEF Quiet, Messages
  <1>0. \A i \in DOMAIN << >> : FALSE
    OBVIOUS
  <1>2. /\ client[c] \in Clients /\ client \in [Conn -> Clients]
        /\ download[c] \in Downloads /\ download \in [Conn -> Downloads]
        /\ TrueOf(client[c], download[c])
    BY DEF ClientsInv
  <1>3. ASSUME Respond(c, << >>, "error"), UNCHANGED downloadVars,
               download[c].outcome = "none" \/ Over(client[c].model, "failed")
        PROVE  ClientsInv'
    BY <1>0, <1>1, <1>3, RespondStep
  <1>4. CASE PullPrepares(c)
    <2>1. client[c].at \in Before /\ UNCHANGED downloadVars /\ download[c].outcome = "none"
      BY <1>2, <1>4 DEF PullPrepares, Before, TrueOf
    <2>2. CASE Respond(c, << >>, "error")
      BY <1>3, <2>1, <2>2
    <2>3. CASE client' = [client EXCEPT ![c].at = "download",
                                        ![c].sent = Sending(c, <<"preparing">>)]
      <3> DEFINE r == [client[c] EXCEPT !.at = "download", !.sent = Sending(c, <<"preparing">>)]
      <3>1. Sending(c, <<"preparing">>) \in Seq(Messages)
        BY <1>1, SendingSays
      <3>2. /\ r \in Clients /\ r.verdict = client[c].verdict /\ r.model = client[c].model
            /\ r.at = "download" /\ r.sent = Sending(c, <<"preparing">>)
        BY <1>2, <3>1 DEF Clients, Places, Before
      <3>3. client' = [client EXCEPT ![c] = r]
        BY <1>2, <2>3
      <3>4. "download" \notin Polls \cup {"out", "waiting"}
        BY DEF Polls
      <3> HIDE DEF r
      <3> QED BY <1>1, <2>1, <3>2, <3>3, <3>4, Unrelated
    <2> QED BY <1>4, <2>2, <2>3 DEF PullPrepares
  <1>5. CASE PullStarts(c)
    <2>1. client[c].at = "download" /\ download[c].outcome = "none"
      BY <1>2, <1>5 DEF PullStarts, TrueOf, Before
    <2>2. CASE Respond(c, << >>, "error") /\ UNCHANGED downloadVars
      BY <1>3, <2>1, <2>2
    <2>3. ASSUME client' = [client EXCEPT ![c].at = "polling"],
                 NEW outcome \in {"completed", "failed"},
                 download' = [download EXCEPT ![c].outcome = outcome],
                 entry' = [m \in DOMAIN entry \cup {client[c].model} |->
                              IF m = client[c].model THEN c ELSE entry[m]]
          PROVE  ClientsInv'
      <3> DEFINE r == [client[c] EXCEPT !.at = "polling"]
                 d == [download[c] EXCEPT !.outcome = outcome]
      <3>1. /\ r \in Clients /\ d \in Downloads /\ d.outcome = outcome /\ r.at = "polling"
            /\ r.verdict = client[c].verdict /\ r.sent = client[c].sent
            /\ r.model = client[c].model
        BY <1>2, <2>3 DEF Clients, Downloads, Places, Polls
      <3>2. client' = [client EXCEPT ![c] = r] /\ download' = [download EXCEPT ![c] = d]
        BY <1>2, <2>3
      <3> HIDE DEF r, d
      <3>3. Keeps(client[c], download[c], r, d)
        BY <2>1 DEF Keeps
      <3>4. TrueOf(r, d)
        <4>1. \A m : Says(r, m) <=> Says(client[c], m)
          BY <3>1 DEF Says
        <4>2. ~Says(client[c], "failure") /\ client[c].verdict = "none"
          BY <1>2, <2>1 DEF TrueOf, Before
        <4>3. Says(client[c], "success") => Over(client[c].model, "completed")
          BY <1>2 DEF TrueOf
        <4>4. /\ r.at \notin {"out", "waiting"} /\ r.at \notin Before
              /\ d.outcome # "none" /\ r.verdict = "none"
          BY <2>3, <3>1, <4>2 DEF Before
        <4>5. Says(r, "success") => Over(r.model, "completed")
          BY <3>1, <4>1, <4>3
        <4>6. ~Says(r, "failure")
          BY <4>1, <4>2
        <4> QED BY <4>4, <4>5, <4>6 DEF TrueOf
      <3>5. /\ d.outcome # "none"
            /\ entry' = [m \in DOMAIN entry \cup {r.model} |->
                            IF m = r.model THEN c ELSE entry[m]]
        BY <2>3, <3>1
      <3> QED BY <3>1, <3>2, <3>3, <3>4, <3>5, OneClient
    <2> QED BY <1>5, <2>2, <2>3 DEF PullStarts
  <1>6. CASE PollCompleted(c)
    <2>1. /\ Respond(c, <<"success">>, "success") /\ UNCHANGED downloadVars
          /\ Over(client[c].model, "completed")
      BY <1>6, ProgressOver DEF PollCompleted, Polls
    <2>2. \A i \in DOMAIN <<"success">> : <<"success">>[i] = "success"
      OBVIOUS
    <2> QED BY <1>1, <2>1, <2>2, RespondStep
  <1>7. CASE PollFailed(c)
    <2>1. /\ Respond(c, << >>, "error") /\ UNCHANGED downloadVars
          /\ Over(client[c].model, "failed")
      BY <1>7, ProgressOver DEF PollFailed, Polls
    <2> QED BY <1>3, <2>1
  <1>8. CASE \/ PollSleeps(c)
             \/ client' = [client EXCEPT ![c].at = "polling"] /\ PollWakes(c)
    <2>1. PICK at \in Polls, polls \in Nat :
             /\ client' = [client EXCEPT ![c] = [client[c] EXCEPT !.at = at, !.polls = polls]]
             /\ UNCHANGED downloadVars
      <3>1. client[c].polls \in Nat /\ client[c].polls + 1 \in Nat
        BY <1>2 DEF Clients
      <3>2. CASE PollSleeps(c)
        <4>1. /\ client' = [client EXCEPT ![c] = [client[c] EXCEPT !.at = "sleeping",
                                                        !.polls = client[c].polls + 1]]
              /\ UNCHANGED downloadVars
          BY <1>2, <3>2 DEF PollSleeps
        <4> QED BY <3>1, <4>1 DEF Polls
      <3>3. CASE client' = [client EXCEPT ![c].at = "polling"] /\ PollWakes(c)
        <4>1. [client[c] EXCEPT !.at = "polling"] =
                 [client[c] EXCEPT !.at = "polling", !.polls = client[c].polls]
          BY <1>2 DEF Clients
        <4>2. /\ client' = [client EXCEPT ![c] = [client[c] EXCEPT !.at = "polling"]]
              /\ UNCHANGED downloadVars
          BY <1>2, <3>3 DEF PollWakes
        <4> QED BY <3>1, <4>1, <4>2 DEF Polls
      <3> QED BY <1>8, <3>2, <3>3
    <2>2. client[c].at \in Polls
      BY <1>8 DEF PollSleeps, PollWakes, Polls
    <2> DEFINE r == [client[c] EXCEPT !.at = at, !.polls = polls]
    <2>3. /\ r \in Clients /\ r.verdict = client[c].verdict /\ r.at = at
          /\ r.sent = client[c].sent /\ r.model = client[c].model
      BY <1>2 DEF Clients, Places
    <2>4. /\ client' = [client EXCEPT ![c] = r] /\ download' = [download EXCEPT ![c] = download[c]]
          /\ entry' = entry
      BY <1>2, <2>1 DEF downloadVars
    <2> HIDE DEF r
    <2>5. TrueOf(r, download[c]) /\ Keeps(client[c], download[c], r, download[c])
      BY <1>2, <2>1, <2>2, <2>3 DEF TrueOf, Says, Before, Polls, Keeps
    <2>6. r.model \in DOMAIN entry
      BY <2>2, <2>3 DEF ClientsInv, EntriesInv
    <2> QED BY <1>2, <2>3, <2>4, <2>5, <2>6, OneClient
  <1>9. CASE PollWakes(c)
    <2>1. /\ client[c].at \in Polls /\ UNCHANGED downloadVars /\ download[c].outcome # "none"
      BY <1>2, <1>9 DEF PollWakes, TrueOf, Polls
    <2>2. CASE Respond(c, << >>, "downloading")
      BY <1>0, <1>1, <2>1, <2>2, RespondStep
    <2>3. CASE client' = [client EXCEPT ![c].at = "polling"]
      BY <1>8, <1>9, <2>3
    <2> QED BY <1>9, <2>2, <2>3 DEF PollWakes
  <1> QED BY <1>4, <1>5, <1>6, <1>7, <1>8, <1>9 DEF PullStep

\* Who hears the callback, and what.
LEMMA CallBackReaches ==
    ASSUME ClientsInv, NEW c \in Conn, NEW message \in Messages, CallBack(c, message),
           NEW e \in Conn
    PROVE  /\ client'[e] \in Clients
           /\ \/ client'[e] = client[e]
              \/ /\ client[e].at \in Open /\ client[e].socket = client[c].socket
                 /\ client'[e] = [client[e] EXCEPT !.sent =
                       Sending(e, <<IF e = c THEN message ELSE "stray">>)]
           /\ \A field \in {"at", "route", "header", "model", "socket", "streaming",
                            "verdict", "polls"} : client'[e][field] = client[e][field]
           /\ \A m : Says(client'[e], m) =>
                 Says(client[e], m) \/ m = (IF e = c THEN message ELSE "stray")
  <1> DEFINE x == IF e = c THEN message ELSE "stray"
             r == [client[e] EXCEPT !.sent = Sending(e, <<x>>)]
  <1>1. client[e] \in Clients
    BY DEF ClientsInv
  <1>2. x \in Messages
    BY DEF Messages
  <1> HIDE DEF x
  <1>3. <<x>> \in Seq(Messages) /\ \A j \in DOMAIN <<x>> : <<x>>[j] = x
    BY <1>2
  <1>4a. Sending(e, <<x>>) \in Seq(Messages)
    BY <1>3, SendingSays
  <1>4. r \in Clients /\ r.sent = Sending(e, <<x>>)
        /\ r.at = client[e].at /\ r.route = client[e].route /\ r.header = client[e].header
        /\ r.model = client[e].model /\ r.socket = client[e].socket
        /\ r.streaming = client[e].streaming /\ r.verdict = client[e].verdict
        /\ r.polls = client[e].polls
    BY <1>1, <1>4a DEF Clients
  <1>5. ASSUME NEW m, Says(r, m) PROVE Says(client[e], m) \/ m = x
    <2>1. Says(client[e], m) \/ \E j \in DOMAIN <<x>> : <<x>>[j] = m
      <3> HIDE DEF r
      <3>1. r.sent = Sending(e, <<x>>)
        BY <1>4
      <3>2. PICK i \in DOMAIN r.sent : r.sent[i] = m
        BY <1>5 DEF Says
      <3>3. \/ \E j \in DOMAIN client[e].sent : client[e].sent[j] = Sending(e, <<x>>)[i]
            \/ \E j \in DOMAIN <<x>> : <<x>>[j] = Sending(e, <<x>>)[i]
        BY <1>3, <3>1, <3>2, SendingSays
      <3> QED BY <3>1, <3>2, <3>3 DEF Says
    <2> QED BY <1>3, <2>1
  <1>6. \/ client'[e] = client[e]
        \/ /\ client[e].at \in Open /\ client[e].socket = client[c].socket
           /\ client'[e] = r
    BY DEF CallBack, x
  <1> HIDE DEF r
  <1>7. \A field \in {"at", "route", "header", "model", "socket", "streaming",
                      "verdict", "polls"} : client'[e][field] = client[e][field]
    BY <1>4, <1>6
  <1>8. /\ client'[e] \in Clients
        /\ \A m : Says(client'[e], m) => Says(client[e], m) \/ m = x
    BY <1>1, <1>4, <1>5, <1>6
  <1> QED BY <1>6, <1>7, <1>8 DEF r, x

LEMMA DownloaderNext ==
    ASSUME ClientsInv, NEW c \in Conn, DownloaderStep(c)
    PROVE  ClientsInv'
  <1>1. /\ client[c] \in Clients /\ client \in [Conn -> Clients]
        /\ download[c] \in Downloads /\ download \in [Conn -> Downloads]
        /\ TrueOf(client[c], download[c])
    BY DEF ClientsInv
  <1>2. ASSUME NEW m \in {"chunk", "success", "failure"}, CallBack(c, m), NEW d \in Downloads,
               download' = [download EXCEPT ![c] = d], entry' = entry,
               d.outcome = download[c].outcome, d.shown = download[c].shown,
               download[c].reported => d.reported,
               m = "success" => d.outcome = "completed" /\ d.reported,
               m = "failure" => d.outcome = "failed"
        PROVE  ClientsInv'
    <2>0. m \in Messages
      BY DEF Messages, Quiet
    <2>1. client' = [e \in Conn |-> client'[e]]
      BY <1>2 DEF CallBack
    <2>2. \A e \in Conn :
             /\ client'[e] \in Clients
             /\ client'[e].at = client[e].at /\ client'[e].model = client[e].model
             /\ client'[e].verdict = client[e].verdict
             /\ client'[e] = client[e] \/ client[e].at \in Open
             /\ \A n : Says(client'[e], n) =>
                   Says(client[e], n) \/ n = (IF e = c THEN m ELSE "stray")
      BY <1>2, <2>0, CallBackReaches
    <2>3. client' \in [Conn -> Clients] /\ download' \in [Conn -> Downloads]
      BY <1>1, <1>2, <2>1, <2>2
    <2>4. download'[c] = d /\ \A e \in Conn : e # c => download'[e] = download[e]
      BY <1>1, <1>2
    <2>5. \A e \in Conn : Keeps(client[e], download[e], client'[e], download'[e])
      BY <1>2, <2>2, <2>4 DEF Keeps
    <2>6. \A model : /\ Over(model, "completed") => Over(model, "completed")'
                     /\ Over(model, "failed") => Over(model, "failed")'
      BY <2>5, OverStays
    <2>7. m = "success" => Over(client[c].model, "completed")'
      BY <1>2, <2>2, <2>4 DEF Over
    <2>8. ASSUME NEW e \in Conn PROVE TrueOf(client[e], download[e])'
      <3>1. TrueOf(client[e], download[e]) /\ download'[e].outcome = download[e].outcome
        BY <1>2, <2>4 DEF ClientsInv
      <3>2. /\ Says(client'[e], "success") =>
                  Says(client[e], "success") \/ Over(client[e].model, "completed")'
            /\ Says(client'[e], "failure") =>
                  Says(client[e], "failure") \/ download[e].outcome = "failed"
        BY <1>2, <2>2, <2>7
      <3>3. client[e].at \in {"out", "waiting"} => client'[e].sent = client[e].sent
        BY <2>2 DEF Open
      <3>4. \A model : Over(model, "completed") => Over(model, "completed")'
        BY <2>6
      <3>5. \A model : Over(model, "failed") => Over(model, "failed")'
        BY <2>6
      <3> DEFINE s == client'[e]
                 f == download'[e]
      <3>6. /\ s.at = client[e].at /\ s.model = client[e].model
            /\ s.verdict = client[e].verdict /\ f.outcome = download[e].outcome
        BY <2>2, <3>1
      <3>7. /\ s.at \in {"out", "waiting"} => s.sent = << >>
            /\ s.at \in Before => f.outcome = "none" /\ s.verdict = "none"
            /\ s.at \in Polls => f.outcome # "none" /\ s.verdict = "none"
            /\ s.verdict = "downloading" => f.outcome # "none"
            /\ Says(s, "failure") => f.outcome = "failed"
        BY <3>1, <3>2, <3>3, <3>6 DEF TrueOf
      <3>8. s.verdict = "success" \/ Says(s, "success") => Over(client[e].model, "completed")'
        BY <3>1, <3>2, <3>4, <3>6 DEF TrueOf
      <3>9. s.verdict = "error" =>
               f.outcome = "none" \/ Over(client[e].model, "failed")'
        BY <3>1, <3>5, <3>6 DEF TrueOf
      <3> QED BY <3>6, <3>7, <3>8, <3>9 DEF TrueOf, Says, Over
    <2>9. EntriesInv'
      BY <1>2, <2>2, <2>4 DEF ClientsInv, EntriesInv
    <2> QED BY <2>3, <2>8, <2>9 DEF ClientsInv
  <1>3. CASE DownloadProgress(c)
    <2> DEFINE d == [download[c] EXCEPT !.chunks = @ + 1]
    <2>1. CallBack(c, "chunk") /\ download' = [download EXCEPT ![c] = d] /\ entry' = entry
      BY <1>1, <1>3 DEF DownloadProgress
    <2>2. download[c].chunks + 1 \in Nat
      BY <1>1 DEF Downloads
    <2>3. /\ d \in Downloads /\ d.outcome = download[c].outcome
          /\ d.shown = download[c].shown /\ d.reported = download[c].reported
      BY <1>1, <2>2 DEF Downloads
    <2> HIDE DEF d
    <2> QED BY <1>2, <2>1, <2>3
  <1>4. CASE DownloadReports(c)
    <2> DEFINE m == IF download[c].outcome = "completed" THEN "success" ELSE "failure"
               d == [download[c] EXCEPT !.reported = TRUE]
    <2>1. CallBack(c, m) /\ download' = [download EXCEPT ![c] = d] /\ entry' = entry
      BY <1>1, <1>4 DEF DownloadReports
    <2>2. /\ d \in Downloads /\ d.outcome = download[c].outcome
          /\ d.shown = download[c].shown /\ d.reported
      BY <1>1 DEF Downloads
    <2>3. /\ m \in {"chunk", "success", "failure"}
          /\ (m = "success" => download[c].outcome = "completed")
          /\ (m = "failure" => download[c].outcome = "failed")
      BY <1>1, <1>4 DEF DownloadReports, Downloads
    <2> HIDE DEF m, d
    <2> QED BY <1>2, <2>1, <2>2, <2>3
  <1>5. CASE DownloadShows(c)
    <2> DEFINE d == [download[c] EXCEPT !.shown = TRUE]
    <2>1. /\ download' = [download EXCEPT ![c] = d] /\ client' = client /\ entry' = entry
          /\ client' = [client EXCEPT ![c] = client[c]]
      BY <1>1, <1>5 DEF DownloadShows
    <2>2. d \in Downloads /\ d.outcome = download[c].outcome
          /\ d.shown /\ d.reported = download[c].reported
      BY <1>1 DEF Downloads
    <2> HIDE DEF d
    <2>3. TrueOf(client[c], d) /\ Keeps(client[c], download[c], client[c], d)
      BY <1>1, <2>2 DEF TrueOf, Keeps
    <2>4. client[c].at \in Polls => client[c].model \in DOMAIN entry
      BY DEF ClientsInv, EntriesInv
    <2> QED BY <1>1, <2>1, <2>2, <2>3, <2>4, OneClient
  <1> QED BY <1>3, <1>4, <1>5 DEF DownloaderStep

LEMMA ClientsNext == ClientsInv /\ [Next]_vars => ClientsInv'
  <1> SUFFICES ASSUME ClientsInv, [Next]_vars PROVE ClientsInv'
    OBVIOUS
  <1>1. CASE UNCHANGED clientVars
    BY <1>1 DEF clientVars, downloadVars, ClientsInv, EntriesInv, TrueOf, Says, Over
  <1>2. CASE LoopStep
    <2>1. ASSUME NEW c \in Conn, Accept(c) PROVE ClientsInv'
      BY <2>1, PlaceStep
    <2>2. CASE LoopStartup \/ LoopBind \/ LoopHead \/ LoopClose \/ SelectNothing
      BY <1>1, <2>2 DEF LoopStartup, LoopBind, LoopHead, LoopClose, SelectNothing
    <2> QED BY <1>2, <2>1, <2>2 DEF LoopStep
  <1>3. CASE MainStarts \/ Signal \/ SignalTests \/ SignalEnters \/ MainStops \/ MainLeaves
    BY <1>1, <1>3 DEF MainStarts, Publish, StartFlag, StartThread, AssignThread,
                      Signal, SignalTests, SignalEnters, MainStops, MainLeaves
  <1>4. ASSUME NEW s \in Stoppers, StopStep(s) PROVE ClientsInv'
    BY <1>1, <1>4 DEF StopStep, StopFlag, StopClose, StopTest, StopJoin, JoinThrows,
                      StopCleanup
  <1>5. ASSUME NEW c \in Conn, ClientStep(c) PROVE ClientsInv'
    <2>1. CASE Throws(c)
      BY <1>1, <2>1 DEF Throws
    <2> QED BY <1>5, <2>1, ServerStep, PlaceStep, PullNext DEF ClientStep, Serves
  <1>6. ASSUME NEW c \in Conn, DownloaderStep(c) PROVE ClientsInv'
    BY <1>6, DownloaderNext
  <1>7. ASSUME NEW c \in Conn, NEW request \in Requests, Connect(c, request)
        PROVE  ClientsInv'
    BY <1>7, PlaceStep
  <1>8. CASE UNCHANGED vars
    BY <1>1, <1>8 DEF vars
  <1> QED BY <1>2, <1>3, <1>4, <1>5, <1>6, <1>7, <1>8 DEF Next

(* Whatever the order in which downloads of one name end, are reported and  *)
(* shown, begin again for another client and outlast the polling            *)
(* (server.cpp:518-643), however many pulls there are at once and whoever   *)
(* has which SOCKET value: no client is told of a success of its model or   *)
(* of a failure that did not happen.                                        *)
THEOREM ServerPullTellsTheTruth == Spec => []PullTellsTheTruth
  <1>1. ClientsInv => PullTellsTheTruth
    BY DEF ClientsInv, TrueOf, Says, Hears, PullTellsTheTruth
  <1> QED BY <1>1, ClientsInit, ClientsNext, PTL DEF Spec

-----------------------------------------------------------------------------
(* SOCKET values. *)

(* No two open connections have one value, and what strays has followed a   *)
(* close.                                                                   *)
SocketsInv ==
    /\ \A c, d \in Conn : (client[c].at \in Open /\ client[d].at \in Open
                              /\ client[c].socket = client[d].socket) => c = d
    /\ \A c \in Conn : Says(client[c], "stray") =>
          \E d \in Conn \ {c} : /\ client[d].at = "closed"
                                /\ client[d].socket = client[c].socket
                                /\ download[d].outcome # "none"

LEMMA SocketsInit == Init => SocketsInv
  BY DEF Init, SocketsInv, NotConnected, Open, Says

\* A step of one connection that has a socket and keeps it.
LEMMA SocketKept ==
    ASSUME ClientsInv, SocketsInv, NEW c \in Conn, NEW r, client' = [client EXCEPT ![c] = r],
           r.socket = client[c].socket, client[c].at \in Open,
           Says(r, "stray") => Says(client[c], "stray"),
           \A d \in Conn : download[d].outcome # "none" => download'[d].outcome # "none"
    PROVE  SocketsInv'
  <1>1. client'[c] = r /\ \A e \in Conn : e # c => client'[e] = client[e]
    BY DEF ClientsInv
  <1>2. \A e \in Conn : /\ client'[e].socket = client[e].socket
                        /\ client'[e].at \in Open => client[e].at \in Open
                        /\ Says(client'[e], "stray") => Says(client[e], "stray")
                        /\ client[e].at = "closed" => client'[e].at = "closed"
    BY <1>1 DEF Open
  <1> DEFINE Strays(e) == \E d \in Conn \ {e} : /\ client'[d].at = "closed"
                                                /\ client'[d].socket = client'[e].socket
                                                /\ download'[d].outcome # "none"
  <1>3. \A e \in Conn : Says(client'[e], "stray") => Strays(e)
    BY <1>2 DEF SocketsInv
  <1>4. \A e, f \in Conn : (client'[e].at \in Open /\ client'[f].at \in Open
                               /\ client'[e].socket = client'[f].socket) => e = f
    BY <1>2 DEF SocketsInv
  <1> QED BY <1>3, <1>4 DEF SocketsInv, Says

\* What the thread of a connection sends.
Own == Quiet \cup {"success"}

LEMMA OwnMessages ==
    /\ << >> \in Seq(Own) /\ <<"head">> \in Seq(Own) /\ <<"head", "body">> \in Seq(Own)
    /\ <<"stream head">> \in Seq(Own) /\ <<"body", "[DONE]">> \in Seq(Own)
    /\ <<"chunk">> \in Seq(Own) /\ <<"preparing">> \in Seq(Own)
    /\ <<"success">> \in Seq(Own)
  <1>1. \A m \in {"head", "body", "stream head", "[DONE]", "chunk", "preparing", "success"} :
            m \in Own
    BY DEF Own, Quiet
  <1>2. << >> \in Seq(Own)
    OBVIOUS
  <1>3. \A a \in Own : <<a>> \in Seq(Own)
    OBVIOUS
  <1>4. \A a, b \in Own : <<a, b>> \in Seq(Own)
    OBVIOUS
  <1>5. /\ <<"head">> \in Seq(Own) /\ <<"stream head">> \in Seq(Own)
        /\ <<"chunk">> \in Seq(Own) /\ <<"preparing">> \in Seq(Own)
        /\ <<"success">> \in Seq(Own)
    BY <1>1, <1>3, Zenon
  <1>6. <<"head", "body">> \in Seq(Own) /\ <<"body", "[DONE]">> \in Seq(Own)
    BY <1>1, <1>4, Zenon
  <1> QED BY <1>2, <1>5, <1>6, Zenon

\* It is no stray.
LEMMA SentIsNoStray ==
    ASSUME ClientsInv, NEW c \in Conn, NEW messages \in Seq(Own),
           NEW r, r.sent = Sending(c, messages), Says(r, "stray")
    PROVE  Says(client[c], "stray")
  <1>1. Own \subseteq Messages /\ "stray" \notin Own
    BY DEF Own, Messages, Quiet
  <1>2. messages \in Seq(Messages) /\ \A j \in DOMAIN messages : messages[j] \in Own
    BY <1>1
  <1> QED BY <1>1, <1>2, SaysNew

LEMMA ClientSockets ==
    ASSUME ClientsInv, SocketsInv, NEW c \in Conn, ClientStep(c)
    PROVE  SocketsInv'
  <1>1. client[c] \in Clients /\ client \in [Conn -> Clients] /\ download \in [Conn -> Downloads]
    BY DEF ClientsInv
  <1>2. ASSUME NEW messages \in Seq(Own), NEW place, Send(c, messages, place),
               client[c].at \in Open
        PROVE  SocketsInv'
    <2> DEFINE r == [client[c] EXCEPT !.at = place, !.sent = Sending(c, messages)]
    <2>1. client' = [client EXCEPT ![c] = r] /\ download' = download
      BY <1>1, <1>2 DEF Send, downloadVars
    <2>2. r.socket = client[c].socket /\ r.sent = Sending(c, messages)
      BY <1>1 DEF Clients
    <2> HIDE DEF r
    <2>3. Says(r, "stray") => Says(client[c], "stray")
      BY <1>2, <2>2, SentIsNoStray
    <2> QED BY <1>2, <2>1, <2>2, <2>3, SocketKept
  <1>3. ASSUME NEW messages \in Seq(Own), NEW verdict, Respond(c, messages, verdict),
               client[c].at \in Open, download' = download
        PROVE  SocketsInv'
    <2> DEFINE r == [client[c] EXCEPT !.at = "answer", !.streaming = TRUE,
                                      !.sent = Sending(c, messages), !.verdict = verdict]
    <2>1. client' = [client EXCEPT ![c] = r]
      BY <1>1, <1>3 DEF Respond
    <2>2. r.socket = client[c].socket /\ r.sent = Sending(c, messages)
      BY <1>1 DEF Clients
    <2> HIDE DEF r
    <2>3. Says(r, "stray") => Says(client[c], "stray")
      BY <1>3, <2>2, SentIsNoStray
    <2> QED BY <1>3, <2>1, <2>2, <2>3, SocketKept
  <1>4. ASSUME NEW r, client' = [client EXCEPT ![c] = r], r.socket = client[c].socket,
               r.sent = client[c].sent, client[c].at \in Open,
               \/ download' = download
               \/ \E outcome \in {"completed", "failed"} :
                     download' = [download EXCEPT ![c].outcome = outcome]
        PROVE  SocketsInv'
    <2>1. Says(r, "stray") => Says(client[c], "stray")
      BY <1>4 DEF Says
    <2>2. \A d \in Conn : download[d].outcome # "none" => download'[d].outcome # "none"
      BY <1>1, <1>4 DEF Downloads
    <2> QED BY <1>4, <2>1, <2>2, SocketKept
  <1>5. CASE Receive(c)
    <2>1. client[c].at \in Open
      BY <1>5 DEF Receive, Open
    <2>2. \E messages \in Seq(Own), place \in {"closing", "routing"} : Send(c, messages, place)
      BY <1>5, OwnMessages DEF Receive
    <2> QED BY <1>2, <2>1, <2>2
  <1>6. CASE StreamChunk(c) \/ Answer(c) \/ CloseClient(c)
    <2>1. client[c].at \in Open
      BY <1>6 DEF StreamChunk, Answer, CloseClient, Open
    <2>2. \E messages \in Seq(Own), place \in {"closing", "routing", "closed"} :
             Send(c, messages, place)
      BY <1>6, OwnMessages DEF StreamChunk, Answer, CloseClient
    <2> QED BY <1>2, <2>1, <2>2
  <1>7. CASE Throws(c)
    <2>1. UNCHANGED <<client, download>>
      BY <1>7 DEF Throws, clientVars, downloadVars
    <2> QED BY <2>1 DEF SocketsInv, Says
  <1>8. CASE Routed(c)
    <2>1. PICK streaming :
             client' = [client EXCEPT ![c] = [client[c] EXCEPT !.at = "answer",
                                                              !.streaming = streaming]]
      BY <1>1, <1>8 DEF Routed
    <2> DEFINE r == [client[c] EXCEPT !.at = "answer", !.streaming = streaming]
    <2>2. r.socket = client[c].socket /\ r.sent = client[c].sent
      BY <1>1 DEF Clients
    <2>3. client[c].at \in Open /\ download' = download
      BY <1>8 DEF Routed, Open, downloadVars
    <2> HIDE DEF r
    <2> QED BY <1>4, <2>1, <2>2, <2>3 DEF r
  <1>9. ASSUME client' = [client EXCEPT ![c].at = "polling"],
               client[c].at \in Open,
               \/ download' = download
               \/ \E outcome \in {"completed", "failed"} :
                     download' = [download EXCEPT ![c].outcome = outcome]
        PROVE  SocketsInv'
    <2> DEFINE r == [client[c] EXCEPT !.at = "polling"]
    <2>1. client' = [client EXCEPT ![c] = r] /\ r.socket = client[c].socket
          /\ r.sent = client[c].sent
      BY <1>1, <1>9 DEF Clients
    <2> HIDE DEF r
    <2> QED BY <1>4, <1>9, <2>1
  <1>10. CASE PullPrepares(c)
    <2>1. client[c].at \in Open /\ download' = download
      BY <1>10 DEF PullPrepares, Open, downloadVars
    <2>2. CASE Respond(c, << >>, "error")
      BY <1>3, <2>1, <2>2, OwnMessages
    <2>3. CASE client' = [client EXCEPT ![c].at = "download",
                                        ![c].sent = Sending(c, <<"preparing">>)]
      <3> DEFINE r == [client[c] EXCEPT !.at = "download", !.sent = Sending(c, <<"preparing">>)]
      <3>1. client' = [client EXCEPT ![c] = r]
        BY <1>1, <2>3
      <3>2. r.socket = client[c].socket /\ r.sent = Sending(c, <<"preparing">>)
        BY <1>1 DEF Clients
      <3> HIDE DEF r
      <3>3. Says(r, "stray") => Says(client[c], "stray")
        BY <3>2, SentIsNoStray, OwnMessages
      <3> QED BY <2>1, <3>1, <3>2, <3>3, SocketKept
    <2> QED BY <1>10, <2>2, <2>3 DEF PullPrepares
  <1>11. CASE PullStarts(c)
    <2>1. client[c].at \in Open
      BY <1>11 DEF PullStarts, Open
    <2>2. \/ Respond(c, << >>, "error") /\ download' = download
          \/ /\ client' = [client EXCEPT ![c].at = "polling"]
             /\ \E outcome \in {"completed", "failed"} :
                   download' = [download EXCEPT ![c].outcome = outcome]
      BY <1>11 DEF PullStarts, downloadVars
    <2> QED BY <1>3, <1>9, <2>1, <2>2, OwnMessages
  <1>12. CASE PollCompleted(c) \/ PollFailed(c)
    <2>1. client[c].at \in Open /\ download' = download
      BY <1>12 DEF PollCompleted, PollFailed, Open, downloadVars
    <2>2. Respond(c, <<"success">>, "success") \/ Respond(c, << >>, "error")
      BY <1>12 DEF PollCompleted, PollFailed
    <2> QED BY <1>3, <2>1, <2>2, OwnMessages
  <1>13. CASE PollSleeps(c)
    <2> DEFINE r == [client[c] EXCEPT !.at = "sleeping", !.polls = @ + 1]
    <2>1. client' = [client EXCEPT ![c] = r] /\ r.socket = client[c].socket
          /\ r.sent = client[c].sent
      BY <1>1, <1>13 DEF PollSleeps, Clients
    <2>2. client[c].at \in Open /\ download' = download
      BY <1>13 DEF PollSleeps, Open, downloadVars
    <2> HIDE DEF r
    <2> QED BY <1>4, <2>1, <2>2
  <1>14. CASE PollWakes(c)
    <2>1. client[c].at \in Open /\ download' = download
      BY <1>14 DEF PollWakes, Open, downloadVars
    <2>2. client' = [client EXCEPT ![c].at = "polling"] \/ Respond(c, << >>, "downloading")
      BY <1>14 DEF PollWakes
    <2> QED BY <1>3, <1>9, <2>1, <2>2, OwnMessages
  <1> QED BY <1>5, <1>6, <1>7, <1>8, <1>10, <1>11, <1>12, <1>13, <1>14
          DEF ClientStep, Serves, PullStep

\* A callback that finds somebody else on its socket belongs to a closed pull.
LEMMA CallBackSockets ==
    ASSUME ClientsInv, SocketsInv, NEW c \in Conn, DownloaderStep(c)
    PROVE  SocketsInv'
  <1>1. /\ client \in [Conn -> Clients] /\ download \in [Conn -> Downloads]
        /\ download[c].outcome # "none"
    BY DEF ClientsInv, DownloaderStep, DownloadProgress, DownloadReports, DownloadShows
  <1>2. \A e \in Conn : download'[e].outcome = download[e].outcome
    BY <1>1 DEF DownloaderStep, DownloadProgress, DownloadReports, DownloadShows, Downloads
  <1>3. CASE DownloadShows(c)
    <2>1. client' = client
      BY <1>3 DEF DownloadShows
    <2> QED BY <1>2, <2>1 DEF SocketsInv, Says
  <1>4. ASSUME NEW m \in {"chunk", "success", "failure"}, CallBack(c, m) PROVE SocketsInv'
    <2>1. m \in Messages /\ m # "stray"
      BY DEF Messages, Quiet
    <2>2. \A e \in Conn :
             /\ client'[e].at = client[e].at /\ client'[e].socket = client[e].socket
             /\ client'[e] # client[e] =>
                   client[e].at \in Open /\ client[e].socket = client[c].socket
             /\ Says(client'[e], "stray") => Says(client[e], "stray") \/ e # c
      BY <1>4, <2>1, CallBackReaches
    <2>3. client[c].at \notin Open => client[c].at = "closed"
      BY <1>1 DEF ClientsInv, TrueOf, Before, Polls, Open, Clients, Places
    <2> DEFINE Strays(e) == \E d \in Conn \ {e} : /\ client'[d].at = "closed"
                                                  /\ client'[d].socket = client'[e].socket
                                                  /\ download'[d].outcome # "none"
    <2>4. ASSUME NEW e \in Conn, Says(client'[e], "stray") PROVE Strays(e)
      <3>1. CASE Says(client[e], "stray")
        BY <1>2, <2>2, <3>1 DEF SocketsInv
      <3>2. CASE ~Says(client[e], "stray")
        <4>1. e # c /\ client[e].at \in Open /\ client[e].socket = client[c].socket
          BY <2>2, <2>4, <3>2
        <4>2. client[c].at = "closed"
          BY <2>3, <4>1 DEF SocketsInv
        <4> QED BY <1>1, <1>2, <2>2, <4>1, <4>2
      <3> QED BY <3>1, <3>2
    <2>5. \A e, f \in Conn : (client'[e].at \in Open /\ client'[f].at \in Open
                                 /\ client'[e].socket = client'[f].socket) => e = f
      BY <2>2 DEF SocketsInv
    <2> QED BY <2>4, <2>5 DEF SocketsInv, Says
  <1> QED BY <1>3, <1>4 DEF DownloaderStep, DownloadProgress, DownloadReports

\* Who connects has no value yet, who is accepted gets one that nobody has.
LEMMA ConnectSockets ==
    ASSUME ClientsInv, SocketsInv, NEW c \in Conn,
           Accept(c) \/ \E request \in Requests : Connect(c, request)
    PROVE  SocketsInv'
  <1>1. client \in [Conn -> Clients] /\ client[c] \in Clients
    BY DEF ClientsInv
  <1>2. client[c].at \in {"out", "waiting"} /\ download' = download
    BY DEF Accept, Connect, downloadVars
  <1>3. client[c].sent = << >>
    BY <1>2 DEF ClientsInv, TrueOf
  <1>4. /\ \A e \in Conn : e # c => client'[e] = client[e]
        /\ client'[c].sent = client[c].sent
        /\ client'[c].at \in {"recv", "waiting"}
        /\ client'[c].at = "recv" =>
              \A e \in Conn : client[e].at \in Open => client[e].socket # client'[c].socket
    <2>1. CASE Accept(c)
      <3>1. PICK value \in Socket :
               /\ \A e \in Conn : client[e].at \in Open => client[e].socket # value
               /\ client' = [client EXCEPT ![c] = [client[c] EXCEPT !.at = "recv",
                                                                !.socket = value]]
        BY <1>1, <2>1 DEF Accept
      <3> DEFINE r == [client[c] EXCEPT !.at = "recv", !.socket = value]
      <3>2. r.at = "recv" /\ r.socket = value /\ r.sent = client[c].sent
        BY <1>1 DEF Clients
      <3>3. client' = [client EXCEPT ![c] = r]
        BY <3>1
      <3> HIDE DEF r
      <3> QED BY <1>1, <3>1, <3>2, <3>3
    <2>2. CASE \E request \in Requests : Connect(c, request)
      <3>1. PICK request \in Requests : Connect(c, request)
        BY <2>2
      <3> DEFINE r == [client[c] EXCEPT !.at = "waiting", !.route = request.route,
                                        !.header = request.header, !.model = request.model]
      <3>2. r.at = "waiting" /\ r.sent = client[c].sent
        BY <1>1 DEF Clients
      <3>3. client' = [client EXCEPT ![c] = r]
        BY <1>1, <3>1 DEF Connect
      <3> HIDE DEF r
      <3> QED BY <1>1, <3>2, <3>3
    <2> QED BY <2>1, <2>2
  <1>5. ~Says(client'[c], "stray")
    BY <1>3, <1>4 DEF Says
  <1> DEFINE Strays(e) == \E d \in Conn \ {e} : /\ client'[d].at = "closed"
                                                /\ client'[d].socket = client'[e].socket
                                                /\ download'[d].outcome # "none"
  <1>6. ASSUME NEW e \in Conn, Says(client'[e], "stray") PROVE Strays(e)
    <2>1. e # c /\ Says(client[e], "stray")
      BY <1>4, <1>5, <1>6
    <2>2. PICK d \in Conn \ {e} : /\ client[d].at = "closed"
                                  /\ client[d].socket = client[e].socket
                                  /\ download[d].outcome # "none"
      BY <2>1 DEF SocketsInv
    <2> QED BY <1>2, <1>4, <2>1, <2>2
  <1>7. \A e, f \in Conn : (client'[e].at \in Open /\ client'[f].at \in Open
                               /\ client'[e].socket = client'[f].socket) => e = f
    BY <1>4 DEF SocketsInv, Open
  <1> QED BY <1>6, <1>7 DEF SocketsInv, Says

LEMMA SocketsNext == SocketsInv /\ ClientsInv /\ [Next]_vars => SocketsInv'
  <1> SUFFICES ASSUME SocketsInv, ClientsInv, [Next]_vars PROVE SocketsInv'
    OBVIOUS
  <1>1. CASE UNCHANGED clientVars
    BY <1>1 DEF clientVars, downloadVars, SocketsInv, Says
  <1>2. CASE LoopStep
    BY <1>1, <1>2, ConnectSockets
       DEF LoopStep, LoopStartup, LoopBind, LoopHead, LoopClose, SelectNothing
  <1>3. CASE MainStarts \/ Signal \/ SignalTests \/ SignalEnters \/ MainStops \/ MainLeaves
    BY <1>1, <1>3 DEF MainStarts, Publish, StartFlag, StartThread, AssignThread,
                      Signal, SignalTests, SignalEnters, MainStops, MainLeaves
  <1>4. ASSUME NEW s \in Stoppers, StopStep(s) PROVE SocketsInv'
    BY <1>1, <1>4 DEF StopStep, StopFlag, StopClose, StopTest, StopJoin, JoinThrows,
                      StopCleanup
  <1>5. ASSUME NEW c \in Conn, NEW request \in Requests, Connect(c, request)
        PROVE  SocketsInv'
    BY <1>5, ConnectSockets
  <1>6. CASE UNCHANGED vars
    BY <1>1, <1>6 DEF vars
  <1> QED BY <1>2, <1>3, <1>4, <1>5, <1>6, ClientSockets, CallBackSockets DEF Next

(* However many connections share however few SOCKET values: what the       *)
(* downloader's callback sends on its copy of one (server.cpp:299-302,      *)
(* 576-589) reaches another client only after its own pull was closed.      *)
THEOREM ServerStraysFollowAClose == Spec => []StraysFollowAClose
  <1>1. SocketsInv => StraysFollowAClose
    BY DEF SocketsInv, StraysFollowAClose, Hears, Says
  <1>2. Init => SocketsInv /\ ClientsInv
    BY SocketsInit, ClientsInit
  <1>3. SocketsInv /\ ClientsInv /\ [Next]_vars => (SocketsInv /\ ClientsInv)'
    BY SocketsNext, ClientsNext
  <1> QED BY <1>1, <1>2, <1>3, PTL DEF Spec

-----------------------------------------------------------------------------
(* The frame of an answer. *)

LEMMA NoFrame == Frames(<< >>, << >>)
  <1> DEFINE place == [i \in DOMAIN << >> |-> 0]
  <1>1. DOMAIN << >> = {}
    OBVIOUS
  <1>2. place \in [DOMAIN << >> -> {}]
    BY <1>1
  <1> HIDE DEF place
  <1>3. {i \in DOMAIN << >> : << >>[i] \in Framing} = {}
    BY <1>1
  <1> QED BY <1>1, <1>2, <1>3 DEF Frames

\* A message in between leaves the frame as it is, one of the frame ends it.
LEMMA FramesAppend ==
    ASSUME NEW sent \in Seq(Messages), NEW frame \in Seq(Messages), Frames(frame, sent),
           NEW m \in Messages
    PROVE  /\ m \notin Framing => Frames(frame, Append(sent, m))
           /\ m \in Framing => Frames(Append(frame, m), Append(sent, m))
  <1> DEFINE new == Append(sent, m)
             longer == Append(frame, m)
             last == Len(sent) + 1
             places == {i \in DOMAIN sent : sent[i] \in Framing}
             newPlaces == {i \in DOMAIN new : new[i] \in Framing}
  <1>1. /\ DOMAIN sent = 1..Len(sent) /\ DOMAIN new = 1..last /\ Len(sent) \in Nat
        /\ \A i \in DOMAIN sent : new[i] = sent[i]
        /\ new[last] = m
    OBVIOUS
  <1>2. /\ DOMAIN frame = 1..Len(frame) /\ DOMAIN longer = 1..Len(frame) + 1
        /\ Len(frame) \in Nat
        /\ \A i \in DOMAIN frame : longer[i] = frame[i]
        /\ longer[Len(frame) + 1] = m
    OBVIOUS
  <1> HIDE DEF new, longer
  <1>3. PICK place \in [DOMAIN frame -> places] :
            /\ \A i \in DOMAIN frame : sent[place[i]] = frame[i]
            /\ \A i, j \in DOMAIN frame : i < j => place[i] < place[j]
            /\ \A n \in places : \E i \in DOMAIN frame : n = place[i]
    BY DEF Frames
  <1>4. newPlaces = IF m \in Framing THEN places \cup {last} ELSE places
    BY <1>1
  <1>5. \A i \in DOMAIN frame : place[i] \in places /\ new[place[i]] = frame[i]
    BY <1>1, <1>3
  <1>6. ASSUME m \notin Framing PROVE Frames(frame, new)
    <2>1. newPlaces = places
      BY <1>4, <1>6
    <2> QED BY <1>3, <1>5, <2>1 DEF Frames
  <1>7. ASSUME m \in Framing PROVE Frames(longer, new)
    <2> DEFINE more == [i \in DOMAIN longer |-> IF i \in DOMAIN frame THEN place[i] ELSE last]
    <2>1. newPlaces = places \cup {last}
      BY <1>4, <1>7
    <2>2. \A i \in DOMAIN longer : i \in DOMAIN frame \/ i = Len(frame) + 1
      BY <1>2
    <2>3. more \in [DOMAIN longer -> newPlaces]
      BY <1>5, <2>1
    <2>4. /\ \A i \in DOMAIN frame : more[i] = place[i]
          /\ more[Len(frame) + 1] = last
      BY <1>2
    <2> HIDE DEF more
    <2>5. \A i \in DOMAIN longer : new[more[i]] = longer[i]
      BY <1>1, <1>2, <1>5, <2>2, <2>4
    <2>6. ASSUME NEW i \in DOMAIN longer, NEW j \in DOMAIN longer, i < j
          PROVE  more[i] < more[j]
      <3>1. i \in DOMAIN frame
        BY <2>2, <2>6, <1>2
      <3>2. CASE j \in DOMAIN frame
        BY <3>1, <3>2, <2>4, <2>6, <1>3
      <3>3. CASE j = Len(frame) + 1
        <4>1. place[i] \in 1..Len(sent)
          BY <3>1, <1>5, <1>1
        <4> QED BY <4>1, <3>1, <3>3, <2>4, <1>1
      <3> QED BY <3>2, <3>3, <2>2
    <2>7. ASSUME NEW n \in newPlaces PROVE \E i \in DOMAIN longer : n = more[i]
      <3>1. CASE n \in places
        <4>1. PICK i \in DOMAIN frame : n = place[i]
          BY <3>1, <1>3
        <4> QED BY <4>1, <2>4, <1>2
      <3>2. CASE n = last
        BY <3>2, <2>4, <1>2
      <3> QED BY <3>1, <3>2, <2>1
    <2> HIDE DEF places, newPlaces
    <2>8. Frames(longer, new) <=>
            \E p \in [DOMAIN longer -> newPlaces] :
                /\ \A i \in DOMAIN longer : new[p[i]] = longer[i]
                /\ \A i, j \in DOMAIN longer : i < j => p[i] < p[j]
                /\ \A n \in newPlaces : \E i \in DOMAIN longer : n = p[i]
      BY DEF Frames, newPlaces
    <2> QED BY <2>3, <2>5, <2>6, <2>7, <2>8
  <1> QED BY <1>6, <1>7 DEF new, longer

-----------------------------------------------------------------------------
(* Whole answers. *)

\* Receive has sent the head of a stream.
Streams(r) == r.header \/ r.route \in {"stream", "pull"}

\* The route says whether it streams; only a plain one contradicts the header.
Agrees(r) == ~(r.header /\ r.route = "plain")

\* What has been sent fits the place where the connection's thread is.
AnswerOK(r) ==
    /\ r.at \in {"out", "waiting", "recv"} => Frames(<< >>, r.sent)
    /\ r.at = "routing" =>
          /\ r.route \notin {"nothing", "preflight", "static"}
          /\ Frames(IF Streams(r) THEN <<"stream head">> ELSE << >>, r.sent)
    /\ r.at \in {"download", "polling", "sleeping"} =>
          r.route = "pull" /\ Frames(<<"stream head">>, r.sent)
    /\ r.at = "answer" /\ Agrees(r) =>
          Frames(IF r.streaming THEN <<"stream head">> ELSE << >>, r.sent)
    /\ r.at \in {"closing", "closed"} /\ Agrees(r) =>
          \/ Frames(<<"head", "body">>, r.sent)
          \/ Frames(<<"stream head", "body", "[DONE]">>, r.sent)
          \/ r.route = "nothing" /\ Frames(<< >>, r.sent)
          \/ r.route = "preflight" /\ Frames(<<"head">>, r.sent)

(* Before the loop has called WSAStartup nobody is connected; until the      *)
(* last WSACleanup nothing that was sent is lost.                            *)
AnswersInv ==
    /\ winsock \in Nat
    /\ loop \in {"none", "startup"} => \A c \in Conn : client[c].at = "out"
    /\ \A c \in Conn : client[c].at = "out" => client[c].sent = << >>
    /\ winsock > 0 => \A c \in Conn : AnswerOK(client[c])

LEMMA AnswersInit == Init => AnswersInv
  <1>1. Init => winsock = 0 /\ \A c \in Conn : client[c].at = "out" /\ client[c].sent = << >>
    BY DEF Init, NotConnected
  <1> QED BY <1>1 DEF AnswersInv

\* Short sequences, member by member.
LEMMA AppendPair == \A a, b : Append(<<a>>, b) = <<a, b>>
  <1> TAKE a, b
  <1> DEFINE S == {a, b}
  <1>0. a \in S /\ b \in S
    OBVIOUS
  <1> HIDE DEF S
  <1>1. /\ Append(<<a>>, b) \in Seq(S) /\ <<a, b>> \in Seq(S)
        /\ Len(Append(<<a>>, b)) = 2 /\ Len(<<a, b>>) = 2
    BY <1>0
  <1>2. /\ Append(<<a>>, b)[1] = a /\ Append(<<a>>, b)[2] = b
        /\ <<a, b>>[1] = a /\ <<a, b>>[2] = b
    BY <1>0
  <1>3. \A i \in 1..2 : i = 1 \/ i = 2
    OBVIOUS
  <1> QED BY <1>1, <1>2, <1>3, SeqEqual

LEMMA AppendTriple == \A a, b, d : Append(<<a, b>>, d) = <<a, b, d>>
  <1> TAKE a, b, d
  <1> DEFINE S == {a, b, d}
  <1>0. a \in S /\ b \in S /\ d \in S
    OBVIOUS
  <1> HIDE DEF S
  <1>1. /\ Append(<<a, b>>, d) \in Seq(S) /\ <<a, b, d>> \in Seq(S)
        /\ Len(Append(<<a, b>>, d)) = 3 /\ Len(<<a, b, d>>) = 3
    BY <1>0
  <1>2. /\ Append(<<a, b>>, d)[1] = a /\ Append(<<a, b>>, d)[2] = b
        /\ Append(<<a, b>>, d)[3] = d
        /\ <<a, b, d>>[1] = a /\ <<a, b, d>>[2] = b /\ <<a, b, d>>[3] = d
    BY <1>0
  <1>3. \A i \in 1..3 : i = 1 \/ i = 2 \/ i = 3
    OBVIOUS
  <1> QED BY <1>1, <1>2, <1>3, SeqEqual

LEMMA ConcatPair ==
    ASSUME NEW S, NEW a \in S, NEW b \in S, NEW s \in Seq(S)
    PROVE  s \o <<a, b>> = Append(Append(s, a), b)
  <1>1. Append(s, a) \in Seq(S) /\ Append(Append(s, a), b) \in Seq(S)
    OBVIOUS
  <1>2. s \o <<a, b>> \in Seq(S)
    OBVIOUS
  <1>3. /\ Len(Append(Append(s, a), b)) = Len(s) + 2
        /\ \A i \in 1..Len(s) : Append(Append(s, a), b)[i] = s[i]
        /\ Append(Append(s, a), b)[Len(s) + 1] = a
        /\ Append(Append(s, a), b)[Len(s) + 2] = b
    BY <1>1
  <1>4. /\ Len(s \o <<a, b>>) = Len(s) + 2
        /\ \A i \in 1..Len(s) : (s \o <<a, b>>)[i] = s[i]
        /\ (s \o <<a, b>>)[Len(s) + 1] = a
        /\ (s \o <<a, b>>)[Len(s) + 2] = b
    OBVIOUS
  <1>5. \A i \in 1..Len(s) + 2 : (s \o <<a, b>>)[i] = Append(Append(s, a), b)[i]
    <2>1. Len(s) \in Nat
      OBVIOUS
    <2>2. \A i \in 1..Len(s) + 2 : i \in 1..Len(s) \/ i = Len(s) + 1 \/ i = Len(s) + 2
      BY <2>1
    <2> QED BY <1>3, <1>4, <2>2
  <1> QED BY <1>1, <1>2, <1>3, <1>4, <1>5, SeqEqual

\* What a thread sends on a frame: the messages the program knows.
LEMMA FrameSteps ==
    ASSUME NEW sent \in Seq(Messages)
    PROVE  /\ Frames(<< >>, sent) =>
                /\ Frames(<<"head">>, Append(sent, "head"))
                /\ Frames(<<"stream head">>, Append(sent, "stream head"))
                /\ Frames(<<"head", "body">>, Append(Append(sent, "head"), "body"))
           /\ Frames(<<"stream head">>, sent) =>
                Frames(<<"stream head", "body", "[DONE]">>,
                       Append(Append(sent, "body"), "[DONE]"))
           /\ \A m \in Messages \ Framing : \A frame \in Seq(Messages) :
                Frames(frame, sent) => Frames(frame, Append(sent, m))
  <1>1. \A m \in {"head", "stream head", "body", "[DONE]"} : m \in Messages /\ m \in Framing
    BY DEF Messages, Quiet, Framing
  <1>2. /\ << >> \in Seq(Messages) /\ <<"head">> \in Seq(Messages)
        /\ <<"stream head">> \in Seq(Messages) /\ <<"stream head", "body">> \in Seq(Messages)
    <2>1. \A a \in Messages : <<a>> \in Seq(Messages)
      OBVIOUS
    <2>2. \A a, b \in Messages : <<a, b>> \in Seq(Messages)
      OBVIOUS
    <2>3. << >> \in Seq(Messages)
      OBVIOUS
    <2>4. <<"head">> \in Seq(Messages) /\ <<"stream head">> \in Seq(Messages)
      BY <1>1, <2>1, Zenon
    <2>5. <<"stream head", "body">> \in Seq(Messages)
      BY <1>1, <2>2, Zenon
    <2> QED BY <2>3, <2>4, <2>5
  <1>3. /\ Append(<< >>, "head") = <<"head">>
        /\ Append(<< >>, "stream head") = <<"stream head">>
        /\ Append(<<"head">>, "body") = <<"head", "body">>
        /\ Append(<<"stream head">>, "body") = <<"stream head", "body">>
        /\ Append(<<"stream head", "body">>, "[DONE]") = <<"stream head", "body", "[DONE]">>
    <2>1. Append(<< >>, "head") = <<"head">> /\ Append(<< >>, "stream head") = <<"stream head">>
      OBVIOUS
    <2>2. Append(<<"head">>, "body") = <<"head", "body">>
      BY AppendPair, Zenon
    <2>3. Append(<<"stream head">>, "body") = <<"stream head", "body">>
      BY AppendPair, Zenon
    <2>4. Append(<<"stream head", "body">>, "[DONE]") = <<"stream head", "body", "[DONE]">>
      BY AppendTriple, Zenon
    <2> QED BY <2>1, <2>2, <2>3, <2>4
  <1>4. /\ Append(sent, "head") \in Seq(Messages)
        /\ Append(sent, "body") \in Seq(Messages)
    <2>1. \A m \in Messages : Append(sent, m) \in Seq(Messages)
      OBVIOUS
    <2> QED BY <1>1, <2>1
  <1>5. ASSUME Frames(<< >>, sent)
        PROVE  /\ Frames(<<"head">>, Append(sent, "head"))
               /\ Frames(<<"stream head">>, Append(sent, "stream head"))
               /\ Frames(<<"head", "body">>, Append(Append(sent, "head"), "body"))
    <2>1. /\ Frames(<<"head">>, Append(sent, "head"))
          /\ Frames(<<"stream head">>, Append(sent, "stream head"))
      BY <1>1, <1>2, <1>3, <1>5, FramesAppend
    <2>2. Frames(Append(<<"head">>, "body"), Append(Append(sent, "head"), "body"))
      BY <1>1, <1>2, <1>4, <2>1, FramesAppend
    <2> QED BY <2>1, <2>2, <1>3
  <1>6. ASSUME Frames(<<"stream head">>, sent)
        PROVE  Frames(<<"stream head", "body", "[DONE]">>,
                      Append(Append(sent, "body"), "[DONE]"))
    <2>1. Frames(<<"stream head", "body">>, Append(sent, "body"))
      BY <1>1, <1>2, <1>3, <1>6, FramesAppend
    <2>2. Frames(Append(<<"stream head", "body">>, "[DONE]"),
                 Append(Append(sent, "body"), "[DONE]"))
      BY <1>1, <1>2, <1>4, <2>1, FramesAppend
    <2> QED BY <2>2, <1>3
  <1>7. ASSUME NEW m \in Messages \ Framing, NEW frame \in Seq(Messages), Frames(frame, sent)
        PROVE  Frames(frame, Append(sent, m))
    BY <1>7, FramesAppend
  <1> QED BY <1>5, <1>6, <1>7

\* Until WSACleanup what is sent is appended.
LEMMA SendingAppends ==
    ASSUME ClientsInv, AnswersInv, NEW c \in Conn, winsock > 0
    PROVE  /\ Sending(c, << >>) = client[c].sent
           /\ \A m \in Messages : Sending(c, <<m>>) = Append(client[c].sent, m)
           /\ \A m, n \in Messages :
                Sending(c, <<m, n>>) = Append(Append(client[c].sent, m), n)
  <1>1. client[c].sent \in Seq(Messages)
    BY DEF ClientsInv, Clients
  <1>2. \A messages : Sending(c, messages) = client[c].sent \o messages
    BY DEF Sending, AnswersInv
  <1>3. client[c].sent \o << >> = client[c].sent
    BY <1>1
  <1>4. ASSUME NEW m \in Messages PROVE client[c].sent \o <<m>> = Append(client[c].sent, m)
    BY <1>1
  <1>5. ASSUME NEW m \in Messages, NEW n \in Messages
        PROVE  client[c].sent \o <<m, n>> = Append(Append(client[c].sent, m), n)
    <2> DEFINE s == client[c].sent
    <2> HIDE DEF s
    <2>1. s \in Seq(Messages)
      BY <1>1 DEF s
    <2>2. s \o <<m, n>> = Append(Append(s, m), n)
      BY <2>1, ConcatPair
    <2> QED BY <2>2 DEF s
  <1> QED BY <1>2, <1>3, <1>4, <1>5

\* Who is connected is connected after WSAStartup.
LEMMA AnswerStep ==
    ASSUME AnswersInv, ClientsInv, NEW c \in Conn, NEW r \in Clients,
           client' = [client EXCEPT ![c] = r], UNCHANGED serverVars,
           loop \notin {"none", "startup"}, r.at # "out",
           winsock > 0 => AnswerOK(r)
    PROVE  AnswersInv'
  <1>1. client \in [Conn -> Clients] /\ client'[c] = r
        /\ \A e \in Conn \ {c} : client'[e] = client[e]
    BY DEF ClientsInv
  <1>2. ASSUME NEW e \in Conn, winsock > 0 PROVE AnswerOK(client'[e])
    BY <1>1, <1>2 DEF AnswersInv
  <1>3. winsock' = winsock /\ loop' = loop
    BY DEF serverVars
  <1>4. \A e \in Conn : client'[e].at = "out" => client'[e].sent = << >>
    BY <1>1 DEF AnswersInv
  <1>5. (winsock > 0 => \A e \in Conn : AnswerOK(client[e]))'
    BY <1>2, <1>3 DEF AnswerOK, Agrees, Streams, Frames
  <1> QED BY <1>3, <1>4, <1>5 DEF AnswersInv

LEMMA SendAnswers ==
    ASSUME AnswersInv, ClientsInv, NEW c \in Conn,
           NEW messages \in Seq(Messages), NEW place \in Places \ {"out"},
           Send(c, messages, place), client[c].at # "out",
           winsock > 0 => AnswerOK([client[c] EXCEPT !.at = place,
                                                     !.sent = Sending(c, messages)])
    PROVE  AnswersInv'
  <1> DEFINE r == [client[c] EXCEPT !.at = place, !.sent = Sending(c, messages)]
  <1>1. client[c] \in Clients /\ Sending(c, messages) \in Seq(Messages)
    BY SendingSays DEF ClientsInv
  <1>2. r \in Clients /\ r.at # "out"
    BY <1>1 DEF Clients
  <1>3. client' = [client EXCEPT ![c] = r] /\ UNCHANGED serverVars
    BY DEF Send
  <1>4. loop \notin {"none", "startup"}
    BY DEF AnswersInv
  <1>5. winsock > 0 => AnswerOK(r)
    OBVIOUS
  <1> HIDE DEF r
  <1> QED BY <1>2, <1>3, <1>4, <1>5, AnswerStep

LEMMA KnownMessages ==
    /\ \A m \in {"head", "stream head", "body", "[DONE]", "chunk", "preparing", "success",
                 "failure", "stray"} : m \in Messages
    /\ \A m \in {"chunk", "preparing", "success", "failure", "stray"} :
          m \in Messages \ Framing
    /\ << >> \in Seq(Messages) /\ <<"stream head">> \in Seq(Messages)
    /\ <<"head", "body">> \in Seq(Messages)
    /\ <<"stream head", "body", "[DONE]">> \in Seq(Messages)
    /\ <<"head">> \in Seq(Messages) /\ <<"body", "[DONE]">> \in Seq(Messages)
    /\ <<"chunk">> \in Seq(Messages)
  <1>1. /\ \A m \in {"head", "stream head", "body", "[DONE]", "chunk", "preparing", "success",
                     "failure", "stray"} : m \in Messages
        /\ \A m \in {"chunk", "preparing", "success", "failure", "stray"} :
              m \in Messages \ Framing
    BY DEF Messages, Quiet, Framing
  <1>2. \A a \in Messages : <<a>> \in Seq(Messages)
    OBVIOUS
  <1>3. \A a, b \in Messages : <<a, b>> \in Seq(Messages)
    OBVIOUS
  <1>4. \A a, b, d \in Messages : <<a, b, d>> \in Seq(Messages)
    OBVIOUS
  <1>5. << >> \in Seq(Messages)
    OBVIOUS
  <1>6. <<"head">> \in Seq(Messages) /\ <<"chunk">> \in Seq(Messages)
        /\ <<"stream head">> \in Seq(Messages)
    BY <1>1, <1>2, Zenon
  <1>7. <<"head", "body">> \in Seq(Messages) /\ <<"body", "[DONE]">> \in Seq(Messages)
    BY <1>1, <1>3, Zenon
  <1>8. <<"stream head", "body", "[DONE]">> \in Seq(Messages)
    BY <1>1, <1>4, Zenon
  <1> QED BY <1>1, <1>5, <1>6, <1>7, <1>8, Zenon

LEMMA OneMessage == \A m \in Messages : <<m>> \in Seq(Messages)
  OBVIOUS

\* Nothing becomes of an answer while its client is not touched.
LEMMA AnswersStay ==
    ASSUME UNCHANGED client, \A e \in Conn : AnswerOK(client[e])
    PROVE  (\A e \in Conn : AnswerOK(client[e]))'
  <1>1. \A e \in Conn : AnswerOK(client'[e])
    OBVIOUS
  <1> QED BY <1>1 DEF AnswerOK, Agrees, Streams, Frames

\* An answer that is no stream is a head and a body.
LEMMA ReceiveAnswers ==
    ASSUME AnswersInv, ClientsInv, NEW c \in Conn, Receive(c)
    PROVE  AnswersInv'
  <1> DEFINE sent == client[c].sent
             route == client[c].route
             next(place, messages) == [client[c] EXCEPT !.at = place,
                                                        !.sent = Sending(c, messages)]
  <1>0. client[c] \in Clients /\ sent \in Seq(Messages) /\ client[c].at = "recv"
    BY DEF ClientsInv, Clients, Receive
  <1>1. ASSUME NEW place \in Places, NEW messages
        PROVE  LET r == next(place, messages)
               IN  /\ r.at = place /\ r.sent = Sending(c, messages)
                   /\ r.route = route /\ r.header = client[c].header
    BY <1>0 DEF Clients
  <1>2. winsock > 0 => Frames(<< >>, sent)
    BY <1>0 DEF AnswersInv, AnswerOK
  <1>3. {"closing", "routing"} \subseteq Places \ {"out"}
    BY DEF Places, Before
  <1> HIDE DEF next
  <1>4. CASE route = "nothing"
    <2>1. Send(c, << >>, "closing")
      BY <1>4 DEF Receive
    <2>2. winsock > 0 => AnswerOK(next("closing", << >>))
      BY <1>1, <1>2, <1>3, <1>4, SendingAppends DEF AnswerOK
    <2> QED BY <1>0, <1>3, <2>1, <2>2, SendAnswers, KnownMessages DEF next
  <1>5. CASE route = "preflight"
    <2>1. Send(c, <<"head">>, "closing")
      BY <1>5 DEF Receive
    <2>2. ASSUME winsock > 0 PROVE AnswerOK(next("closing", <<"head">>))
      <3>1. Sending(c, <<"head">>) = Append(sent, "head")
        BY <2>2, SendingAppends, KnownMessages
      <3>2. Frames(<<"head">>, Append(sent, "head"))
        BY <1>0, <1>2, <2>2, FrameSteps
      <3> QED BY <1>1, <1>3, <1>5, <3>1, <3>2 DEF AnswerOK
    <2> QED BY <1>0, <1>3, <2>1, <2>2, SendAnswers, KnownMessages DEF next
  <1>6. CASE route = "static"
    <2>1. Send(c, <<"head", "body">>, "closing")
      BY <1>6 DEF Receive
    <2>2. ASSUME winsock > 0 PROVE AnswerOK(next("closing", <<"head", "body">>))
      <3>1. Sending(c, <<"head", "body">>) = Append(Append(sent, "head"), "body")
        BY <2>2, SendingAppends, KnownMessages
      <3>2. Frames(<<"head", "body">>, Append(Append(sent, "head"), "body"))
        BY <1>0, <1>2, <2>2, FrameSteps
      <3> QED BY <1>1, <1>3, <1>6, <3>1, <3>2 DEF AnswerOK
    <2> QED BY <1>0, <1>3, <2>1, <2>2, SendAnswers, KnownMessages DEF next
  <1>7. CASE route \notin {"nothing", "preflight", "static"} /\ Streams(client[c])
    <2>1. Send(c, <<"stream head">>, "routing")
      BY <1>7 DEF Receive, Streams
    <2>2. ASSUME winsock > 0 PROVE AnswerOK(next("routing", <<"stream head">>))
      <3>1. Sending(c, <<"stream head">>) = Append(sent, "stream head")
        BY <2>2, SendingAppends, KnownMessages
      <3>2. Frames(<<"stream head">>, Append(sent, "stream head"))
        BY <1>0, <1>2, <2>2, FrameSteps
      <3> DEFINE r == next("routing", <<"stream head">>)
      <3>3. r.at = "routing" /\ r.sent = Append(sent, "stream head") /\ r.route = route
            /\ r.header = client[c].header
        BY <1>1, <1>3, <3>1
      <3> HIDE DEF r
      <3> QED BY <1>7, <3>2, <3>3 DEF AnswerOK, Streams, r
    <2> QED BY <1>0, <1>3, <2>1, <2>2, SendAnswers, KnownMessages DEF next
  <1>8. CASE route \notin {"nothing", "preflight", "static"} /\ ~Streams(client[c])
    <2>1. Send(c, << >>, "routing")
      BY <1>8 DEF Receive, Streams
    <2>2. ASSUME winsock > 0 PROVE AnswerOK(next("routing", << >>))
      <3> DEFINE r == next("routing", << >>)
      <3>1. Sending(c, << >>) = sent
        BY <2>2, SendingAppends
      <3>2. r.at = "routing" /\ r.sent = sent /\ r.route = route /\ r.header = client[c].header
        BY <1>1, <1>3, <3>1
      <3> HIDE DEF r
      <3> QED BY <1>2, <1>8, <2>2, <3>2 DEF AnswerOK, Streams, r
    <2> QED BY <1>0, <1>3, <2>1, <2>2, SendAnswers, KnownMessages DEF next
  <1> QED BY <1>4, <1>5, <1>6, <1>7, <1>8

\* A chunk frames nothing; the route decides as Receive did, or disagrees with it.
LEMMA RouteAnswers ==
    ASSUME AnswersInv, ClientsInv, NEW c \in Conn, StreamChunk(c) \/ Routed(c)
    PROVE  AnswersInv'
  <1>0. /\ client[c] \in Clients /\ client[c].sent \in Seq(Messages)
        /\ client[c].at = "routing" /\ client \in [Conn -> Clients]
    BY DEF ClientsInv, Clients, StreamChunk, Routed
  <1>1. winsock > 0 => AnswerOK(client[c])
    BY DEF AnswersInv
  <1>2. CASE StreamChunk(c)
    <2> DEFINE r == [client[c] EXCEPT !.at = "routing", !.sent = Sending(c, <<"chunk">>)]
    <2>1. Send(c, <<"chunk">>, "routing") /\ "routing" \in Places \ {"out"}
      BY <1>2 DEF StreamChunk, Places, Before
    <2>2. /\ r.at = "routing" /\ r.sent = Sending(c, <<"chunk">>)
          /\ r.route = client[c].route /\ r.header = client[c].header
      BY <1>0 DEF Clients
    <2> HIDE DEF r
    <2>3. ASSUME winsock > 0 PROVE AnswerOK(r)
      <3>1. r.sent = Append(client[c].sent, "chunk")
        BY <2>2, <2>3, SendingAppends, KnownMessages
      <3>2. \A frame \in Seq(Messages) : Frames(frame, client[c].sent) => Frames(frame, r.sent)
        BY <1>0, <3>1, FrameSteps, KnownMessages
      <3>3. Streams(r) <=> Streams(client[c])
        BY <2>2 DEF Streams
      <3>4. Frames(IF Streams(r) THEN <<"stream head">> ELSE << >>, r.sent)
        BY <1>0, <1>1, <2>3, <3>2, <3>3, KnownMessages DEF AnswerOK
      <3> QED BY <1>0, <1>1, <2>2, <2>3, <3>4 DEF AnswerOK
    <2> QED BY <1>0, <2>1, <2>3, SendAnswers, KnownMessages DEF r
  <1>3. CASE Routed(c)
    <2> DEFINE streaming == \/ client[c].route = "stream"
                            \/ client[c].route = "other" /\ client[c].header
               r == [client[c] EXCEPT !.at = "answer", !.streaming = streaming]
    <2>1. client' = [client EXCEPT ![c] = r] /\ UNCHANGED serverVars
      BY <1>0, <1>3 DEF Routed
    <2>2. /\ r \in Clients /\ r.at = "answer" /\ r.sent = client[c].sent
          /\ r.route = client[c].route /\ r.header = client[c].header
          /\ r.streaming = streaming
      BY <1>0 DEF Clients, Places
    <2> HIDE DEF r
    <2>3. client[c].route \in Routes /\ client[c].route # "pull" /\ client[c].header \in BOOLEAN
      BY <1>0, <1>3 DEF Clients, Routed
    <2>4. ASSUME winsock > 0, Agrees(r)
          PROVE  Frames(IF r.streaming THEN <<"stream head">> ELSE << >>, r.sent)
      <3>1. client[c].route \in {"stream", "other", "plain"}
        BY <1>0, <1>1, <2>3, <2>4 DEF AnswerOK, Routes
      <3>2. streaming <=> Streams(client[c])
        BY <2>2, <2>4, <3>1 DEF Agrees, Streams
      <3> QED BY <1>0, <1>1, <2>2, <2>4, <3>2 DEF AnswerOK
    <2>5. winsock > 0 => AnswerOK(r)
      BY <2>2, <2>4 DEF AnswerOK
    <2>6. loop \notin {"none", "startup"}
      BY <1>0 DEF AnswersInv
    <2> QED BY <2>1, <2>2, <2>5, <2>6, AnswerStep
  <1> QED BY <1>2, <1>3

\* What ends an answer completes its frame.
LEMMA EndAnswers ==
    ASSUME AnswersInv, ClientsInv, NEW c \in Conn, Answer(c) \/ CloseClient(c)
    PROVE  AnswersInv'
  <1> DEFINE sent == client[c].sent
             next(place, messages) == [client[c] EXCEPT !.at = place,
                                                        !.sent = Sending(c, messages)]
  <1>0. /\ client[c] \in Clients /\ sent \in Seq(Messages)
        /\ client[c].at # "out"
    BY DEF ClientsInv, Clients, Answer, CloseClient
  <1>1. ASSUME NEW place \in Places, NEW messages
        PROVE  LET r == next(place, messages)
               IN  /\ r.at = place /\ r.sent = Sending(c, messages)
                   /\ r.route = client[c].route /\ r.header = client[c].header
                   /\ Agrees(r) <=> Agrees(client[c])
    BY <1>0 DEF Clients, Agrees
  <1>2. winsock > 0 => AnswerOK(client[c])
    BY DEF AnswersInv
  <1>3. {"closing", "closed"} \subseteq Places \ {"out"}
    BY DEF Places, Before
  <1> HIDE DEF next
  <1>4. CASE Answer(c) /\ client[c].streaming
    <2>1. Send(c, <<"body", "[DONE]">>, "closing") /\ client[c].at = "answer"
      BY <1>4 DEF Answer
    <2>2. ASSUME winsock > 0 PROVE AnswerOK(next("closing", <<"body", "[DONE]">>))
      <3>1. Sending(c, <<"body", "[DONE]">>) = Append(Append(sent, "body"), "[DONE]")
        BY <2>2, SendingAppends, KnownMessages
      <3>2. Agrees(client[c]) => Frames(<<"stream head">>, sent)
        BY <1>2, <1>4, <2>1, <2>2 DEF AnswerOK
      <3>3. Agrees(client[c]) => Frames(<<"stream head", "body", "[DONE]">>,
                                        Append(Append(sent, "body"), "[DONE]"))
        BY <1>0, <3>2, FrameSteps
      <3> QED BY <1>1, <1>3, <3>1, <3>3 DEF AnswerOK
    <2> QED BY <1>0, <1>3, <2>1, <2>2, SendAnswers, KnownMessages DEF next
  <1>5. CASE Answer(c) /\ ~client[c].streaming
    <2>1. Send(c, <<"head", "body">>, "closing") /\ client[c].at = "answer"
      BY <1>5 DEF Answer
    <2>2. ASSUME winsock > 0 PROVE AnswerOK(next("closing", <<"head", "body">>))
      <3>1. Sending(c, <<"head", "body">>) = Append(Append(sent, "head"), "body")
        BY <2>2, SendingAppends, KnownMessages
      <3>2. Agrees(client[c]) => Frames(<< >>, sent)
        BY <1>2, <1>5, <2>1, <2>2 DEF AnswerOK
      <3>3. Agrees(client[c]) => Frames(<<"head", "body">>,
                                        Append(Append(sent, "head"), "body"))
        BY <1>0, <3>2, FrameSteps
      <3> QED BY <1>1, <1>3, <3>1, <3>3 DEF AnswerOK
    <2> QED BY <1>0, <1>3, <2>1, <2>2, SendAnswers, KnownMessages DEF next
  <1>6. CASE CloseClient(c)
    <2>1. Send(c, << >>, "closed") /\ client[c].at = "closing"
      BY <1>6 DEF CloseClient
    <2>2. ASSUME winsock > 0 PROVE AnswerOK(next("closed", << >>))
      <3>1. Sending(c, << >>) = sent
        BY <2>2, SendingAppends
      <3> DEFINE r == next("closed", << >>)
      <3>2. r.at = "closed" /\ r.sent = sent /\ r.route = client[c].route
            /\ (Agrees(r) <=> Agrees(client[c]))
        BY <1>1, <1>3, <3>1
      <3> HIDE DEF r
      <3>3. AnswerOK(client[c])
        BY <1>2, <2>2
      <3> QED BY <2>1, <3>2, <3>3 DEF AnswerOK, r
    <2> QED BY <1>0, <1>3, <2>1, <2>2, SendAnswers, KnownMessages DEF next
  <1> QED BY <1>4, <1>5, <1>6

\* More messages that frame nothing change nothing.
LEMMA QuietAnswers ==
    ASSUME NEW r \in Clients, NEW s \in Clients, AnswerOK(r),
           s.at = r.at, s.route = r.route, s.header = r.header, s.streaming = r.streaming,
           \A frame \in Seq(Messages) : Frames(frame, r.sent) => Frames(frame, s.sent)
    PROVE  AnswerOK(s)
  <1>1. (Streams(s) <=> Streams(r)) /\ (Agrees(s) <=> Agrees(r))
    BY DEF Streams, Agrees
  <1>2. \A frame \in {<< >>, <<"head">>, <<"head", "body">>, <<"stream head">>,
                      <<"stream head", "body", "[DONE]">>} :
            Frames(frame, r.sent) => Frames(frame, s.sent)
    BY KnownMessages
  <1> QED BY <1>1, <1>2 DEF AnswerOK

\* The response of a pull comes on the head of its stream.
LEMMA RespondAnswers ==
    ASSUME AnswersInv, ClientsInv, NEW c \in Conn, NEW messages \in {<< >>, <<"success">>},
           NEW verdict \in {"success", "error", "downloading"},
           Respond(c, messages, verdict), UNCHANGED serverVars, client[c].at # "out",
           winsock > 0 => Frames(<<"stream head">>, client[c].sent)
    PROVE  AnswersInv'
  <1> DEFINE r == [client[c] EXCEPT !.at = "answer", !.streaming = TRUE,
                                    !.sent = Sending(c, messages), !.verdict = verdict]
  <1>0. <<"success">> \in Seq(Messages) /\ << >> \in Seq(Messages)
    <2>1. "success" \in Messages /\ << >> \in Seq(Messages)
      BY KnownMessages
    <2> QED BY <2>1, OneMessage, Zenon
  <1>1. /\ client[c] \in Clients /\ client \in [Conn -> Clients]
        /\ Sending(c, messages) \in Seq(Messages) /\ client[c].sent \in Seq(Messages)
    BY <1>0, SendingSays DEF ClientsInv, Clients
  <1>2. /\ r \in Clients /\ r.at = "answer" /\ r.streaming = TRUE
        /\ r.sent = Sending(c, messages)
    BY <1>1 DEF Clients, Places
  <1>3. client' = [client EXCEPT ![c] = r] /\ loop \notin {"none", "startup"}
    BY <1>1 DEF Respond, AnswersInv
  <1> HIDE DEF r
  <1>4. ASSUME winsock > 0 PROVE Frames(<<"stream head">>, r.sent)
    <2>1. CASE messages = << >>
      BY <1>2, <1>4, <2>1, SendingAppends
    <2>2. CASE messages = <<"success">>
      <3>1. r.sent = Append(client[c].sent, "success")
        BY <1>2, <1>4, <2>2, SendingAppends, KnownMessages
      <3> QED BY <1>1, <1>4, <3>1, FrameSteps, KnownMessages
    <2> QED BY <2>1, <2>2
  <1>5. winsock > 0 => AnswerOK(r)
    BY <1>2, <1>4 DEF AnswerOK
  <1> QED BY <1>2, <1>3, <1>5, AnswerStep

LEMMA PullAnswers ==
    ASSUME AnswersInv, ClientsInv, NEW c \in Conn, PullStep(c)
    PROVE  AnswersInv'
  <1>0. /\ client[c] \in Clients /\ client \in [Conn -> Clients]
        /\ client[c].sent \in Seq(Messages) /\ client[c].polls \in Nat
    BY DEF ClientsInv, Clients
  <1>1. client[c].at \in {"routing", "download", "polling", "sleeping"}
    BY DEF PullStep, PullPrepares, PullStarts, PollCompleted, PollFailed, PollSleeps, PollWakes
  <1>2. UNCHANGED serverVars
    BY DEF PullStep, PullPrepares, PullStarts, PollCompleted, PollFailed, PollSleeps, PollWakes
  <1>3. client[c].at = "routing" => client[c].route = "pull"
    BY DEF PullStep, PullPrepares, PullStarts, PollCompleted, PollFailed, PollSleeps, PollWakes
  <1>4. ASSUME winsock > 0
        PROVE  client[c].route = "pull" /\ Frames(<<"stream head">>, client[c].sent)
    <2>1. AnswerOK(client[c])
      BY <1>4 DEF AnswersInv
    <2> QED BY <1>1, <1>3, <2>1 DEF AnswerOK, Streams
  <1>5. ASSUME NEW messages \in {<< >>, <<"success">>},
               NEW verdict \in {"success", "error", "downloading"},
               Respond(c, messages, verdict)
        PROVE  AnswersInv'
    BY <1>1, <1>2, <1>4, <1>5, RespondAnswers
  <1>6. ASSUME NEW r \in Clients, client' = [client EXCEPT ![c] = r],
               r.at \in {"download", "polling", "sleeping"}, r.route = client[c].route,
               winsock > 0 => Frames(<<"stream head">>, r.sent)
        PROVE  AnswersInv'
    <2>1. winsock > 0 => AnswerOK(r)
      BY <1>4, <1>6 DEF AnswerOK
    <2>2. loop \notin {"none", "startup"}
      BY <1>1 DEF AnswersInv
    <2> QED BY <1>2, <1>6, <2>1, <2>2, AnswerStep
  <1>7. ASSUME client' = [client EXCEPT ![c].at = "download",
                                        ![c].sent = Sending(c, <<"preparing">>)]
        PROVE  AnswersInv'
    <2> DEFINE r == [client[c] EXCEPT !.at = "download", !.sent = Sending(c, <<"preparing">>)]
    <2>0. <<"preparing">> \in Seq(Messages)
      <3>1. "preparing" \in Messages
        BY KnownMessages
      <3> QED BY <3>1, OneMessage, Zenon
    <2>1. Sending(c, <<"preparing">>) \in Seq(Messages)
      BY <2>0, SendingSays
    <2>2. /\ r \in Clients /\ r.at = "download" /\ r.route = client[c].route
          /\ r.sent = Sending(c, <<"preparing">>)
      BY <1>0, <2>1 DEF Clients, Places, Before
    <2>3. client' = [client EXCEPT ![c] = r]
      BY <1>0, <1>7
    <2> HIDE DEF r
    <2>4. ASSUME winsock > 0 PROVE Frames(<<"stream head">>, r.sent)
      <3>1. r.sent = Append(client[c].sent, "preparing")
        BY <2>2, <2>4, SendingAppends, KnownMessages
      <3> QED BY <1>0, <1>4, <2>4, <3>1, FrameSteps, KnownMessages
    <2> QED BY <1>6, <2>2, <2>3, <2>4
  <1>8. ASSUME client' = [client EXCEPT ![c].at = "polling"] PROVE AnswersInv'
    <2> DEFINE r == [client[c] EXCEPT !.at = "polling"]
    <2>1. /\ r \in Clients /\ r.at = "polling" /\ r.route = client[c].route
          /\ r.sent = client[c].sent
      BY <1>0 DEF Clients, Places, Polls
    <2>2. client' = [client EXCEPT ![c] = r]
      BY <1>0, <1>8
    <2> HIDE DEF r
    <2> QED BY <1>4, <1>6, <2>1, <2>2
  <1>9. CASE PollSleeps(c)
    <2> DEFINE r == [client[c] EXCEPT !.at = "sleeping", !.polls = @ + 1]
    <2>0. client[c].polls + 1 \in Nat
      BY <1>0
    <2>1. /\ r \in Clients /\ r.at = "sleeping" /\ r.route = client[c].route
          /\ r.sent = client[c].sent
      BY <1>0, <2>0 DEF Clients, Places, Polls
    <2>2. client' = [client EXCEPT ![c] = r]
      BY <1>0, <1>9 DEF PollSleeps
    <2> HIDE DEF r
    <2> QED BY <1>4, <1>6, <2>1, <2>2
  <1> QED BY <1>5, <1>7, <1>8, <1>9
          DEF PullStep, PullPrepares, PullStarts, PollCompleted, PollFailed, PollWakes

\* What the callback streams, to whom it may concern, frames no answer.
LEMMA DownloaderAnswers ==
    ASSUME AnswersInv, ClientsInv, NEW c \in Conn, DownloaderStep(c)
    PROVE  AnswersInv'
  <1>0. UNCHANGED serverVars
    BY DEF DownloaderStep, DownloadProgress, DownloadReports, DownloadShows
  <1>1. ASSUME NEW m \in {"chunk", "success", "failure"}, CallBack(c, m) PROVE AnswersInv'
    <2>0. m \in Messages \ Framing /\ "stray" \in Messages \ Framing
      BY KnownMessages
    <2>1. \A e \in Conn : client'[e].at = client[e].at
      BY <1>1, <2>0, CallBackReaches
    <2>2. ASSUME NEW e \in Conn, client[e].at = "out" PROVE client'[e] = client[e]
      <3>1. client[e].at \notin Open
        BY <2>2 DEF Open
      <3> QED BY <1>1, <2>0, <3>1, CallBackReaches
    <2>3. ASSUME NEW e \in Conn, winsock > 0 PROVE AnswerOK(client'[e])
      <3> DEFINE x == IF e = c THEN m ELSE "stray"
      <3>1. AnswerOK(client[e]) /\ client[e] \in Clients /\ client[e].sent \in Seq(Messages)
        BY <2>3 DEF AnswersInv, ClientsInv, Clients
      <3>2. /\ client'[e] \in Clients /\ client'[e].at = client[e].at
            /\ client'[e].route = client[e].route /\ client'[e].header = client[e].header
            /\ client'[e].streaming = client[e].streaming
            /\ \/ client'[e] = client[e]
               \/ client'[e] = [client[e] EXCEPT !.sent = Sending(e, <<x>>)]
        BY <1>1, <2>0, CallBackReaches
      <3>3. x \in Messages \ Framing
        BY <2>0
      <3> HIDE DEF x
      <3>4. CASE client'[e] # client[e]
        <4>1. client'[e].sent = Append(client[e].sent, x)
          BY <2>3, <3>1, <3>2, <3>3, <3>4, SendingAppends DEF Clients
        <4>2. \A frame \in Seq(Messages) :
                 Frames(frame, client[e].sent) => Frames(frame, client'[e].sent)
          BY <3>1, <3>3, <4>1, FrameSteps
        <4> QED BY <3>1, <3>2, <4>2, QuietAnswers
      <3> QED BY <3>1, <3>4
    <2>4. (winsock > 0 => \A e \in Conn : AnswerOK(client[e]))'
      BY <1>0, <2>3 DEF serverVars, AnswerOK, Agrees, Streams, Frames
    <2> QED BY <1>0, <2>1, <2>2, <2>4 DEF AnswersInv, serverVars
  <1>2. CASE DownloadShows(c)
    <2>1. UNCHANGED <<client, winsock, loop>>
      BY <1>2 DEF DownloadShows, serverVars
    <2>2. winsock > 0 => (\A e \in Conn : AnswerOK(client[e]))'
      BY <2>1, AnswersStay DEF AnswersInv
    <2> QED BY <2>1, <2>2 DEF AnswersInv
  <1> QED BY <1>1, <1>2 DEF DownloaderStep, DownloadProgress, DownloadReports

\* Who connects finds a socket that listens; who is accepted has not been sent anything.
LEMMA ConnectAnswers ==
    ASSUME AnswersInv, ClientsInv, StopInv, NEW c \in Conn,
           NEW request \in Requests, Connect(c, request)
    PROVE  AnswersInv'
  <1> DEFINE r == [client[c] EXCEPT !.at = "waiting", !.route = request.route,
                                    !.header = request.header, !.model = request.model]
  <1>1. request \in [route : Routes, header : BOOLEAN, model : Model]
    BY ServerAssumption
  <1>2. client[c] \in Clients /\ client \in [Conn -> Clients] /\ client[c].at = "out"
    BY DEF ClientsInv, Connect
  <1>3. /\ r \in Clients /\ r.at = "waiting" /\ r.sent = client[c].sent
        /\ client' = [client EXCEPT ![c] = r] /\ UNCHANGED serverVars
    BY <1>1, <1>2 DEF Connect, Clients, Places, Before
  <1>4. loop \notin {"none", "startup"}
    BY DEF Connect, StopInv
  <1> HIDE DEF r
  <1>5. AnswerOK(r)
    BY <1>2, <1>3, NoFrame DEF AnswersInv, AnswerOK
  <1> QED BY <1>3, <1>4, <1>5, AnswerStep

LEMMA AcceptAnswers ==
    ASSUME AnswersInv, ClientsInv, NEW c \in Conn, Accept(c)
    PROVE  AnswersInv'
  <1>1. client[c] \in Clients /\ client \in [Conn -> Clients] /\ client[c].at = "waiting"
    BY DEF ClientsInv, Accept
  <1>0. PICK value \in Socket :
           client' = [client EXCEPT ![c] = [client[c] EXCEPT !.at = "recv", !.socket = value]]
    BY <1>1 DEF Accept
  <1> DEFINE r == [client[c] EXCEPT !.at = "recv", !.socket = value]
  <1>2. /\ r \in Clients /\ r.at = "recv" /\ r.sent = client[c].sent
        /\ client' = [client EXCEPT ![c] = r] /\ client'[c] = r
        /\ \A e \in Conn \ {c} : client'[e] = client[e]
    BY <1>0, <1>1 DEF Clients, Places, Before
  <1> HIDE DEF r
  <1>3. winsock > 0 => AnswerOK(r)
    BY <1>1, <1>2 DEF AnswersInv, AnswerOK
  <1>4. winsock' = winsock /\ loop' = "head"
    BY DEF Accept
  <1>5. \A e \in Conn : client'[e].at = "out" => client'[e].sent = << >>
    BY <1>2 DEF AnswersInv
  <1>6. \A e \in Conn : winsock > 0 => AnswerOK(client'[e])
    BY <1>2, <1>3 DEF AnswersInv
  <1>7. (winsock > 0 => \A e \in Conn : AnswerOK(client[e]))'
    BY <1>4, <1>6 DEF AnswerOK, Agrees, Streams, Frames
  <1> QED BY <1>4, <1>5, <1>7 DEF AnswersInv

LEMMA AnswersNext == AnswersInv /\ ClientsInv /\ StopInv /\ [Next]_vars => AnswersInv'
  <1> SUFFICES ASSUME AnswersInv, ClientsInv, StopInv, [Next]_vars PROVE AnswersInv'
    OBVIOUS
  <1>1. ASSUME UNCHANGED client, loop' \in {"none", "startup"} => loop \in {"none", "startup"},
               winsock' = winsock \/ winsock' = 0
        PROVE  AnswersInv'
    <2>1. winsock > 0 => (\A e \in Conn : AnswerOK(client[e]))'
      BY <1>1, AnswersStay DEF AnswersInv
    <2> QED BY <1>1, <2>1 DEF AnswersInv
  <1>2. CASE LoopStep
    <2>1. CASE LoopStartup
      <3>1. \A c \in Conn : client[c].at = "out" /\ client[c].sent = << >>
        BY <2>1 DEF LoopStartup, AnswersInv
      <3>2. client' = client /\ loop' \notin {"none", "startup"} /\ winsock' \in Nat
        BY <2>1 DEF LoopStartup, clientVars, AnswersInv
      <3>3. \A c \in Conn : AnswerOK(client[c])
        BY <3>1, NoFrame DEF AnswerOK
      <3>4. (\A c \in Conn : AnswerOK(client[c]))'
        BY <3>2, <3>3, AnswersStay
      <3> QED BY <3>1, <3>2, <3>4 DEF AnswersInv
    <2>2. CASE LoopBind
      BY <1>1, <2>2 DEF LoopBind, clientVars
    <2>3. CASE LoopHead
      BY <1>1, <2>3 DEF LoopHead, clientVars
    <2>4. CASE LoopClose
      BY <1>1, <2>4 DEF LoopClose, clientVars
    <2>5. CASE SelectNothing
      BY <1>1, <2>5 DEF SelectNothing, clientVars
    <2>6. ASSUME NEW c \in Conn, Accept(c) PROVE AnswersInv'
      BY <2>6, AcceptAnswers
    <2> QED BY <1>2, <2>1, <2>2, <2>3, <2>4, <2>5, <2>6 DEF LoopStep
  <1>3. CASE MainStarts
    <2>1. CASE Publish
      BY <1>1, <2>1 DEF Publish, serverVars, clientVars
    <2>2. CASE StartFlag
      BY <1>1, <2>2 DEF StartFlag, clientVars
    <2>3. CASE StartThread
      <3>1. loop \in {"none", "startup"}
        BY <2>3 DEF StartThread, StopInv
      <3> QED BY <1>1, <2>3, <3>1 DEF StartThread, clientVars
    <2>4. CASE AssignThread
      BY <1>1, <2>4 DEF AssignThread, serverVars, clientVars
    <2> QED BY <1>3, <2>1, <2>2, <2>3, <2>4 DEF MainStarts
  <1>4. CASE Signal \/ SignalTests \/ SignalEnters \/ MainStops \/ MainLeaves
    BY <1>1, <1>4 DEF Signal, SignalTests, SignalEnters, MainStops, MainLeaves, serverVars,
                      clientVars
  <1>5. ASSUME NEW s \in Stoppers, StopStep(s) PROVE AnswersInv'
    BY <1>1, <1>5 DEF StopStep, StopFlag, StopClose, StopTest, StopJoin, JoinThrows,
                      StopCleanup, serverVars, clientVars
  <1>6. ASSUME NEW c \in Conn, ClientStep(c) PROVE AnswersInv'
    <2>1. CASE Throws(c)
      BY <1>1, <2>1 DEF Throws, serverVars, clientVars
    <2> QED BY <1>6, <2>1, ReceiveAnswers, RouteAnswers, PullAnswers, EndAnswers
            DEF ClientStep, Serves
  <1>7. ASSUME NEW c \in Conn, DownloaderStep(c) PROVE AnswersInv'
    BY <1>7, DownloaderAnswers
  <1>8. ASSUME NEW c \in Conn, NEW request \in Requests, Connect(c, request)
        PROVE  AnswersInv'
    BY <1>8, ConnectAnswers
  <1>9. CASE UNCHANGED vars
    BY <1>1, <1>9 DEF vars, serverVars, clientVars
  <1> QED BY <1>2, <1>3, <1>4, <1>5, <1>6, <1>7, <1>8, <1>9 DEF Next

(* Whatever the downloader's callback and a route stream while the thread   *)
(* of a connection answers (server.cpp:247-335), however many connections   *)
(* there are, and whatever main and the handler stop meanwhile: as long as  *)
(* the sockets are there, a connection is closed after one whole answer.    *)
THEOREM ServerWholeAnswers == Spec => []WholeAnswers
  <1>1. AnswersInv => WholeAnswers
    <2>1. \A c \in Conn :
             Agrees(client[c]) <=> ~(client[c].header /\ client[c].route = "plain")
      BY DEF Agrees
    <2> QED BY <2>1 DEF AnswersInv, AnswerOK, WholeAnswers, Whole
  <1>2. Init => AnswersInv /\ ClientsInv /\ StopInv
    BY AnswersInit, ClientsInit, StopInit
  <1>3. (AnswersInv /\ ClientsInv /\ StopInv) /\ [Next]_vars
           => (AnswersInv /\ ClientsInv /\ StopInv)'
    BY AnswersNext, ClientsNext, StopNext
  <1> QED BY <1>1, <1>2, <1>3, PTL DEF Spec

=============================================================================
