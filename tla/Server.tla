------------------------------- MODULE Server -------------------------------
(***************************************************************************)
(* The server process: main, the HTTP sessions and the threads that run    *)
(* them, and the gRPC server with its WatchConfig streams.                 *)
(*                                                                         *)
(* The completion handlers of accept, read and write run on any thread     *)
(* that is in ioc.run().  Those of accept and write are short, and one     *)
(* step each; handleRequest keeps its thread until the handler returns.    *)
(* An exception that leaves a completion handler leaves ioc.run() and the  *)
(* thread, and ends the process.  The service object of the gRPC server is *)
(* destroyed when GrpcServer::start returns, so that every gRPC call may   *)
(* end the process too.                                                    *)
(*                                                                         *)
(* What handlers do to the store is the subject of other modules.          *)
(***************************************************************************)
EXTENDS Integers, HttpRouting

CONSTANTS Connections,      \* each is used once
          Streams,          \* WatchConfig calls
          Wanted,           \* connection -> the [call, body] its client may ask for
          NoRequest,        \* nothing was read yet
          Files,            \* configuration files: [opens, converts, given]
          Cores,            \* what hardware_concurrency() may return
          MaxFaults,        \* bound: failures of the system and of the store
          MaxRestarts       \* bound: restarts by the service manager

(* Clients ask for what is documented; http.threads is read as<int>().     *)
ASSUME ServerAssumption ==
    /\ \A c \in Connections : /\ NoRequest \notin Wanted[c]
                              /\ \A request \in Wanted[c] : request.call \in Documented
    /\ \A f \in Files : "http_threads" \in DOMAIN f.given => f.given.http_threads \in Int
    /\ Cores \subseteq Nat
    /\ {MaxFaults, MaxRestarts} \subseteq Nat

VARIABLES file,          \* the configuration file
          main,          \* where main is, or how it ended
          settings,      \* appConfig
          numThreads,
          threads,       \* threads in ioc.run()
          accepting,     \* an accept is outstanding
          grpcUp,        \* server_ is not null
          conn,          \* connection -> what became of it
          stream,        \* stream -> where WatchConfig is
          cancelled,     \* stream -> its client has cancelled it or left
          faults, restarts

vars == <<file, main, settings, numThreads, threads, accepting, grpcUp, conn, stream,
          cancelled, faults, restarts>>

process == <<file, settings, numThreads, threads, grpcUp, restarts>>

Ended == {"failed", "exited"}

Running == main \notin Ended

(* state: backlog (connected, not accepted), reading, handling, writing,   *)
(* answered, or gone; sent: the client has sent its request; request: what *)
(* was read (nothing depends on it before); did: the call it was routed    *)
(* to; peer: the client is there.                                          *)
Fresh == [state |-> "none", sent |-> FALSE, request |-> NoRequest,
          did |-> Call("null", <<>>), status |-> 0, code |-> 0, peer |-> TRUE]

Over(state) == [Fresh EXCEPT !.state = state]

(* The settings that decide what the process does.                         *)
Defaults == [http_port |-> 8080, http_threads |-> 0, grpc_port |-> 9090,
             backend |-> "sqlite"]

TypeOK ==
    /\ file \in Files
    /\ main \in {"parseFile", "store", "http", "spawn", "grpc", "join", "stop"} \cup Ended
    /\ DOMAIN settings = DOMAIN Defaults
    /\ {numThreads, threads, faults, restarts} \subseteq Nat
    /\ threads <= numThreads
    /\ accepting \in BOOLEAN /\ grpcUp \in BOOLEAN
    /\ \A c \in Connections :
        /\ conn[c].state \in {"none", "backlog", "reading", "handling", "writing",
                              "answered", "gone"}
        /\ conn[c].request \in Wanted[c] \cup {NoRequest}
        /\ conn[c].state \in {"handling", "writing"} <=> conn[c].request # NoRequest
    /\ Cardinality({c \in Connections : conn[c].state = "handling"}) <= threads
    /\ stream \in [Streams -> {"none", "check", "write", "sleep", "done"}]
    /\ cancelled \in [Streams -> BOOLEAN]

Init ==
    /\ file \in Files
    /\ main = "parseFile"
    /\ settings = Defaults
    /\ numThreads = 0 /\ threads = 0
    /\ accepting = FALSE /\ grpcUp = FALSE
    /\ conn = [c \in Connections |-> Fresh]
    /\ stream = [s \in Streams |-> "none"]
    /\ cancelled = [s \in Streams |-> FALSE]
    /\ faults = 0 /\ restarts = 0

-----------------------------------------------------------------------------
(* The end of the process closes its sockets and ends its streams.         *)
End(how) ==
    /\ main' = how
    /\ threads' = 0
    /\ accepting' = FALSE
    /\ grpcUp' = FALSE
    /\ conn' = [c \in Connections |->
                   IF conn[c].state \in {"backlog", "reading", "handling", "writing"}
                   THEN Over("gone") ELSE conn[c]]
    /\ stream' = [s \in Streams |-> IF stream[s] = "none" THEN "none" ELSE "done"]
    /\ UNCHANGED <<file, settings, numThreads, cancelled, restarts>>

terminate == End("failed")

(* Something outside the server fails: a port is taken, a call of the      *)
(* system or a statement of the store.                                     *)
Fault ==
    /\ faults < MaxFaults
    /\ faults' = faults + 1

(* parseString: a section or a setting that is not there keeps its         *)
(* default; a value that does not convert throws.                          *)
parseString(f) ==
    [key \in DOMAIN Defaults |-> IF key \in DOMAIN f.given THEN f.given[key] ELSE Defaults[key]]

parseFile ==
    /\ main = "parseFile"
    /\ \/ /\ file.opens /\ file.converts
          /\ settings' = parseString(file)
          /\ main' = "store"
          /\ UNCHANGED <<file, numThreads, threads, accepting, grpcUp, conn, stream, cancelled,
                         restarts>>
       \/ ~(file.opens /\ file.converts) /\ terminate
    /\ UNCHANGED faults

(* The SQLite store is initialized; there is no other.                     *)
openStore ==
    /\ main = "store"
    /\ \/ /\ settings.backend = "sqlite"
          /\ main' = "http"
          /\ UNCHANGED <<process, accepting, conn, stream, cancelled, faults>>
       \/ settings.backend = "sqlite" /\ Fault /\ terminate
       \/ settings.backend # "sqlite" /\ terminate /\ UNCHANGED faults

NumThreads(cores) ==
    IF settings.http_threads > 0 THEN settings.http_threads ELSE cores

(* The constructor of HttpServer listens, or throws; start accepts.        *)
startHttp ==
    /\ main = "http"
    /\ \/ /\ accepting' = TRUE
          /\ \E cores \in Cores : numThreads' = NumThreads(cores)
          /\ main' = "spawn"
          /\ UNCHANGED <<file, settings, threads, grpcUp, restarts, conn, stream, cancelled,
                         faults>>
       \/ Fault /\ terminate

SpawnsOneMore ==                                              \* mistaken
    /\ main = "spawn"
    /\ \/ threads <= numThreads /\ threads' = threads + 1 /\ UNCHANGED main
       \/ threads > numThreads /\ main' = "grpc" /\ UNCHANGED threads
    /\ UNCHANGED <<file, settings, numThreads, accepting, grpcUp, conn, stream, cancelled,
                   faults, restarts>>

spawn ==
    /\ main = "spawn"
    /\ \/ threads < numThreads /\ threads' = threads + 1 /\ UNCHANGED main
       \/ threads = numThreads /\ main' = "grpc" /\ UNCHANGED threads
    /\ UNCHANGED <<file, settings, numThreads, accepting, grpcUp, conn, stream, cancelled,
                   faults, restarts>>

(* GrpcServer::start: without its port BuildAndStart returns null, and     *)
(* main goes on.                                                           *)
startGrpc ==
    /\ main = "grpc"
    /\ main' = "join"
    /\ \/ settings.grpc_port # settings.http_port /\ grpcUp' = TRUE /\ UNCHANGED faults
       \/ settings.grpc_port = settings.http_port /\ grpcUp' = FALSE /\ UNCHANGED faults
       \/ Fault /\ grpcUp' = FALSE
    /\ UNCHANGED <<file, settings, numThreads, threads, accepting, conn, stream, cancelled,
                   restarts>>

(* ioc.run() returns when nothing is outstanding.                          *)
OutOfWork == ~accepting /\ \A c \in Connections : conn[c].state \notin {"reading", "writing"}

join ==
    /\ main = "join"
    /\ threads = 0 \/ OutOfWork
    /\ main' = "stop"
    /\ UNCHANGED <<process, accepting, conn, stream, cancelled, faults>>

(* Shutdown lets no call in, and waits for the calls in progress.          *)
stopGrpc ==
    /\ main = "stop"
    /\ grpcUp => \A s \in Streams : stream[s] \in {"none", "done"}
    /\ End("exited")
    /\ UNCHANGED faults

(* Restart=on-failure                                                      *)
restart ==
    /\ main = "failed"
    /\ restarts < MaxRestarts
    /\ restarts' = restarts + 1
    /\ main' = "parseFile"
    /\ settings' = Defaults
    /\ numThreads' = 0
    /\ UNCHANGED <<file, threads, accepting, grpcUp, conn, stream, cancelled, faults>>
-----------------------------------------------------------------------------
(* Clients connect while the port is open, send, and may leave.            *)
Listening == main \in {"spawn", "grpc", "join", "stop"}

UnchangedButConn == UNCHANGED <<process, main, accepting, stream, cancelled, faults>>

connect(c) ==
    /\ Listening
    /\ conn[c].state = "none"
    /\ conn' = [conn EXCEPT ![c].state = "backlog"]
    /\ UnchangedButConn

send(c) ==
    /\ conn[c].state \in {"backlog", "reading"}
    /\ conn[c].peer
    /\ ~conn[c].sent
    /\ conn' = [conn EXCEPT ![c].sent = TRUE]
    /\ UnchangedButConn

leave(c) ==
    /\ conn[c].state \in {"backlog", "reading", "handling", "writing"}
    /\ conn[c].peer
    /\ conn' = [conn EXCEPT ![c].peer = FALSE]
    /\ UnchangedButConn

-----------------------------------------------------------------------------
(* A thread that is in ioc.run() and runs no handler.                      *)
FreeThread ==
    Cardinality({c \in Connections : conn[c].state = "handling"}) < threads

(* doAccept: the handler starts a session, unless the accept failed (the   *)
(* client has left, or the system is out of something and the connection   *)
(* waits on), and accepts again in either case.                            *)
StopsOnError(c) ==                                            \* mistaken
    /\ FreeThread /\ accepting
    /\ conn[c].state = "backlog"
    /\ \/ conn' = [conn EXCEPT ![c].state = "reading"] /\ UNCHANGED <<accepting, faults>>
       \/ Fault /\ accepting' = FALSE /\ UNCHANGED conn
    /\ UNCHANGED <<process, main, stream, cancelled>>

doAccept(c) ==
    /\ FreeThread /\ accepting
    /\ conn[c].state = "backlog"
    /\ \/ conn' = [conn EXCEPT ![c].state = "reading"] /\ UNCHANGED faults
       \/ ~conn[c].peer /\ conn' = [conn EXCEPT ![c] = Over("gone")] /\ UNCHANGED faults
       \/ Fault /\ UNCHANGED conn
    /\ accepting' = TRUE
    /\ UNCHANGED <<process, main, stream, cancelled>>

(* readRequest: the request goes to handleRequest; a failed read ends the  *)
(* session.                                                                *)
readRequest(c) ==
    /\ FreeThread
    /\ conn[c].state = "reading"
    /\ \/ /\ conn[c].sent
          /\ \E request \in Wanted[c] :
                conn' = [conn EXCEPT ![c] = [@ EXCEPT !.state = "handling", !.request = request]]
       \/ /\ ~conn[c].peer
          /\ conn' = [conn EXCEPT ![c] = Over("gone")]
    /\ UnchangedButConn

(* The handler, and the names, that the target of a client leads to.       *)
Asked == {request.call : request \in UNION {Wanted[c] : c \in Connections}}

routed == [call \in Asked |->
              LET request == DocumentedRequest(call)
              IN  route(request.method, request.target)]

(* handleRequest and sendResponse: the handler answers or throws, also     *)
(* because the store does.                                                 *)
handleRequest(c) ==
    LET body == conn[c].request.body
        call == routed[conn[c].request.call]
    IN  /\ conn[c].state = "handling"
        /\ \/ /\ ~Throws(call.op, body)
              /\ \E code \in Answers(call.op, body) :
                     conn' = [conn EXCEPT ![c] = [@ EXCEPT !.state = "writing", !.did = call,
                                                           !.status = Status(call.op),
                                                           !.code = code]]
              /\ UnchangedButConn
           \/ Throws(call.op, body) /\ terminate /\ UNCHANGED faults
           \/ Fault /\ terminate

(* The write is complete, or has failed; the session ends.                 *)
written(c) ==
    /\ FreeThread
    /\ conn[c].state = "writing"
    /\ \/ conn[c].peer /\ conn' = [conn EXCEPT ![c] = Over("answered")]
       \/ ~conn[c].peer /\ conn' = [conn EXCEPT ![c] = Over("gone")]
    /\ UnchangedButConn

-----------------------------------------------------------------------------
UnchangedButStream == UNCHANGED <<process, main, accepting, conn, faults>>

(* WatchConfig is called, through the destroyed service.                   *)
AdmitsAlways(s) ==                                            \* mistaken
    /\ grpcUp
    /\ stream[s] = "none"
    /\ stream' = [stream EXCEPT ![s] = "check"]
    /\ UNCHANGED cancelled
    /\ UnchangedButStream

WatchConfig(s) ==
    /\ grpcUp
    /\ main # "stop"
    /\ stream[s] = "none"
    /\ \/ /\ stream' = [stream EXCEPT ![s] = "check"]
          /\ UNCHANGED cancelled
          /\ UnchangedButStream
       \/ terminate /\ UNCHANGED faults

cancel(s) ==
    /\ stream[s] \in {"check", "write", "sleep"}
    /\ cancelled' = [cancelled EXCEPT ![s] = TRUE]
    /\ UNCHANGED stream
    /\ UnchangedButStream

(* Its loop: IsCancelled, Write (which may fail once the client is gone),  *)
(* and thirty seconds of sleep.                                            *)
watchLoop(s) ==
    /\ \/ /\ stream[s] = "check"
          /\ stream' = [stream EXCEPT ![s] = IF cancelled[s] THEN "done" ELSE "write"]
       \/ stream[s] = "write" /\ stream' = [stream EXCEPT ![s] = "sleep"]
       \/ stream[s] = "write" /\ cancelled[s] /\ stream' = [stream EXCEPT ![s] = "done"]
       \/ stream[s] = "sleep" /\ stream' = [stream EXCEPT ![s] = "check"]
    /\ UNCHANGED cancelled
    /\ UnchangedButStream

-----------------------------------------------------------------------------
Main == parseFile \/ openStore \/ startHttp \/ spawn \/ startGrpc \/ join \/ stopGrpc

Session(c) == doAccept(c) \/ readRequest(c) \/ handleRequest(c) \/ written(c)

Client(c) == connect(c) \/ send(c) \/ leave(c)

(* Nothing is in progress: the server waits for clients, or has ended.     *)
Quiet ==
    /\ main \in {"join", "stop"} \cup Ended
    /\ threads > 0 => \A c \in Connections : conn[c].state \in {"none", "answered", "gone"}
    /\ UNCHANGED vars

Next ==
    \/ Main \/ restart
    \/ \E c \in Connections : Session(c) \/ Client(c)
    \/ \E s \in Streams : WatchConfig(s) \/ cancel(s) \/ watchLoop(s)
    \/ Quiet

Spec == Init /\ [][Next]_vars

FairSpec ==
    /\ Spec
    /\ WF_vars(Main)
    /\ \A c \in Connections : WF_vars(Session(c))
    /\ \A s \in Streams : WF_vars(watchLoop(s))

-----------------------------------------------------------------------------
(* A documented request is routed to the documented handler with the names *)
(* the client gave, whatever the key is called, though routes are told     *)
(* apart by words anywhere in the target.  (The exceptions: applications   *)
(* and namespaces with a segment that begins with the word of a route, and *)
(* the long poll, whose query string makes its target unknown.)            *)
RoutedAsDocumented ==
    \A c \in Connections :
        /\ conn[c].state = "writing"
        /\ conn[c].request.call.op # "longPoll"
        /\ PlainNames(conn[c].request.call)
        => conn[c].did = conn[c].request.call

(* A request that was sent is answered, unless its client leaves or the    *)
(* process ends: not the slowest client, nor a failed accept or read, nor  *)
(* a request that occupies another thread keeps it from being served.      *)
(* (There may be no thread: hardware_concurrency() may return 0.)          *)
Sent(c) == conn[c].state \in {"backlog", "reading"} /\ conn[c].sent

RequestsAnswered ==
    \A c \in Connections :
        Sent(c) ~> (conn[c].state \in {"answered", "gone"} \/ main = "stop")

(* A server that stops comes to an end once the clients of its streams     *)
(* have cancelled them: GrpcServer::stop waits for the loops of WatchConfig *)
(* to notice, and no new call takes their place.                           *)
StopCompletes ==
    main = "stop" /\ (\A s \in Streams : stream[s] \in {"check", "write", "sleep"} => cancelled[s])
        ~> main = "exited"

(* "HTTP status codes: `400` ... `404` ... `409` ... `500`": an error with *)
(* one of these codes in its body has it as its status.                    *)
ErrorStatus ==
    \A c \in Connections :
        conn[c].state = "writing" /\ conn[c].code \in {400, 404, 409, 500} =>
            conn[c].status = conn[c].code
=============================================================================
