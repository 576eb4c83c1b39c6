---------------------------- MODULE ServiceServer ----------------------------
(***************************************************************************)
(* A provider's listener and its pool of threads (servicelistener.cpp),    *)
(* the skeleton that serves a connection (serviceskeleton.cpp) and the     *)
(* stub at the other end (servicestub.cpp).  What the bytes of a message   *)
(* become is Framing's; here a request is a header and then arguments, and *)
(* the service it names answers well or badly.                             *)
(*                                                                         *)
(* A peer may close its end in order, which a killed program's kernel does *)
(* too, or the network may reset the connection.  After a reset            *)
(* remote_endpoint() throws, and the skeleton calls it outside of any try: *)
(* the exception leaves the handler and the thread, and terminates the     *)
(* provider.                                                               *)
(***************************************************************************)
EXTENDS Integers, FiniteSets

CONSTANTS
    Clients,   \* programs that call services, each over one connection at a time
    Services,  \* the services a provider may have installed
    None

VARIABLES
    threads,    \* how many threads its pool has
    process,    \* the provider's process: "none", "alive", "dead" (killed), or how main returned
    installed,  \* the services in its factory of skeletons
    server,     \* its listener: "off", "running" or "stopped"
    signalled,  \* whether a signal waits for handleStop
    accepting,  \* whether an accept is pending
    conn        \* client -> its connection, seen from both ends

provider == <<threads, process, installed, server, signalled, accepting>>
serverVars == <<provider, conn>>

(***************************************************************************)
(* A connection is                                                         *)
(*   stage    where the server is with it,                                 *)
(*   peer     whether its other end is "there", "gone" or "reset",         *)
(*   sent     how much of the request the stub has written,                *)
(*   service  the service that is called,                                  *)
(*   answer   the response that was written whole,                         *)
(*   runs     how often the service was invoked for it.                    *)
(***************************************************************************)
Free == [stage |-> "free", peer |-> "gone", sent |-> "nothing", service |-> None,
         answer |-> "none", runs |-> 0]

Stages == {"free", "backlog", "header", "payload", "invoking", "writing", "written", "closed"}
Answers == {"none", "ok", "failed", "unavailable"}

Connections ==
    [stage : Stages, peer : {"there", "gone", "reset"}, sent : {"nothing", "header", "all"},
     service : Services \cup {None}, answer : Answers, runs : Nat]

ServerTypeOK ==
    /\ threads \in Nat \ {0}
    /\ process \in {"none", "alive", "dead", "success", "failure"}
    /\ installed \subseteq Services
    /\ server \in {"off", "running", "stopped"}
    /\ signalled \in BOOLEAN
    /\ accepting \in BOOLEAN
    /\ conn \in [Clients -> Connections]

ServerInit ==
    /\ process = "none"
    /\ installed = {}
    /\ server = "off"
    /\ signalled = FALSE
    /\ accepting = FALSE
    /\ conn = [cl \in Clients |-> Free]

-----------------------------------------------------------------------------
(* The process.                                                            *)

\* The kernel closes what a listener or a process leaves open.
CloseAll ==
    conn' = [cl \in Clients |-> IF conn[cl].peer = "there"
                                THEN [conn[cl] EXCEPT !.stage = "closed"] ELSE Free]

Leave(how) ==
    /\ process' = how
    /\ installed' = {}
    /\ server' = "off"
    /\ signalled' = FALSE
    /\ accepting' = FALSE
    /\ CloseAll
    /\ UNCHANGED threads

\* An exception leaves io_service::run: std::terminate.
Terminate == Leave("dead")

\* The constructor: signals, bind, listen, the first startAccept.
Listen ==
    /\ server = "off"
    /\ server' = "running"
    /\ accepting' = TRUE
    /\ UNCHANGED <<threads, process, installed, signalled, conn>>

\* A thread of the pool is free: only the invocation of a service takes time.
Busy == {cl \in Clients : conn[cl].stage = "invoking"}
ThreadFree == server = "running" /\ Cardinality(Busy) < threads

\* Mutant of HandleStop: the listener stops accepting, the io_service goes on.
StopAccepting ==
    /\ signalled
    /\ ThreadFree
    /\ accepting' = FALSE
    /\ UNCHANGED <<threads, process, installed, server, signalled, conn>>

HandleStop ==
    /\ signalled
    /\ ThreadFree
    /\ server' = "stopped"
    /\ UNCHANGED <<threads, process, installed, signalled, accepting, conn>>

\* What closing the listener does: the signals are no longer caught either.
Closed ==
    /\ server' = "off"
    /\ signalled' = FALSE
    /\ accepting' = FALSE
    /\ CloseAll
    /\ UNCHANGED <<threads, process, installed>>

\* Mutant of Close: run() does not wait for the threads.
CloseAtOnce == server = "stopped" /\ Closed

\* run() has joined the threads and the listener is destroyed.
Close ==
    /\ server = "stopped"
    /\ Busy = {}
    /\ Closed

-----------------------------------------------------------------------------
(* The stub.  submit() connects, writes, and waits for the response; when  *)
(* it returns or throws the socket is closed.                              *)

Becomes(cl, c) ==
    conn' = [conn EXCEPT ![cl] = IF c.stage = "closed" /\ c.peer # "there" THEN Free ELSE c]

\* Connections are accepted by the kernel until the listener is destroyed.
Connect(cl, s) ==
    /\ conn[cl] = Free
    /\ server # "off"
    /\ conn' = [conn EXCEPT ![cl] =
                  [Free EXCEPT !.stage = "backlog", !.peer = "there", !.service = s]]
    /\ UNCHANGED provider

Send(cl) ==
    /\ conn[cl].peer = "there"
    /\ conn[cl].sent # "all"
    /\ Becomes(cl, [conn[cl] EXCEPT !.sent = IF @ = "nothing" THEN "header" ELSE "all"])
    /\ UNCHANGED provider

Hangup(cl, how) ==
    /\ conn[cl].peer = "there"
    /\ Becomes(cl, [conn[cl] EXCEPT !.peer = how])
    /\ UNCHANGED provider

Receive(cl) ==
    /\ conn[cl].sent = "all"
    /\ conn[cl].answer # "none"
    /\ Hangup(cl, "gone")

\* The connection was closed without a response, or before the stub had written
\* the request that the response does not wait for: the write fails.
LoseConnection(cl) ==
    /\ conn[cl].stage = "closed"
    /\ conn[cl].answer = "none" \/ conn[cl].sent # "all"
    /\ Hangup(cl, "gone")

-----------------------------------------------------------------------------
(* The handlers.  Each logs the peer's address before anything else.       *)

\* Mutant of HandleAccept: the next accept is forgotten.
HandleAcceptOnce(cl) ==
    /\ conn[cl].stage = "backlog"
    /\ accepting
    /\ ThreadFree
    /\ accepting' = FALSE
    /\ Becomes(cl, [conn[cl] EXCEPT !.stage = "header"])
    /\ UNCHANGED <<threads, process, installed, server, signalled>>

\* ServiceSkeleton::start, and startAccept when it returns.
HandleAccept(cl) ==
    /\ conn[cl].stage = "backlog"
    /\ accepting
    /\ ThreadFree
    /\ IF conn[cl].peer = "reset" THEN Terminate
       ELSE /\ Becomes(cl, [conn[cl] EXCEPT !.stage = "header"])
            /\ UNCHANGED provider

Answered(cl, a) == Becomes(cl, [conn[cl] EXCEPT !.stage = "written", !.answer = a])

\* The read ended: with the header, or with an error, which is answered too.
OnHeaderReceived(cl) ==
    /\ conn[cl].stage = "header"
    /\ conn[cl].sent # "nothing" \/ conn[cl].peer # "there"
    /\ ThreadFree
    /\ IF conn[cl].peer = "reset" THEN Terminate
       ELSE /\ CASE conn[cl].sent = "nothing" -> Answered(cl, "failed")
                 [] conn[cl].service \notin installed -> Answered(cl, "unavailable")
                 [] OTHER -> Becomes(cl, [conn[cl] EXCEPT !.stage = "payload"])
            /\ UNCHANGED provider

OnPayloadReceived(cl) ==
    /\ conn[cl].stage = "payload"
    /\ conn[cl].sent = "all" \/ conn[cl].peer # "there"
    /\ ThreadFree
    /\ IF conn[cl].peer = "reset" THEN Terminate
       ELSE /\ IF conn[cl].sent # "all" THEN Answered(cl, "failed")
               ELSE Becomes(cl, [conn[cl] EXCEPT !.stage = "invoking", !.runs = @ + 1])
            /\ UNCHANGED provider

\* Mutant of Invoked: a response that cannot be sent has the service run again.
InvokedAgain(cl) ==
    /\ conn[cl].stage = "invoking"
    /\ server # "off"
    /\ \/ Answered(cl, "ok")
       \/ Becomes(cl, [conn[cl] EXCEPT !.runs = @ + 1])
    /\ UNCHANGED provider

\* The service returns a response, of which the socket takes the whole or a part
\* at once; or it throws, returns no response, or one without its arguments,
\* all of which is answered by a failure.
Invoked(cl) ==
    /\ conn[cl].stage = "invoking"
    /\ server # "off"
    /\ IF conn[cl].peer = "reset" THEN Terminate
       ELSE /\ \/ Answered(cl, "ok")
               \/ Becomes(cl, [conn[cl] EXCEPT !.stage = "writing"])
               \/ Answered(cl, "failed")
            /\ UNCHANGED provider

\* The rest of a large response; what nobody reads any more is dropped.
WriteRest(cl) ==
    /\ conn[cl].stage = "writing"
    /\ ThreadFree
    /\ IF conn[cl].peer = "there" THEN Answered(cl, "ok")
       ELSE Becomes(cl, [conn[cl] EXCEPT !.stage = "closed"])
    /\ UNCHANGED provider

OnWriteResponse(cl) ==
    /\ conn[cl].stage = "written"
    /\ ThreadFree
    /\ Becomes(cl, [conn[cl] EXCEPT !.stage = "closed"])
    /\ UNCHANGED provider

Handler(cl) ==
    \/ HandleAccept(cl) \/ OnHeaderReceived(cl) \/ OnPayloadReceived(cl)
    \/ WriteRest(cl) \/ OnWriteResponse(cl)
=============================================================================
