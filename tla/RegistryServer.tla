--------------------------- MODULE RegistryServer ---------------------------
(***************************************************************************)
(* The registry on the network: the listener and its pool of threads       *)
(* (registrylistener.cpp), a handler per connection (clienthandler.cpp)    *)
(* and the programs at the other end, which call it through the proxy      *)
(* (registry.cpp) or by the protocol of the README.  Behind the handlers   *)
(* is the abstract registry of RegistrySpec, which RegistryImpl refines.   *)
(*                                                                         *)
(* Programs may be killed in the middle of a call and started again, and   *)
(* the registry may be told to stop by a signal, once.                     *)
(***************************************************************************)
EXTENDS IRegistry

CONSTANTS
    Peers,        \* the programs that call the registry over the network
    Connections,  \* as many as there are at one time
    Asked,        \* peer -> the calls it makes, each for its own address
    Received,     \* what the registry reads of the text of a signature
    None

\* What SignatureWire shows of the way of a signature.
ASSUME ReceivedAssumption ==
    /\ Received \in [Signatures -> Signatures]
    /\ \A s \in Signatures : s.valid => Received[s] = s
    /\ \A s \in Signatures : Received[s] # AnySignature

\* The calls of the proxy (registry.cpp) and a request that is none.
Asks ==
    [op : {"getProvider"}, signature : Signatures]
        \cup [op : {"registerService", "deregisterService"},
              signature : Signatures, provider : Providers]
        \cup [op : {"deregisterProvider"}, provider : Providers]
        \cup [op : {"garbage"}]

\* A program calls for the address it listens on, which no other can have bound.
ASSUME AskedAssumption ==
    /\ Asked \in [Peers -> SUBSET Asks]
    /\ \A p, q \in Peers : p # q =>
          \A a \in Asked[p], b \in Asked[q] :
             a.op \notin {"getProvider", "garbage"} /\ b.op \notin {"getProvider", "garbage"} =>
                a.provider # b.provider

ASSUME NoneAssumption == None \notin Peers

VARIABLES
    table, call, result,  \* the registry, called by the threads of the pool
    server,     \* "running", "stopped" (by handleStop) or "down"
    signalled,  \* whether SIGINT, SIGTERM or SIGQUIT was sent
    accepting,  \* whether an accept is pending
    backlog,    \* connections that wait to be accepted, in order
    task,       \* thread -> the handler it runs and its connection
    conn,       \* connection -> its state on both sides
    asks,       \* peer -> the call it is in, or was in last
    link,       \* peer -> its connection
    outcome,    \* peer -> how its call ended, "pending" while it is in one
    disturbed   \* peers that called while the server still held an earlier
                \* request of theirs, from before they were killed

registry == <<table, call, result>>
listener == <<server, signalled, accepting, backlog, task>>
peers == <<asks, link, outcome, disturbed>>
vars == <<registry, listener, conn, peers>>

Registry == INSTANCE RegistrySpec

-----------------------------------------------------------------------------
(* Messages: the fields of their YAML documents.                           *)

Registration(s, p, deregister) ==
    [type |-> "registration-request", signature |-> s, provider |-> p, deregister |-> deregister]
ServiceRequest(s) == [type |-> "service-request", signature |-> s]
Malformed == [type |-> "malformed"]

Response(kind, successful) == [type |-> kind, successful |-> successful]
ErrorMessage == Response("error", FALSE)

\* What a program sends: the first four calls are the proxy's, the last is what
\* a program that does not use the proxy may send.
Message(c) ==
    CASE c.op = "getProvider" -> ServiceRequest(c.signature)
      [] c.op = "registerService" -> Registration(c.signature, c.provider, FALSE)
      [] c.op = "deregisterService" -> Registration(c.signature, c.provider, TRUE)
      [] c.op = "deregisterProvider" -> Registration(AnySignature, c.provider, FALSE)
      [] c.op = "garbage" -> Malformed

\* What the registry is asked to do by a message, by fromYaml and the dispatch
\* of generateResponse.
CallOf(m) ==
    IF m.type = "service-request"
    THEN [op |-> "lookup", signature |-> Received[m.signature]]
    ELSE [op |-> IF m.deregister THEN "deregister" ELSE "register",
          signature |-> Received[m.signature], provider |-> m.provider]

\* Mutants of Answer: a response has the type of the request; an exception of
\* the registry is answered by OK as well.
AnswerMistyped(m, r) == Response(m.type, r.outcome = "returns")
AnswerAlwaysOk(m, r) ==
    IF m.type = "service-request"
    THEN Response("service-response", r.outcome = "returns" /\ r.value = 1)
    ELSE Response("registration-response", TRUE)

\* A (de)registration is answered by OK whatever bool it returned.
Answer(m, r) ==
    IF m.type = "service-request"
    THEN Response("service-response", r.outcome = "returns" /\ r.value = 1)
    ELSE Response("registration-response", r.outcome = "returns")

Silence == [type |-> "none"]
Answers == [type : {"service-response", "registration-response", "error"}, successful : BOOLEAN]
AllAsked == UNION {Asked[p] : p \in Peers}
Messages == {Message(a) : a \in AllAsked}

(***************************************************************************)
(* A connection is                                                         *)
(*   stage    where the server is with it: "free" when there is none,      *)
(*            "backlog", "accepted", "reading", "handling", "written", and *)
(*            "closed" at this end;                                        *)
(*   from     the program at the other end;                                *)
(*   there    whether that program still has its end open;                 *)
(*   request  what was sent, answer what was written back;                 *)
(*   applied  whether the registry has carried the request out.            *)
(***************************************************************************)
Free == [stage |-> "free", from |-> None, there |-> FALSE,
         request |-> Silence, answer |-> Silence, applied |-> FALSE]

Stages == {"free", "backlog", "accepted", "reading", "handling", "written", "closed"}

Idle == [handler |-> "none", of |-> None]

TypeOK ==
    /\ Registry!TypeOK
    /\ server \in {"running", "stopped", "down"}
    /\ signalled \in BOOLEAN
    /\ accepting \in BOOLEAN
    /\ backlog \in Seq(Connections)
    /\ task \in [Threads -> [handler : {"none", "accept", "next", "read", "respond"},
                             of : Connections \cup {None}]]
    /\ conn \in [Connections ->
          [stage : Stages, from : Peers \cup {None}, there : BOOLEAN,
           request : Messages \cup {Silence}, answer : Answers \cup {Silence},
           applied : BOOLEAN]]
    /\ asks \in [Peers -> AllAsked \cup {None}]
    /\ link \in [Peers -> Connections \cup {None}]
    /\ outcome \in [Peers -> {"none", "pending", "returned", "threw", "lost", "killed"}]
    /\ disturbed \subseteq Peers

\* The constructor of the listener has made the first startAccept.
Init ==
    /\ Registry!Init
    /\ server = "running"
    /\ signalled = FALSE
    /\ accepting = TRUE
    /\ backlog = <<>>
    /\ task = [t \in Threads |-> Idle]
    /\ conn = [c \in Connections |-> Free]
    /\ asks = [p \in Peers |-> None]
    /\ link = [p \in Peers |-> None]
    /\ outcome = [p \in Peers |-> "none"]
    /\ disturbed = {}

-----------------------------------------------------------------------------
(* The programs.                                                           *)

\* A connection with neither end left is no connection.
Release(c, left) == conn' = [conn EXCEPT ![c] =
                               IF left.stage = "closed" /\ ~left.there THEN Free ELSE left]

Ends(p, how) == outcome' = [outcome EXCEPT ![p] = how]

\* Registry::submit connects first.  Nobody listens when the process is gone.
Connect(p) ==
    /\ outcome[p] # "pending"
    /\ \E a \in Asked[p] : asks' = [asks EXCEPT ![p] = a]
    /\ IF server = "down"
       THEN Ends(p, "lost") /\ UNCHANGED <<conn, link, backlog, disturbed>>
       ELSE \E c \in Connections :
              /\ conn[c].stage = "free"
              /\ conn' = [conn EXCEPT ![c] =
                            [Free EXCEPT !.stage = "backlog", !.from = p, !.there = TRUE]]
              /\ link' = [link EXCEPT ![p] = c]
              /\ backlog' = Append(backlog, c)
              /\ Ends(p, "pending")
              /\ disturbed' = IF \E d \in Connections : conn[d].from = p
                              THEN disturbed \cup {p} ELSE disturbed \ {p}
    /\ UNCHANGED <<registry, server, signalled, accepting, task>>

Write(p) ==
    /\ outcome[p] = "pending"
    /\ conn[link[p]].request = Silence
    /\ conn[link[p]].stage # "closed"
    /\ conn' = [conn EXCEPT ![link[p]].request = Message(asks[p])]
    /\ UNCHANGED <<registry, listener, peers>>

Hangup(p, how) ==
    /\ Ends(p, how)
    /\ link' = [link EXCEPT ![p] = None]
    /\ Release(link[p], [conn[link[p]] EXCEPT !.there = FALSE])

\* The call returns, or throws what the answer says.
Receive(p) ==
    /\ outcome[p] = "pending"
    /\ conn[link[p]].answer # Silence
    /\ Hangup(p, IF conn[link[p]].answer.successful THEN "returned" ELSE "threw")
    /\ UNCHANGED <<registry, listener, asks, disturbed>>

\* boost::system::system_error: the connection was closed without an answer.
LoseConnection(p) ==
    /\ outcome[p] = "pending"
    /\ conn[link[p]].stage = "closed"
    /\ conn[link[p]].answer = Silence
    /\ Hangup(p, "lost")
    /\ UNCHANGED <<registry, listener, asks, disturbed>>

\* The program is killed, and may be started again.
Killed(p) ==
    /\ outcome[p] = "pending"
    /\ Hangup(p, "killed")
    /\ UNCHANGED <<registry, listener, asks, disturbed>>

-----------------------------------------------------------------------------
(* The listener.  A thread that runs no handler takes the next one, unless *)
(* the io_service was stopped.                                             *)

Takes(t, handler, c) ==
    /\ server = "running"
    /\ task[t] = Idle
    /\ task' = [task EXCEPT ![t] = [handler |-> handler, of |-> c]]

Finished(t) == task' = [task EXCEPT ![t] = Idle]

\* handleAccept without an error runs start() and then startAccept().
HandleAccept(t) ==
    /\ accepting
    /\ backlog # <<>>
    /\ Takes(t, "accept", Head(backlog))
    /\ accepting' = FALSE
    /\ backlog' = Tail(backlog)
    /\ conn' = [conn EXCEPT ![Head(backlog)].stage = "accepted"]
    /\ UNCHANGED <<registry, server, signalled, peers>>

\* With an error (there is no descriptor left, for example) only startAccept().
HandleAcceptError(t) ==
    /\ accepting
    /\ backlog # <<>>
    /\ Takes(t, "next", None)
    /\ accepting' = FALSE
    /\ UNCHANGED <<registry, server, signalled, backlog, conn, peers>>

Start(t) ==
    /\ task[t].handler = "accept"
    /\ task' = [task EXCEPT ![t] = [handler |-> "next", of |-> None]]
    /\ conn' = [conn EXCEPT ![task[t].of].stage = "reading"]
    /\ UNCHANGED <<registry, server, signalled, accepting, backlog, peers>>

\* Mutant of StartAccept: the next accept is forgotten.
StartNothing(t) ==
    /\ task[t].handler = "next"
    /\ Finished(t)
    /\ UNCHANGED <<registry, server, signalled, accepting, backlog, conn, peers>>

StartAccept(t) ==
    /\ task[t].handler = "next"
    /\ Finished(t)
    /\ accepting' = TRUE
    /\ UNCHANGED <<registry, server, signalled, backlog, conn, peers>>

Signal ==
    /\ ~signalled
    /\ signalled' = TRUE
    /\ UNCHANGED <<registry, server, accepting, backlog, task, conn, peers>>

\* Mutant of HandleStop: the listener only stops accepting.
HandleStopAccepting(t) ==
    /\ signalled
    /\ server = "running"
    /\ task[t] = Idle
    /\ accepting' = FALSE
    /\ UNCHANGED <<registry, server, signalled, backlog, task, conn, peers>>

\* The io_service is stopped: handlers that run go on, no other is started.
HandleStop(t) ==
    /\ signalled
    /\ server = "running"
    /\ task[t] = Idle
    /\ server' = "stopped"
    /\ UNCHANGED <<registry, signalled, accepting, backlog, task, conn, peers>>

\* Closes what is left of the server's ends of all connections.
AllClosed ==
    /\ server' = "down"
    /\ accepting' = FALSE
    /\ backlog' = <<>>
    /\ task' = [t \in Threads |-> Idle]
    /\ conn' = [c \in Connections |->
                  IF conn[c].there THEN [conn[c] EXCEPT !.stage = "closed"] ELSE Free]
    /\ UNCHANGED <<registry, signalled, peers>>

\* Mutant of Exit: run() does not wait for the threads.
ExitAtOnce == server = "stopped" /\ AllClosed

\* run() returns when all threads have left io_service::run(), and main ends.
Exit ==
    /\ server = "stopped"
    /\ \A t \in Threads : task[t] = Idle
    /\ AllClosed

-----------------------------------------------------------------------------
(* The handler of a connection.                                            *)

\* The peer has gone before the end of its request: the handler goes too.
HandleReadError(t, c) ==
    /\ conn[c].stage = "reading"
    /\ conn[c].request = Silence
    /\ ~conn[c].there
    /\ server = "running"
    /\ task[t] = Idle
    /\ Release(c, [conn[c] EXCEPT !.stage = "closed"])
    /\ UNCHANGED <<registry, listener, peers>>

\* A request has arrived whole.
HandleRead(t, c) ==
    /\ conn[c].stage = "reading"
    /\ conn[c].request # Silence
    /\ LET m == conn[c].request
       IN  IF m = Malformed
           THEN Takes(t, "respond", c) /\ UNCHANGED registry
           ELSE /\ Takes(t, "read", c)
                /\ Registry!Request(t)
                /\ call'[t] = CallOf(m)
    /\ conn' = [conn EXCEPT ![c].stage = "handling"]
    /\ UNCHANGED <<server, signalled, accepting, backlog, peers>>

\* The registry carries the request out.
Perform(t) ==
    /\ task[t].handler = "read"
    /\ Registry!Perform(t)
    /\ conn' = [conn EXCEPT ![task[t].of].applied = TRUE]
    /\ task' = [task EXCEPT ![t].handler = "respond"]
    /\ UNCHANGED <<server, signalled, accepting, backlog, peers>>

\* async_write sends what the socket takes at once, which is all of it.
Respond(t) ==
    /\ task[t].handler = "respond"
    /\ LET c == task[t].of
           m == conn[c].request
       IN  /\ IF m = Malformed THEN UNCHANGED registry ELSE Registry!Return(t)
           /\ conn' = [conn EXCEPT
                         ![c].stage = "written",
                         ![c].answer = IF m = Malformed THEN ErrorMessage
                                       ELSE Answer(m, result[t])]
    /\ Finished(t)
    /\ UNCHANGED <<server, signalled, accepting, backlog, peers>>

HandleWrite(t, c) ==
    /\ conn[c].stage = "written"
    /\ server = "running"
    /\ task[t] = Idle
    /\ Release(c, [conn[c] EXCEPT !.stage = "closed"])
    /\ UNCHANGED <<registry, listener, peers>>

-----------------------------------------------------------------------------

Call(p) == Write(p) \/ Receive(p) \/ LoseConnection(p)

\* A handler that a thread is in.
Handler(t) == Start(t) \/ StartAccept(t) \/ Perform(t) \/ Respond(t)

HandlerOf(t, c) == HandleReadError(t, c) \/ HandleRead(t, c) \/ HandleWrite(t, c)

Next ==
    \/ \E p \in Peers : Connect(p) \/ Call(p) \/ Killed(p)
    \/ \E t \in Threads : HandleAccept(t) \/ HandleAcceptError(t) \/ HandleStop(t) \/ Handler(t)
    \/ \E t \in Threads, c \in Connections : HandlerOf(t, c)
    \/ Signal \/ Exit

(***************************************************************************)
(* Programs go on with a call they have begun, threads with a handler, and *)
(* what is ready is not overtaken for ever: the io_service runs handlers   *)
(* in the order they became ready, and an accept does not fail for ever.   *)
(***************************************************************************)
Fairness ==
    /\ \A p \in Peers : WF_vars(Call(p))
    /\ \A t \in Threads : WF_vars(Handler(t))
    /\ \A c \in Connections : SF_vars(\E t \in Threads : HandlerOf(t, c))
    /\ SF_vars(\E t \in Threads : HandleAccept(t))
    /\ SF_vars(\E t \in Threads : HandleStop(t))
    /\ WF_vars(Exit)

Spec == Init /\ [][Next]_vars /\ Fairness

-----------------------------------------------------------------------------

Listed(s, p) ==
    /\ s.name \in DOMAIN table
    /\ SameSignature(table[s.name].signature, s)
    /\ p \in table[s.name].providers

\* How the last call of p ended, if no earlier request of p could interfere.
Ended(p, op, how) ==
    outcome[p] \in how /\ p \notin disturbed /\ asks[p].op = op /\ server # "down"

\* When registerService of the proxy returns (registry.cpp:56-60) the registry
\* hands the provider out, and when deregisterService returns it does not, until
\* the program's next call: whatever other programs do, and although the answer
\* to a removal is OK whether or not there was anything (clienthandler.cpp:130).
AcknowledgedHolds ==
    \A p \in Peers :
        LET s == Received[asks[p].signature]
        IN  /\ Ended(p, "registerService", {"returned"}) => Listed(s, asks[p].provider)
            /\ Ended(p, "deregisterService", {"returned"}) => ~Listed(s, asks[p].provider)

\* A program whose connection is closed without an answer can rely on its
\* request not having been carried out: a stop waits for the handlers that run
\* (registrylistener.cpp:61, 88) and a handler that calls the registry answers.
NoSilentEffect ==
    \A c \in Connections :
        conn[c].stage = "closed" /\ conn[c].applied => conn[c].answer # Silence

\* Every call of the proxy returns or throws, though it waits without a timeout
\* (registry.cpp:45): the listener accepts for ever, peers that are slow hold
\* no thread, and a stop closes the connections that wait.
EveryCallEnds == \A p \in Peers : outcome[p] = "pending" ~> outcome[p] # "pending"

\* A signal ends the process (registrylistener.cpp:86-89), whatever peers do.
StopsOnSignal == signalled ~> server = "down"

\* registry.h:55: deregisterProvider "deregisters all services of a provider", so
\* that after an answer to it the provider has none.
ProviderIsDeregistered ==
    \A p \in Peers :
        Ended(p, "deregisterProvider", {"returned", "threw"}) =>
            \A n \in DOMAIN table : asks[p].provider \notin table[n].providers
=============================================================================
