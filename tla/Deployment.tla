------------------------------ MODULE Deployment ------------------------------
(***************************************************************************)
(* The programs together: the registry, a provider from its main to its    *)
(* end, the clients in their loop, and the launcher of the test case or a  *)
(* user who starts and signals the programs by hand.                       *)
(*                                                                         *)
(* The main of both providers is the same but for the services they name.  *)
(* Main asks the registry and waits; what the registry does of it and its  *)
(* answer are one step, but what a killed program has asked for stays with *)
(* the registry, which may carry it out at any time.  Programs are killed, *)
(* connections are reset, and nobody waits for another program to be       *)
(* ready: the launcher's sleeps promise nothing.                           *)
(***************************************************************************)
EXTENDS ServiceServer, Sequences

CONSTANTS
    Provided,    \* the services of the provider, in the order main names them
    Iterations,  \* the calls an iteration of the client's loop may make, in order
    Launched,    \* the clients the launcher starts, in order
    Threads,     \* the sizes of the pool that a user asks for with --threads
    DefaultThreads,  \* and the size when nothing is said
    MaxRestarts  \* bound: how often the user starts a program again

ASSUME ProvidedAssumption ==
    /\ Provided \in Seq(Services) \ {<<>>}
    /\ Iterations \subseteq Seq(Services) \ {<<>>}
    /\ Launched \in Seq(Clients)
    /\ Threads \cup {DefaultThreads} \subseteq Nat \ {0}
    /\ MaxRestarts \in Nat

\* The launcher tells its children apart.
ASSUME ChildrenAssumption == Clients \cap {"registry", "provider"} = {}

VARIABLES
    at,          \* where main is: "none", "register", "listen", "serve" or "deregister"
    item,        \* which of Provided main registers or deregisters next
    status,      \* what main will return
    call,        \* main's call of the registry: "none", "sent", or "lost" with the registry
    registry,    \* the registry's process: "none", "starting", "up" or "down"
    registered,  \* the services the registry has of this provider's address
    left,        \* request -> how often killed programs have left it to the registry
    late,        \* history: those of registered that an earlier life asked for and the
                 \* registry carried out since, but that this life has not registered
    client,      \* client -> where its loop is, and the calls left of the iteration
    launcher,    \* "absent", "starting", "running", "stopping", "waiting", "ended" or "gone"
    child,       \* which of Children the launcher starts or stops next
    restarts,    \* starts the user has left
    spoilt,      \* history: clients that ran while the system was not healthy, and did not end since
    orderly      \* history: the launcher was told to stop a healthy system, and no fault since

mainVars == <<at, item, status, call>>
registryVars == <<registry, registered, left, late>>
launcherVars == <<launcher, child, restarts>>
history == <<spoilt, orderly>>
vars == <<serverVars, mainVars, registryVars, client, launcherVars, history>>

Children == <<"registry", "provider">> \o Launched

Offered == {Provided[i] : i \in DOMAIN Provided}

Requests == [op : {"register", "deregister"}, service : Offered]

NothingLeft == [r \in Requests |-> 0]

\* Where a client is: "failed" when the registry or a connection was the reason for
\* its end, "ended" when it was killed, could not read its own images, or had its
\* connection reset.
Places == {"none", "idle", "found", "calling", "failed", "ended"}

TypeOK ==
    /\ ServerTypeOK
    /\ at \in {"none", "register", "listen", "serve", "deregister"}
    /\ item \in 1 .. Len(Provided)
    /\ status \in {"success", "failure"}
    /\ call \in {"none", "sent", "lost"}
    /\ registry \in {"none", "starting", "up", "down"}
    /\ registered \subseteq Services
    /\ left \in [Requests -> Nat]
    /\ late \subseteq registered
    /\ client \in [Clients -> [at : Places, rest : Seq(Services)]]
    /\ launcher \in {"absent", "starting", "running", "stopping", "waiting", "ended", "gone"}
    /\ child \in 0 .. Len(Children)
    /\ restarts \in 0 .. MaxRestarts
    /\ spoilt \subseteq Clients
    /\ orderly \in BOOLEAN

Init ==
    /\ ServerInit
    /\ at = "none" /\ item = 1 /\ status = "success" /\ call = "none"
    /\ registry = "none" /\ registered = {} /\ left = NothingLeft /\ late = {}
    /\ client = [cl \in Clients |-> [at |-> "none", rest |-> <<>>]]
    /\ \/ launcher = "absent" /\ restarts = MaxRestarts /\ threads \in Threads
       \/ launcher = "starting" /\ restarts = 0 /\ threads = DefaultThreads
    /\ child = 1
    /\ spoilt = {} /\ orderly = FALSE

Runs(cl) == client[cl].at \in {"idle", "found", "calling"}

\* The registry knows every service and the provider accepts connections.
Healthy ==
    /\ registry = "up"
    /\ server = "running" /\ ~signalled
    /\ registered = Offered

-----------------------------------------------------------------------------
(* The provider's main.                                                    *)

StartProvider ==
    /\ process # "alive"
    /\ process' = "alive"
    /\ at' = "register" /\ item' = 1 /\ status' = "success" /\ call' = "none"
    /\ late' = {}
    /\ UNCHANGED <<threads, installed, server, signalled, accepting, conn>>
    /\ UNCHANGED <<registry, registered, left, client>>

MainEnds == at' = "none" /\ item' = 1 /\ status' = "success" /\ call' = "none"

Exit(how) == Leave(how) /\ MainEnds

\* Mutant of Advance: the second round does not begin with the first service.
AdvanceOn(next) ==
    /\ item' = item + 1
    /\ at' = IF item = Len(Provided) THEN next ELSE at

\* On to the next of Provided, or to what main does after the last.
Advance(next) ==
    /\ item' = IF item = Len(Provided) THEN 1 ELSE item + 1
    /\ at' = IF item = Len(Provided) THEN next ELSE at

\* The registry is reached and the request written to it.
Ask(what) ==
    /\ at = what
    /\ call = "none"
    /\ registry = "up"
    /\ call' = "sent"
    /\ UNCHANGED <<at, item, status, registryVars, client>>

\* Mutant of AskToRegister: the skeleton is not installed.
AskOnly == Ask("register") /\ UNCHANGED serverVars

\* install, then register with the registry.
AskToRegister ==
    /\ Ask("register")
    /\ installed' = installed \cup {Provided[item]}
    /\ UNCHANGED <<threads, process, server, signalled, accepting, conn>>

AskToDeregister == Ask("deregister") /\ UNCHANGED serverVars

\* The registry carries the request out and answers.
RegisterService ==
    /\ at = "register"
    /\ call = "sent"
    /\ call' = "none"
    /\ registered' = registered \cup {Provided[item]}
    /\ late' = late \ {Provided[item]}
    /\ Advance("listen")
    /\ UNCHANGED <<status, registry, left, client, serverVars>>

\* The registry cannot be reached, stops before it answers, or has the name with
\* another signature: main returns, and what it has registered stays registered.
RegistrationThrows ==
    /\ at = "register"
    /\ call = "none" => registry # "up"
    /\ Exit("failure")
    /\ UNCHANGED <<registryVars, client>>

StartListening ==
    /\ at = "listen"
    /\ Listen
    /\ at' = "serve"
    /\ UNCHANGED <<item, status, call, registryVars, client>>

\* The address is in use: the services are deregistered nevertheless.
ListeningThrows ==
    /\ at = "listen"
    /\ at' = "deregister"
    /\ status' = "failure"
    /\ UNCHANGED <<item, call, registryVars, client, serverVars>>

StopListening ==
    /\ Close
    /\ at' = "deregister"
    /\ UNCHANGED <<item, status, call, registryVars, client>>

\* Mutant of DeregisterService: the last service is forgotten.
DeregisterAllButLast ==
    /\ at = "deregister"
    /\ call = "sent"
    /\ registered' = IF item = Len(Provided) THEN registered ELSE registered \ {Provided[item]}
    /\ late' = late \ {Provided[item]}
    /\ IF item = Len(Provided) THEN Exit(status)
       ELSE call' = "none" /\ Advance("none") /\ UNCHANGED <<status, serverVars>>
    /\ UNCHANGED <<registry, left, client>>

\* After the last one main returns.
DeregisterService ==
    /\ at = "deregister"
    /\ call = "sent"
    /\ registered' = registered \ {Provided[item]}
    /\ late' = late \ {Provided[item]}
    /\ IF item = Len(Provided) THEN Exit(status)
       ELSE call' = "none" /\ Advance("none") /\ UNCHANGED <<status, serverVars>>
    /\ UNCHANGED <<registry, left, client>>

\* The registry cannot be reached, or stops before it answers.
DeregistrationThrows ==
    /\ at = "deregister"
    /\ call = "lost" \/ (call = "none" /\ registry # "up")
    /\ Exit("failure")
    /\ UNCHANGED <<registryVars, client>>

Main ==
    \/ AskToRegister \/ RegisterService \/ RegistrationThrows
    \/ StartListening \/ ListeningThrows \/ StopListening
    \/ AskToDeregister \/ DeregisterService \/ DeregistrationThrows

-----------------------------------------------------------------------------
(* The client's loop.  It ends on the first exception; an answer that says *)
(* the call failed only starts the next iteration.                         *)

To(cl, where) == client' = [client EXCEPT ![cl].at = where]
End(cl, how) == client' = [client EXCEPT ![cl] = [at |-> how, rest |-> <<>>]]

StartClient(cl) ==
    /\ client[cl].at = "none"
    /\ To(cl, "idle")
    /\ UNCHANGED <<serverVars, mainVars, registryVars>>

\* An iteration makes some calls in a row.  What it works on may come from the
\* client's own disk, and reading it may throw: the folder need not exist.
Begin(cl) ==
    /\ client[cl] = [at |-> "idle", rest |-> <<>>]
    /\ \/ \E calls \in Iterations : client' = [client EXCEPT ![cl].rest = calls]
       \/ End(cl, "ended")
    /\ UNCHANGED <<serverVars, mainVars, registryVars>>

\* Registry::getProvider throws when there is no registry or no provider.
GetProvider(cl) ==
    /\ client[cl].at = "idle"
    /\ client[cl].rest # <<>>
    /\ IF registry = "up" /\ Head(client[cl].rest) \in registered
       THEN To(cl, "found") ELSE End(cl, "failed")
    /\ UNCHANGED <<serverVars, mainVars, registryVars>>

Submit(cl) ==
    /\ client[cl].at = "found"
    /\ Connect(cl, Head(client[cl].rest))
    /\ To(cl, "calling")
    /\ UNCHANGED <<mainVars, registryVars>>

\* Nobody listens at the provider's address.
Refuse(cl) ==
    /\ client[cl].at = "found"
    /\ server = "off"
    /\ End(cl, "failed")
    /\ UNCHANGED <<serverVars, mainVars, registryVars>>

Write(cl) ==
    /\ client[cl].at = "calling"
    /\ Send(cl)
    /\ UNCHANGED <<client, mainVars, registryVars>>

\* Mutant of Read: a call that failed ends the client.
ReadOrEnd(cl) ==
    /\ client[cl].at = "calling"
    /\ client' = [client EXCEPT ![cl] =
          [at |-> IF conn[cl].answer = "ok" THEN "idle" ELSE "failed",
           rest |-> IF conn[cl].answer = "ok" THEN Tail(@.rest) ELSE <<>>]]
    /\ Receive(cl)
    /\ UNCHANGED <<mainVars, registryVars>>

Read(cl) ==
    /\ client[cl].at = "calling"
    /\ client' = [client EXCEPT ![cl] =
          [at |-> "idle", rest |-> IF conn[cl].answer = "ok" THEN Tail(@.rest) ELSE <<>>]]
    /\ Receive(cl)
    /\ UNCHANGED <<mainVars, registryVars>>

SubmitThrows(cl) ==
    /\ client[cl].at = "calling"
    /\ LoseConnection(cl)
    /\ End(cl, "failed")
    /\ UNCHANGED <<mainVars, registryVars>>

Loop(cl) ==
    \/ Begin(cl) \/ GetProvider(cl) \/ Submit(cl) \/ Refuse(cl)
    \/ Write(cl) \/ Read(cl) \/ SubmitThrows(cl)

-----------------------------------------------------------------------------
(* Signals and faults.                                                     *)

StartRegistry ==
    /\ registry \in {"none", "down"}
    /\ registry' = "starting"
    /\ UNCHANGED <<serverVars, mainVars, registered, left, late, client>>

RegistryListens ==
    /\ registry = "starting"
    /\ registry' = "up"
    /\ UNCHANGED <<serverVars, mainVars, registered, left, late, client>>

\* The table is in memory only, and so are the requests.
StopRegistry ==
    /\ registry \in {"starting", "up"}
    /\ registry' = "down"
    /\ registered' = {} /\ left' = NothingLeft /\ late' = {}
    /\ call' = IF call = "sent" THEN "lost" ELSE call
    /\ UNCHANGED <<serverVars, at, item, status, client>>

\* The registry reads what was written to it though its sender is gone.
RegistryCarriesOut(r) ==
    /\ registry = "up"
    /\ left[r] > 0
    /\ left' = [left EXCEPT ![r] = @ - 1]
    /\ registered' = IF r.op = "register" THEN registered \cup {r.service}
                     ELSE registered \ {r.service}
    /\ late' = IF r.op = "register" THEN late \cup ({r.service} \ registered)
               ELSE late \ {r.service}
    /\ UNCHANGED <<serverVars, mainVars, registry, client>>

\* A program that is killed leaves its request to the registry.
Killed ==
    /\ Exit("dead")
    /\ left' = IF call = "sent" THEN [left EXCEPT ![[op |-> at, service |-> Provided[item]]] = @ + 1]
               ELSE left
    /\ UNCHANGED <<registry, registered, late>>

KillProvider ==
    /\ process = "alive"
    /\ Killed
    /\ UNCHANGED client

\* The listener catches the signal; before and after its time nobody does.
SignalProvider ==
    /\ process = "alive"
    /\ IF server # "off"
       THEN /\ signalled' = TRUE
            /\ UNCHANGED <<threads, process, installed, server, accepting, conn>>
            /\ UNCHANGED <<mainVars, registryVars>>
       ELSE Killed
    /\ UNCHANGED client

\* A client has no handlers: every signal kills it, and the kernel closes its socket.
KillClient(cl) ==
    /\ Runs(cl)
    /\ End(cl, "ended")
    /\ IF client[cl].at = "calling" THEN Hangup(cl, "gone") ELSE UNCHANGED serverVars
    /\ UNCHANGED <<mainVars, registryVars>>

Reset(cl) ==
    /\ client[cl].at = "calling"
    /\ Hangup(cl, "reset")
    /\ End(cl, "ended")
    /\ UNCHANGED <<mainVars, registryVars>>

Fault == StopRegistry \/ KillProvider \/ \E cl \in Clients : KillClient(cl) \/ Reset(cl)

-----------------------------------------------------------------------------
(* Who starts and stops the programs.                                      *)

Again(started, first) ==
    /\ IF first THEN restarts' = restarts ELSE restarts > 0 /\ restarts' = restarts - 1
    /\ started
    /\ UNCHANGED <<launcher, child>>

ByHand ==
    /\ launcher = "absent"
    /\ \/ Again(StartRegistry, registry = "none")
       \/ Again(StartProvider, process = "none")
       \/ \E cl \in Clients : Again(StartClient(cl), TRUE)
       \/ SignalProvider /\ UNCHANGED launcherVars

Start(name) ==
    CASE name = "registry" -> StartRegistry
      [] name = "provider" -> StartProvider
      [] OTHER -> StartClient(name)

Signal(name) ==
    CASE name = "registry" -> StopRegistry
      [] name = "provider" -> SignalProvider
      [] OTHER -> KillClient(name)

HasEnded(name) ==
    CASE name = "registry" -> registry = "down"
      [] name = "provider" -> process # "alive"
      [] OTHER -> ~Runs(name)

programs == <<serverVars, mainVars, registryVars, client>>

\* The handlers of signals are installed when every child has been started.
Launch ==
    /\ launcher = "starting"
    /\ Start(Children[child])
    /\ launcher' = IF child = Len(Children) THEN "running" ELSE "starting"
    /\ child' = IF child = Len(Children) THEN child ELSE child + 1
    /\ UNCHANGED restarts

\* A fork fails, or a signal comes too early: the children run on without it.
LauncherDies ==
    /\ launcher = "starting"
    /\ launcher' = "gone"
    /\ UNCHANGED <<child, restarts, programs>>

OnKill ==
    /\ launcher = "running"
    /\ launcher' = "stopping"
    /\ UNCHANGED <<child, restarts, programs>>

\* Mutant of KillChild: the children are stopped in the order they were started.
KillOldest ==
    /\ launcher = "stopping"
    /\ LET name == Children[Len(Children) + 1 - child]
       IN IF HasEnded(name) THEN UNCHANGED programs ELSE Signal(name)
    /\ launcher' = "waiting"
    /\ UNCHANGED <<child, restarts>>

\* ~process: SIGTERM, and then waitpid.
KillChild ==
    /\ launcher = "stopping"
    /\ IF HasEnded(Children[child]) THEN UNCHANGED programs ELSE Signal(Children[child])
    /\ launcher' = "waiting"
    /\ UNCHANGED <<child, restarts>>

WaitChild ==
    /\ launcher = "waiting"
    /\ HasEnded(Children[child])
    /\ child' = child - 1
    /\ launcher' = IF child = 1 THEN "ended" ELSE "stopping"
    /\ UNCHANGED <<restarts, programs>>

\* waitpid(-1) has no child left.
AllExited ==
    /\ launcher = "running"
    /\ \A i \in DOMAIN Children : HasEnded(Children[i])
    /\ launcher' = "ended"
    /\ UNCHANGED <<child, restarts, programs>>

-----------------------------------------------------------------------------
Serve(cl) ==
    /\ Handler(cl) \/ Invoked(cl)
    /\ IF process' = "dead" THEN MainEnds ELSE UNCHANGED mainVars
    /\ UNCHANGED <<registryVars, client>>

Stop == HandleStop /\ UNCHANGED <<mainVars, registryVars, client>>

Spoil ==
    spoilt' = {cl \in Clients : /\ client'[cl].at # "ended"
                                /\ cl \in spoilt \/ (Runs(cl)' /\ ~Healthy')}

Step(A) == A /\ Spoil /\ UNCHANGED <<launcherVars, orderly>>

Started == (ByHand \/ Launch) /\ Spoil /\ UNCHANGED orderly

Faulty == Fault /\ Spoil /\ orderly' = FALSE /\ UNCHANGED launcherVars

Told ==
    /\ OnKill
    /\ orderly' = (Healthy /\ \A cl \in Clients : conn[cl].peer # "reset")
    /\ UNCHANGED spoilt

LauncherWorks == (KillChild \/ WaitChild \/ AllExited) /\ Spoil /\ UNCHANGED orderly

Next ==
    \/ Step(Main) \/ Step(Stop) \/ Step(RegistryListens)
    \/ \E r \in Requests : Step(RegistryCarriesOut(r))
    \/ \E cl \in Clients : Step(Loop(cl)) \/ Step(Serve(cl))
    \/ Started \/ Faulty \/ Told \/ LauncherWorks
    \/ LauncherDies /\ UNCHANGED history

Spec == Init /\ [][Next]_vars

(***************************************************************************)
(* Programs that run take their steps, and a service that is invoked       *)
(* returns or throws.  The io_service hands the handlers that are ready to *)
(* its threads in turn, so that one that is ready again and again is run,  *)
(* however the others keep the threads busy.                               *)
(***************************************************************************)
Fairness ==
    /\ WF_vars(Step(Main)) /\ SF_vars(Step(Stop))
    /\ \A cl \in Clients :
          /\ WF_vars(Step(Loop(cl)))
          /\ SF_vars(Step(Serve(cl)))
    /\ WF_vars(LauncherWorks)

FairSpec == Spec /\ Fairness

-----------------------------------------------------------------------------
(* What should hold.                                                       *)

\* A call whose answer says it succeeded had its service invoked once, and one
\* that is answered by an error at most once: no failure of a connection, a signal
\* or a restart has a request served again (serviceskeleton.cpp).
SuccessIsOneInvocation ==
    \A cl \in Clients : conn[cl].runs \in IF conn[cl].answer = "ok" THEN {1} ELSE {0, 1}

\* A client that the registry sent to this provider is never told that the
\* service is not available: main installs before it registers, and listens only
\* when all is installed, also when it restarts while still registered.
NeverUnavailable == \A cl \in Clients : conn[cl].answer # "unavailable"

\* A main that returns success has left nothing of itself in the registry: what is
\* there was asked for by an earlier life that was killed in a call, carried out
\* since this life began, and not registered by this life (registry.cpp:42-45).
SuccessLeavesNothing == process = "success" => registered \subseteq late

\* A client that can read its images and whose connections are not reset ends only
\* if it ran when the registry was down, a service was not registered or the
\* provider did not accept: calls that fail on the provider, slow or interrupted
\* peers and a full pool are no reason (the loop of the client's main).
ClientsKeepRunning == \A cl \in Clients : client[cl].at = "failed" => cl \in spoilt

\* The launcher that is told to stop a healthy system stops clients before the
\* provider and the provider before the registry, so that the provider can
\* deregister and main returns success.
StopsInOrder == orderly /\ launcher = "ended" => process = "success"

\* Whatever stops the listener, a service that is invoked runs to its end and its
\* response is written, as long as the process lives: run() joins the threads
\* before main goes on.  What a stop can cost a client that is there is the rest of
\* a large response, which is written later.
RunningServicesFinish ==
    [][\A cl \in Clients :
         /\ conn[cl].stage = "invoking" /\ process' = "alive"
               => conn'[cl].stage \in {"invoking", "writing", "written"}
         /\ conn[cl].stage = "writing" /\ conn[cl].peer = "there" /\ process' = "alive"
               => conn'[cl].stage \in {"writing", "written"} \/ server = "stopped"]_vars

\* A client's call comes to its end, whatever happens to the provider, the
\* connection or the other clients.
EveryCallComesToItsEnd ==
    \A cl \in Clients : client[cl].at = "calling" ~> client[cl].at # "calling"

\* A launcher that is told to stop has every child stopped.
LauncherStops == launcher = "stopping" ~> launcher = "ended"

\* "Initialize and run the server until stopped."
\* (ssoa-storageprovider/src/main.cpp:108): a provider that serves goes on until
\* a signal or a fault of its own process stops it; serving a peer does not.
RunsUntilStopped == [][\A cl \in Clients : Serve(cl) => process' = process]_vars
=============================================================================
